----------------------------- MODULE Scopes_proofs -----------------------------
(***************************************************************************)
(* For every set of programs: the scopes, the symbols in them, the         *)
(* pointers to them and current_return_type follow the call stack of the   *)
(* analyser, and the walk over the declarations implements DeclOrder.      *)
(*                                                                         *)
(* The code has no record that relates them: a scope is pushed and popped  *)
(* by handlers, through many early returns, while declarations are         *)
(* analysed from wherever they are used first.  The inductive invariant    *)
(* has two parts.                                                          *)
(*                                                                         *)
(* Where the scopes are.  Counted says that the scopes in force are those  *)
(* of the activations that have one; Pointers, that a pointer goes into a  *)
(* scope so far below the innermost one, by the activations above it that  *)
(* have a scope, that it cannot be the one that is popped or added to;     *)
(* SavedTypes, that a function has saved the return type of the next one   *)
(* below it.                                                               *)
(*                                                                         *)
(* What is in them.  Callers says from where a declaration may be analysed *)
(* and Openness that a symbol is DEFINED just while one activation of its  *)
(* name works on it.  Settled, BlockScopes and OneEach say who could reach *)
(* the symbol of a global: the handler of its declaration, which runs      *)
(* once, while the names of blocks have scopes of their own.  OwnNodes     *)
(* says that as long as nothing is reported each symbol is that of its     *)
(* declaration.                                                            *)
(*                                                                         *)
(* A handler's step is then one of DeclOrder's for the symbol of the       *)
(* global scope that it opens, closes, declares or leaves, and a stutter   *)
(* otherwise; WalkInv adds that the declarations the walk has passed are   *)
(* analysed, and EvalInv what has become of each that is.                  *)
(*                                                                         *)
(* TypeOK needs the scopes too: an identifier reads a symbol through a     *)
(* pointer it has kept across the analysis of a declaration.  So does      *)
(* ErrInv, which adds to what the handlers keep of error values            *)
(* (Analyzer_proofs) that a node is asked for once, but by identifiers.    *)
(***************************************************************************)
EXTENDS Analyzer_proofs

\* The activations above the i-th that have a scope of their own, in a stack s.
OpenFunc(f)   == Node(f.node).kind = "FUNC_DECL" /\ f.pc \in InBody
HoldsScope(f) == (Node(f.node).kind = "BLOCK" /\ f.pc # "enter") \/ OpenFunc(f)
HoldersIn(s, i) == {j \in DOMAIN s : j > i /\ HoldsScope(s[j])}

Counted ==
  IF status = "start" THEN stack = <<>> /\ scopes = <<>>
  ELSE /\ Len(scopes) >= 1 + Cardinality(HoldersIn(stack, 0))
       /\ ~hadError => Len(scopes) = 1 + Cardinality(HoldersIn(stack, 0))

\* The i-th activation may point to the symbol x of scope k.
Anchored(i, k, x) ==
  /\ k \in DOMAIN scopes /\ x \in DOMAIN scopes[k].sym
  /\ k + Cardinality(HoldersIn(stack, i)) <= Len(scopes)

Pointing(f) == Node(f.node).kind \in {"VAR_DECL", "IDENT"} /\ f.pc # "enter"

Pointers ==
  \A i \in DOMAIN stack :
    Pointing(stack[i]) => Anchored(i, stack[i].sym, Node(stack[i].node).name)

\* r is the return type of the last function open in the stack s below i.
LastOpen(s, i, r) ==
  LET open == {j \in DOMAIN s : j < i /\ OpenFunc(s[j])}
  IN  IF open = {} THEN r = NoType
      ELSE \E j \in open : r = s[j].ty /\ \A m \in open : m <= j

SavedTypes ==
  /\ \A i \in DOMAIN stack : OpenFunc(stack[i]) => LastOpen(stack, i, stack[i].save)
  /\ LastOpen(stack, Len(stack) + 1, retType)

(***************************************************************************)
(* Counting.                                                               *)
(***************************************************************************)
LEMMA HoldersAreFinite ==
  ASSUME NEW s, NEW n \in Nat, DOMAIN s \subseteq 1 .. n, NEW i
  PROVE  IsFiniteSet(HoldersIn(s, i)) /\ Cardinality(HoldersIn(s, i)) \in Nat
<1>1. IsFiniteSet(1 .. n)
  BY FS_Interval
<1>2. HoldersIn(s, i) \subseteq 1 .. n
  BY DEF HoldersIn
<1> QED BY <1>1, <1>2, FS_Subset, FS_CardinalityType

\* Two stacks that differ in their n-th frame at most, which is their last.
Alike(s, t, n) ==
  /\ n \in Nat \ {0}
  /\ 1 .. n - 1 \subseteq DOMAIN s /\ DOMAIN s \subseteq 1 .. n
  /\ 1 .. n - 1 \subseteq DOMAIN t /\ DOMAIN t \subseteq 1 .. n
  /\ \A i \in 1 .. n - 1 : s[i] = t[i]

Has(s, n) == n \in DOMAIN s /\ HoldsScope(s[n])

LEMMA SameHolders ==
  ASSUME NEW s, NEW t, NEW n, Alike(s, t, n), Has(s, n) <=> Has(t, n), NEW i
  PROVE  HoldersIn(s, i) = HoldersIn(t, i)
<1>1. \A j \in DOMAIN s \cup DOMAIN t : j = n \/ (j \in 1 .. n - 1 /\ s[j] = t[j])
  BY DEF Alike
<1>2. 1 .. n - 1 \subseteq DOMAIN s /\ 1 .. n - 1 \subseteq DOMAIN t
  BY DEF Alike
<1> QED BY <1>1, <1>2 DEF HoldersIn, Has

LEMMA OneMoreHolder ==
  ASSUME NEW s, NEW t, NEW n, Alike(s, t, n), ~Has(s, n), Has(t, n), NEW i \in Nat, i < n
  PROVE  Cardinality(HoldersIn(t, i)) = Cardinality(HoldersIn(s, i)) + 1
<1>1. \A j \in DOMAIN s \cup DOMAIN t : j = n \/ (j \in 1 .. n - 1 /\ s[j] = t[j])
  BY DEF Alike
<1>2. 1 .. n - 1 \subseteq DOMAIN s /\ 1 .. n - 1 \subseteq DOMAIN t
  BY DEF Alike
<1>3. HoldersIn(t, i) = HoldersIn(s, i) \cup {n} /\ n \notin HoldersIn(s, i)
  BY <1>1, <1>2 DEF HoldersIn, Has
<1>4. IsFiniteSet(HoldersIn(s, i))
  BY HoldersAreFinite DEF Alike
<1> QED BY <1>3, <1>4, FS_AddElement

(***************************************************************************)
(* What a handler does to the scopes and to the activations that have one. *)
(***************************************************************************)
\* The names a scope has stay, and it gets no more, in scopes made of old.
Covers(new) ==
  \A k \in DOMAIN scopes : k \in DOMAIN new /\ DOMAIN new[k].sym = DOMAIN scopes[k].sym

Balanced(n) ==
  /\ n = Len(stack) /\ Alike(stack, stack', n)
  /\ DOMAIN scopes' = 1 .. Len(scopes')
  /\ \A k \in DOMAIN scopes :
       /\ k \in DOMAIN scopes' => DOMAIN scopes[k].sym \subseteq DOMAIN scopes'[k].sym
       /\ k < Len(scopes) \/ ~Has(stack, n)
            => k \in DOMAIN scopes' /\ DOMAIN scopes'[k].sym = DOMAIN scopes[k].sym
  /\ hadError => hadError'
  /\ \/ Len(scopes') = Len(scopes) /\ (Has(stack, n) <=> Has(stack', n))
     \/ Len(scopes') = Len(scopes) + 1 /\ ~Has(stack, n) /\ (Has(stack', n) \/ hadError')
     \/ Len(scopes') = Len(scopes) - 1 /\ Has(stack, n) /\ ~Has(stack', n)

LEMMA TopHolds ==
  ASSUME Shape, stack # <<>>, NEW n, n = Len(stack)
  PROVE  /\ n \in Nat \ {0} /\ n \in DOMAIN stack /\ DOMAIN stack = 1 .. n
         /\ stack[n] = Top /\ FrameOK(Top)
         /\ Has(stack, n) <=> HoldsScope(Top)
<1>1. n \in Nat /\ n \in DOMAIN stack /\ DOMAIN stack = 1 .. n
  BY ReadyHolds, StackLength DEF Shape
<1> QED BY <1>1 DEF Top, Has, Shape, StackOK

LEMMA TopDropped ==
  ASSUME Shape, stack # <<>>, NEW n, n = Len(stack), stack' = Below
  PROVE  Alike(stack, stack', n) /\ ~Has(stack', n)
<1>1. n \in Nat \ {0} /\ DOMAIN stack = 1 .. n
  BY TopHolds
<1>2. DOMAIN stack' = DOMAIN stack \ {n} /\ \A i \in DOMAIN stack' : stack'[i] = stack[i]
  BY Dropped DEF Shape
<1>3. DOMAIN stack' = 1 .. n - 1
  BY <1>1, <1>2
<1> QED BY <1>1, <1>2, <1>3 DEF Alike, Has

LEMMA TopReplaced ==
  ASSUME Shape, stack # <<>>, NEW n, n = Len(stack), NEW f, stack' = Append(Below, f)
  PROVE  /\ Alike(stack, stack', n) /\ DOMAIN stack' = 1 .. n /\ stack'[n] = f
         /\ Has(stack', n) <=> HoldsScope(f)
<1>1. n \in Nat \ {0} /\ DOMAIN stack = 1 .. n
  BY TopHolds
<1>2. /\ DOMAIN stack' = DOMAIN stack /\ stack'[n] = f
      /\ \A i \in DOMAIN stack : i # n => stack'[i] = stack[i]
  BY Replaced DEF Shape
<1> QED BY <1>1, <1>2 DEF Alike, Has

LEMMA TopStays ==
  ASSUME Shape, stack # <<>>, NEW n, n = Len(stack), stack' = stack
  PROVE  Alike(stack, stack', n) /\ (Has(stack', n) <=> Has(stack, n))
<1>1. n \in Nat \ {0} /\ DOMAIN stack = 1 .. n
  BY TopHolds
<1> QED BY <1>1 DEF Alike

\* The scopes of the five kinds of moves.
LEMMA ScopesKept ==
  ASSUME ScopesOK, scopes' = scopes
  PROVE  /\ Len(scopes') = Len(scopes) /\ DOMAIN scopes' = 1 .. Len(scopes')
         /\ Covers(scopes')
BY LastScope DEF Covers

LEMMA ScopesRewritten ==
  ASSUME ScopesOK, NEW k, NEW x, NEW level, NEW new, Rewrites(k, x, level, new)
  PROVE  Len(new) = Len(scopes) /\ DOMAIN new = 1 .. Len(new) /\ Covers(new)
BY RewriteIs, LastScope DEF Covers

LEMMA ScopesPushed ==
  ASSUME ScopesOK, NEW old, WellMade(old), Len(old) = Len(scopes), Covers(old),
         NEW sc, Pushes(old, sc)
  PROVE  /\ Len(scopes') = Len(scopes) + 1 /\ DOMAIN scopes' = 1 .. Len(scopes')
         /\ Covers(scopes')
<1>1. WellMade(scopes') /\ Len(scopes') = Len(old) + 1
      /\ \A k \in DOMAIN old : k \in DOMAIN scopes' /\ scopes'[k] = old[k]
  BY PushIsWellMade, ScopesAreWellMade
<1>2. DOMAIN scopes' = 1 .. Len(scopes')
  BY <1>1 DEF WellMade
<1> QED BY <1>1, <1>2 DEF Covers

\* An activation that is replaced by one of the same node that holds a scope
\* if it does.
LEMMA KindStays ==
  ASSUME NEW f, Activation(f)
  PROVE  /\ Node(f.node).kind = This.kind /\ Node(f.node).name = This.name
         /\ HoldsScope(f) <=> \/ This.kind = "BLOCK" /\ f.pc # "enter"
                              \/ This.kind = "FUNC_DECL" /\ f.pc \in InBody
         /\ HoldsScope(Top) <=> \/ This.kind = "BLOCK" /\ Top.pc # "enter"
                                \/ This.kind = "FUNC_DECL" /\ Top.pc \in InBody
BY DEF Activation, This, HoldsScope, OpenFunc

LEMMA StepBalanced ==
  ASSUME Shape, scopes # <<>>, HandlerStep
  PROVE  Balanced(Len(stack))
<1>1. PICK n : n = Len(stack)
  OBVIOUS
<1>2. /\ n \in Nat \ {0} /\ stack # <<>> /\ Activation(Top) /\ ScopesOK
      /\ Has(stack, n) <=> HoldsScope(Top)
  BY <1>1, TopHolds DEF HandlerStep, Activation, Shape
<1> DEFINE Still == /\ Len(scopes') = Len(scopes) /\ DOMAIN scopes' = 1 .. Len(scopes')
                    /\ Covers(scopes')
           Pushed == /\ Len(scopes') = Len(scopes) + 1 /\ DOMAIN scopes' = 1 .. Len(scopes')
                     /\ Covers(scopes')
<1> SUFFICES Balanced(n)
  BY <1>1
<1>3. ASSUME Still, hadError => hadError', stack' = Below, ~HoldsScope(Top) PROVE Balanced(n)
  BY <1>1, <1>2, <1>3, TopDropped, Zenon DEF Balanced, Covers
<1>4. ASSUME Still, hadError => hadError', NEW f, Activation(f), stack' = Append(Below, f),
             HoldsScope(f) <=> HoldsScope(Top)
      PROVE  Balanced(n)
  BY <1>1, <1>2, <1>4, TopReplaced, Zenon DEF Balanced, Covers
<1>5. ASSUME Still, hadError => hadError', stack' = stack PROVE Balanced(n)
  BY <1>1, <1>2, <1>5, TopStays DEF Balanced, Covers
<1>6. ASSUME Pushed, hadError', stack' = Below, ~HoldsScope(Top) PROVE Balanced(n)
  BY <1>1, <1>2, <1>6, TopDropped DEF Balanced, Covers
<1>7. ASSUME Pushed, hadError => hadError', NEW f, stack' = Append(Below, f),
             HoldsScope(f), ~HoldsScope(Top)
      PROVE  Balanced(n)
  BY <1>1, <1>2, <1>7, TopReplaced DEF Balanced, Covers
<1>8. ASSUME scopes' = PopScope, hadError => hadError', stack' = Below, HoldsScope(Top)
      PROVE  Balanced(n)
  <2>1. /\ WellMade(scopes') /\ Len(scopes') = Len(scopes) - 1
        /\ DOMAIN scopes' = 1 .. Len(scopes) - 1
        /\ \A k \in 1 .. Len(scopes) - 1 : scopes'[k] = scopes[k]
    BY <1>2, <1>8, PopIsWellMade, Zenon
  <2>2. PICK m \in Nat : m = Len(scopes) /\ DOMAIN scopes = 1 .. m
    BY <1>2, LastScope, Zenon
  <2>3. \A k \in DOMAIN scopes : k < m => k \in 1 .. m - 1
    BY <2>2
  <2> QED BY <1>1, <1>2, <1>8, <2>1, <2>2, <2>3, TopDropped DEF Balanced
<1>9. ASSUME AddsParams, hadError => hadError', NEW f, Activation(f), stack' = Append(Below, f),
             HoldsScope(f), HoldsScope(Top)
      PROVE  Balanced(n)
  <2>1. /\ DOMAIN scopes' = DOMAIN scopes /\ Len(scopes') = Len(scopes)
        /\ \A k \in DOMAIN scopes : k # Len(scopes) => scopes'[k] = scopes[k]
        /\ \A x \in DOMAIN Innermost : x \in DOMAIN scopes'[Len(scopes)].sym
    BY <1>2, <1>9, ParamsAreWellMade
  <2>2. PICK m \in Nat : m = Len(scopes) /\ DOMAIN scopes = 1 .. m
    BY <1>2, LastScope
  <2>3. \A k \in DOMAIN scopes : DOMAIN scopes[k].sym \subseteq DOMAIN scopes'[k].sym
    BY <2>1, <2>2 DEF Innermost
  <2>4. \A k \in DOMAIN scopes :
          k < m => k \in DOMAIN scopes' /\ DOMAIN scopes'[k].sym = DOMAIN scopes[k].sym
    BY <2>1, <2>2
  <2>5. Alike(stack, stack', n) /\ Has(stack', n) /\ Has(stack, n)
    BY <1>1, <1>2, <1>9, TopReplaced
  <2>6. Len(scopes') = Len(scopes) /\ DOMAIN scopes' = 1 .. Len(scopes')
    BY <2>1, <2>2
  <2> QED BY <1>1, <1>9, <2>2, <2>3, <2>4, <2>5, <2>6 DEF Balanced
<1>10. ASSUME scopes' = scopes PROVE Still
  BY <1>2, <1>10, ScopesKept
<1>11. ASSUME NEW k, NEW x, NEW level, Rewrites(k, x, level, scopes') PROVE Still
  BY <1>2, <1>11, ScopesRewritten
<1>12. ASSUME NEW sc, Pushes(scopes, sc) PROVE Pushed
  BY <1>2, <1>10, <1>12, ScopesPushed, ScopesAreWellMade, ScopesKept, LastScope DEF Covers
<1>13. ASSUME NEW here, NEW sc, Rewrites(Len(scopes), This.name, Declared, here), Pushes(here, sc)
       PROVE  Pushed
  <2>1. WellMade(here)
    BY <1>2, <1>13, RewriteIsWellMade DEF Declared, Undefined
  <2> QED BY <1>2, <1>13, <2>1, ScopesRewritten, ScopesPushed
<1> HIDE DEF Still, Pushed
<1>14. CASE PlainMove
  <2>1. ~HoldsScope(Top) /\ Still /\ (hadError => hadError')
    BY <1>2, <1>10, <1>14, KindStays DEF PlainMove, QuietMove, QuietReturn, QuietStep, Quiet, Steady
  <2>2. CASE QuietReturn
    BY <1>3, <2>1, <2>2 DEF QuietReturn, Returns
  <2>3. ASSUME NEW f, QuietStep(f) PROVE Balanced(n)
    <3>1. Activation(f) /\ stack' = Append(Below, f)
      BY <2>3 DEF QuietStep, Evaluates, Stays, Calls
    <3>2. ~HoldsScope(f)
      BY <1>14, <3>1, KindStays DEF PlainMove
    <3> QED BY <1>4, <2>1, <3>1, <3>2
  <2> QED BY <1>14, <2>2, <2>3 DEF PlainMove, QuietMove
<1>15. CASE IdentMove
  <2>1. ~HoldsScope(Top) /\ Still /\ (hadError => hadError')
    BY <1>2, <1>10, <1>15, KindStays DEF IdentMove, QuietReturn, LazyUse, Quiet, Steady
  <2>2. CASE QuietReturn
    BY <1>3, <2>1, <2>2 DEF QuietReturn, Returns
  <2>3. ASSUME NEW k, LazyUse(k) PROVE Balanced(n)
    <3>1. PICK f : Activation(f) /\ stack' = Append(Below, f)
      BY <2>3 DEF LazyUse, Calls
    <3>2. ~HoldsScope(f)
      BY <1>15, <3>1, KindStays DEF IdentMove
    <3> QED BY <1>4, <2>1, <3>1, <3>2
  <2> QED BY <1>15, <2>2, <2>3 DEF IdentMove
<1>16. CASE VarMove
  <2>1. ~HoldsScope(Top) /\ (hadError => hadError')
    BY <1>2, <1>16, KindStays
       DEF VarMove, OpensVar, ClosesVar, QuietReturn, QuietStep, Quiet, Steady, Collides
  <2>2. ASSUME NEW f, Activation(f) PROVE ~HoldsScope(f)
    BY <1>16, <2>2, KindStays DEF VarMove
  <2>3. Still
    BY <1>10, <1>11, <1>16
       DEF VarMove, OpensVar, ClosesVar, QuietReturn, QuietStep, Quiet, Collides
  <2>4. \/ stack' = Below
        \/ stack' = stack
        \/ \E f : Activation(f) /\ stack' = Append(Below, f)
    BY <1>16 DEF VarMove, OpensVar, ClosesVar, QuietReturn, QuietStep, Evaluates, Stays, Calls,
       Returns, Collides
  <2> QED BY <1>3, <1>4, <1>5, <2>1, <2>2, <2>3, <2>4
<1>17. CASE FuncMove
  <2>1. HoldsScope(Top) <=> Top.pc \in InBody
    BY <1>2, <1>17, KindStays DEF FuncMove
  <2>2. ASSUME NEW f, Activation(f) PROVE HoldsScope(f) <=> f.pc \in InBody
    BY <1>17, <2>2, KindStays DEF FuncMove
  <2>3. CASE Top.pc \notin InBody /\ QuietReturn
    BY <1>3, <1>10, <2>1, <2>3 DEF QuietReturn, Quiet, Steady, Returns
  <2>4. ASSUME Top.pc \notin InBody, NEW f, f.pc = "ret", QuietStep(f) PROVE Balanced(n)
    BY <1>4, <1>10, <2>1, <2>2, <2>4
       DEF QuietStep, Quiet, Steady, Evaluates, Stays, Calls, InBody
  <2>5. CASE Top.pc \notin InBody /\ OpensFunc
    <3>1. PICK f : Activation(f) /\ f.pc = "next" /\ stack' = Append(Below, f)
      BY <2>5 DEF OpensFunc, Stays
    <3>2. Pushed
      BY <1>12, <1>13, <2>5 DEF OpensFunc
    <3>3. HoldsScope(f) /\ ~HoldsScope(Top)
      BY <2>1, <2>2, <2>5, <3>1 DEF InBody
    <3> QED BY <1>7, <2>5, <3>1, <3>2, <3>3 DEF OpensFunc
  <2>6. CASE Top.pc \in InBody /\ ClosesFunc
    BY <1>8, <2>1, <2>6 DEF ClosesFunc, Returns
  <2>7. ASSUME Top.pc \in InBody, NEW f, Activation(f), Evaluates(f), Steady, f.pc \in InBody,
               UNCHANGED scopes \/ AddsParams
        PROVE  Balanced(n)
    <3>1. stack' = Append(Below, f) /\ HoldsScope(f) /\ HoldsScope(Top) /\ (hadError => hadError')
      BY <2>1, <2>2, <2>7 DEF Evaluates, Stays, Calls, Steady
    <3> QED BY <1>4, <1>9, <1>10, <2>7, <3>1
  <2> QED BY <1>17, <2>3, <2>4, <2>5, <2>6, <2>7 DEF FuncMove
<1>18. CASE BlockMove
  <2>1. HoldsScope(Top) <=> Top.pc # "enter"
    BY <1>2, <1>18, KindStays DEF BlockMove
  <2>2. ASSUME NEW f, Activation(f) PROVE HoldsScope(f) <=> f.pc # "enter"
    BY <1>18, <2>2, KindStays DEF BlockMove
  <2>3. CASE OpensBlock
    <3>1. Pushed /\ ~HoldsScope(Top) /\ (hadError => hadError')
      BY <1>12, <2>1, <2>3 DEF OpensBlock, Steady
    <3>2. CASE Returns /\ hadError'
      BY <1>6, <3>1, <3>2 DEF Returns
    <3>3. ASSUME NEW f, Activation(f), f.pc # "enter", Stays(f) PROVE Balanced(n)
      BY <1>7, <2>2, <3>1, <3>3 DEF Stays
    <3> QED BY <2>3, <3>2, <3>3 DEF OpensBlock
  <2>4. CASE ClosesBlock
    BY <1>8, <2>1, <2>4 DEF ClosesBlock, Returns, Steady
  <2>5. ASSUME Top.pc # "enter", NEW f, Activation(f), f.pc # "enter", Quiet,
               Stays(f) \/ \E m : Calls(f, m)
        PROVE  Balanced(n)
    <3>1. stack' = Append(Below, f) /\ HoldsScope(f) /\ HoldsScope(Top)
      BY <2>1, <2>2, <2>5 DEF Stays, Calls
    <3> QED BY <1>4, <1>10, <2>5, <3>1 DEF Quiet, Steady
  <2> QED BY <1>18, <2>3, <2>4, <2>5 DEF BlockMove
<1> QED BY <1>14, <1>15, <1>16, <1>17, <1>18 DEF HandlerStep, HandlerMove

(***************************************************************************)
(* The count of scopes.                                                    *)
(***************************************************************************)
LEMMA HoldersLater ==
  ASSUME prog' = prog, NEW i
  PROVE  HoldersIn(stack, i)' = HoldersIn(stack', i)
BY DEF HoldersIn, HoldsScope, OpenFunc, Node

\* The scopes grow and shrink with the activations that have one; a block
\* that is given up leaves a scope behind.
LEMMA CountsMove ==
  ASSUME NEW n, Balanced(n), NEW i \in Nat, i < n,
         NEW c, c = Cardinality(HoldersIn(stack, i)),
         NEW d, d = Cardinality(HoldersIn(stack', i))
  PROVE  /\ c \in Nat /\ d \in Nat
         /\ \/ Len(scopes') = Len(scopes) /\ d = c
            \/ Len(scopes') = Len(scopes) + 1 /\ d = c + 1
            \/ Len(scopes') = Len(scopes) + 1 /\ d = c /\ hadError'
            \/ Len(scopes') = Len(scopes) - 1 /\ c = d + 1
<1>1. Alike(stack, stack', n) /\ Alike(stack', stack, n)
  BY Zenon DEF Balanced, Alike
<1>2. c \in Nat /\ d \in Nat
  BY <1>1, HoldersAreFinite, Zenon DEF Alike
<1>3. CASE Has(stack, n) <=> Has(stack', n)
  <2>1. c = d
    BY <1>1, <1>3, SameHolders, Zenon
  <2> QED BY <1>2, <1>3, <2>1, Zenon DEF Balanced
<1>4. CASE ~Has(stack, n) /\ Has(stack', n)
  <2>1. d = c + 1
    BY <1>1, <1>4, OneMoreHolder, Zenon
  <2> QED BY <1>2, <1>4, <2>1, Zenon DEF Balanced
<1>5. CASE Has(stack, n) /\ ~Has(stack', n)
  <2>1. c = d + 1
    BY <1>1, <1>5, OneMoreHolder
  <2> QED BY <1>2, <1>5, <2>1, Zenon DEF Balanced
<1> QED BY <1>3, <1>4, <1>5, Zenon

\* A fresh activation has no scope.
LEMMA EnteringHoldsNothing ==
  ASSUME Shape, Enters
  PROVE  /\ \A i : HoldersIn(stack', i) = HoldersIn(stack, i)
         /\ Len(stack) \in Nat
         /\ DOMAIN stack' = DOMAIN stack \cup {Len(stack) + 1}
         /\ Len(stack') = Len(stack) + 1 /\ Len(stack) + 1 \notin DOMAIN stack
         /\ stack'[Len(stack) + 1].pc = "enter"
         /\ ~OpenFunc(stack'[Len(stack) + 1])
         /\ \A i \in DOMAIN stack : stack'[i] = stack[i]
<1>1. PICK f : f = Frame(ctl.node, ctl.exp)
  OBVIOUS
<1>2. f.pc = "enter"
  BY <1>1, FrameIsOK DEF Shape, Enters
<1>3. stack' = Append(stack, f)
  BY <1>1 DEF Enters
<1>4. PICK n : n = Len(stack) + 1
  OBVIOUS
<1>5. /\ DOMAIN stack' = DOMAIN stack \cup {n} /\ n \notin DOMAIN stack
      /\ stack'[n] = f /\ Len(stack') = n
      /\ \A i \in DOMAIN stack : stack'[i] = stack[i]
  BY <1>3, <1>4, Entered DEF Shape
<1>6. ~HoldsScope(f) /\ ~OpenFunc(f)
  BY <1>2 DEF HoldsScope, OpenFunc, InBody
<1>7. \A i : HoldersIn(stack', i) = HoldersIn(stack, i)
  BY <1>5, <1>6 DEF HoldersIn
<1> QED BY <1>2, <1>4, <1>5, <1>6, <1>7, StackLength DEF Shape

LEMMA CountedKept ==
  ASSUME Shape, Counted, Start \/ Enters \/ Idles \/ HandlerStep
  PROVE  Counted'
<1> DEFINE Count(s, sc, err) ==
      /\ Len(sc) >= 1 + Cardinality(HoldersIn(s, 0))
      /\ ~err => Len(sc) = 1 + Cardinality(HoldersIn(s, 0))
<1>1. ASSUME prog' = prog, status' # "start", Count(stack', scopes', hadError') PROVE Counted'
  BY <1>1, HoldersLater DEF Counted
<1>2. CASE Start
  <2>1. stack = <<>> /\ stack' = stack /\ prog' = prog /\ status' # "start"
    BY <1>2 DEF Start, Counted
  <2>2. HoldersIn(stack', 0) = {}
    BY <2>1 DEF HoldersIn
  <2>3. Len(scopes') = 1 /\ Cardinality(HoldersIn(stack', 0)) = 0
    BY <1>2, <2>2, StartMakesScopes, FS_EmptySet
  <2> QED BY <1>1, <2>1, <2>3
<1>3. CASE Enters
  <2>1. Count(stack, scopes, hadError) /\ HoldersIn(stack', 0) = HoldersIn(stack, 0)
    BY <1>3, EnteringHoldsNothing DEF Enters, Counted
  <2> QED BY <1>1, <1>3, <2>1 DEF Enters
<1>4. CASE Idles
  <2>1. CASE status = "start"
    BY <1>4, <2>1 DEF Idles, Counted
  <2>2. CASE status # "start"
    BY <1>1, <1>4, <2>2 DEF Idles, Counted
  <2> QED BY <2>1, <2>2
<1>5. CASE HandlerStep
  <2>1. PICK n : n = Len(stack)
    OBVIOUS
  <2>2. PICK m \in Nat : m = Len(scopes)
    BY LastScope DEF Shape
  <2>3. PICK c : c = Cardinality(HoldersIn(stack, 0))
    OBVIOUS
  <2>4. PICK d : d = Cardinality(HoldersIn(stack', 0))
    OBVIOUS
  <2>5. m >= 1 + c /\ (~hadError => m = 1 + c)
    BY <1>5, <2>2, <2>3 DEF HandlerStep, Counted
  <2>6. n \in Nat /\ 0 < n
    BY <1>5, <2>1, TopHolds DEF HandlerStep
  <2>7. c \in Nat
    BY <2>3, StackLength, HoldersAreFinite DEF Shape
  <2>8. scopes # <<>>
    BY <2>2, <2>5, <2>7
  <2>9. Balanced(n)
    BY <1>5, <2>1, <2>8, StepBalanced
  <2>10. /\ d \in Nat
         /\ \/ Len(scopes') = m /\ d = c
            \/ Len(scopes') = m + 1 /\ d = c + 1
            \/ Len(scopes') = m + 1 /\ d = c /\ hadError'
            \/ Len(scopes') = m - 1 /\ c = d + 1
    BY <2>2, <2>3, <2>4, <2>6, <2>9, CountsMove
  <2>11. hadError => hadError'
    BY <2>9, Zenon DEF Balanced
  <2>12. Len(scopes') >= 1 + d /\ (~hadError' => Len(scopes') = 1 + d)
    BY <2>5, <2>7, <2>10, <2>11
  <2>13. prog' = prog
    BY <1>5, MoveOfStack DEF HandlerStep
  <2>14. status' # "start"
    BY <1>5
       DEF HandlerStep, HandlerMove, PlainMove, IdentMove, VarMove, FuncMove, BlockMove, QuietMove,
           QuietReturn, QuietStep, Quiet, Steady, LazyUse, OpensVar, ClosesVar, Collides,
           OpensFunc, ClosesFunc, OpensBlock, ClosesBlock
  <2> QED BY <1>1, <2>4, <2>12, <2>13, <2>14
<1> QED BY <1>2, <1>3, <1>4, <1>5

(***************************************************************************)
(* The pointers into the scopes.                                           *)
(***************************************************************************)
LEMMA ScopesAreOpen ==
  ASSUME Shape, Counted, status # "start"
  PROVE  scopes # <<>> /\ Len(scopes) \in Nat \ {0}
<1>1. PICK m \in Nat : m = Len(scopes)
  BY LastScope DEF Shape
<1>2. Cardinality(HoldersIn(stack, 0)) \in Nat
  BY StackLength, HoldersAreFinite DEF Shape
<1>3. m >= 1
  BY <1>1, <1>2 DEF Counted
<1> QED BY <1>1, <1>3

\* A pointer of an activation below the running one stays good.
LEMMA AnchorsHold ==
  ASSUME Shape, NEW n, Balanced(n), NEW i \in Nat, i < n, NEW k, NEW x, Anchored(i, k, x),
         prog' = prog
  PROVE  Anchored(i, k, x)' /\ DOMAIN scopes'[k].sym = DOMAIN scopes[k].sym
<1>1. PICK m \in Nat : m = Len(scopes) /\ DOMAIN scopes = 1 .. m
  BY LastScope, Zenon DEF Shape
<1>2. PICK c : c = Cardinality(HoldersIn(stack, i))
  OBVIOUS
<1>3. PICK d : d = Cardinality(HoldersIn(stack', i))
  OBVIOUS
<1>4. /\ c \in Nat /\ d \in Nat
      /\ \/ Len(scopes') = m /\ d = c
         \/ Len(scopes') = m + 1 /\ d = c + 1
         \/ Len(scopes') = m + 1 /\ d = c /\ hadError'
         \/ Len(scopes') = m - 1 /\ c = d + 1
  BY <1>1, <1>2, <1>3, CountsMove
<1>5. k \in 1 .. m /\ x \in DOMAIN scopes[k].sym /\ k + c <= m
  BY <1>1, <1>2 DEF Anchored
<1>6. k + d <= Len(scopes')
  BY <1>4, <1>5
<1>7. k < m \/ ~Has(stack, n)
  <2>1. CASE Has(stack, n)
    <3>1. n \in HoldersIn(stack, i)
      BY <2>1 DEF HoldersIn, Has
    <3>2. IsFiniteSet(HoldersIn(stack, i))
      BY StackLength, HoldersAreFinite, Zenon DEF Shape
    <3>3. c # 0
      BY <1>2, <3>1, <3>2, FS_EmptySet
    <3> QED BY <1>4, <1>5, <3>3
  <2> QED BY <2>1
<1>8. k \in DOMAIN scopes' /\ DOMAIN scopes'[k].sym = DOMAIN scopes[k].sym
  BY <1>1, <1>5, <1>7, Zenon DEF Balanced
<1>9. HoldersIn(stack, i)' = HoldersIn(stack', i)
  BY HoldersLater
<1> QED BY <1>3, <1>5, <1>6, <1>8, <1>9 DEF Anchored

\* The running activation may point to any symbol it has found.
LEMMA FoundIsAnchored ==
  ASSUME Shape, NEW n, Balanced(n), prog' = prog, NEW k \in DOMAIN scopes', NEW x \in DOMAIN scopes'[k].sym
  PROVE  Anchored(n, k, x)'
<1>1. HoldersIn(stack', n) = {}
  <2>1. n \in Nat /\ DOMAIN stack' \subseteq 1 .. n
    BY Zenon DEF Balanced, Alike
  <2>2. \A j \in DOMAIN stack' : ~(j > n)
    BY <2>1
  <2> QED BY <2>2, Zenon DEF HoldersIn
<1>2. Cardinality(HoldersIn(stack, n)') = 0
  BY <1>1, HoldersLater, FS_EmptySet, Zenon
<1>3. k \in 1 .. Len(scopes')
  BY Zenon DEF Balanced
<1>4. k + 0 <= Len(scopes')
  BY <1>3
<1> QED BY <1>2, <1>4 DEF Anchored

\* What the running activation points to when a handler leaves it on the stack.
LEMMA TopPointer ==
  ASSUME Shape, Pointers, stack # <<>>, HandlerMove, NEW f, stack' = Append(Below, f), Activation(f),
         Pointing(f)
  PROVE  f.sym \in DOMAIN scopes /\ This.name \in DOMAIN scopes[f.sym].sym
<1>1. PICK n : n = Len(stack)
  OBVIOUS
<1>2. n \in DOMAIN stack /\ stack[n] = Top /\ ScopesOK /\ n \in Nat \ {0}
  BY <1>1, TopHolds DEF Shape
<1>3. f.node = Top.node /\ This.kind \in {"VAR_DECL", "IDENT"}
  BY DEF Activation, Pointing, This
<1>4. stack' # Below
  <2>1. stack'[n] = f /\ DOMAIN stack' = DOMAIN stack
    BY <1>1, Replaced DEF Shape
  <2>2. stack' = Below => DOMAIN stack' = DOMAIN stack \ {n}
    BY <1>1, Dropped DEF Shape
  <2> QED BY <1>2, <2>1, <2>2
<1>5. \A g : stack' = Append(Below, g) => g = f
  <2>1. ASSUME NEW g, stack' = Append(Below, g) PROVE stack'[n] = g
    BY <1>1, <2>1, Replaced DEF Shape
  <2> QED BY <2>1
<1>6. ASSUME NEW k, k = Lookup(This.name), k # 0
      PROVE  k \in DOMAIN scopes /\ This.name \in DOMAIN scopes[k].sym
  BY <1>2, <1>6, LookupFinds
<1>7. CASE IdentMove
  <2>1. PICK k : LazyUse(k)
    BY <1>4, <1>7 DEF IdentMove, QuietReturn, Returns
  <2>2. PICK g : g.sym = k /\ stack' = Append(Below, g)
    BY <2>1 DEF LazyUse, Calls
  <2>3. f.sym = k
    BY <1>5, <2>2
  <2> QED BY <1>6, <2>1, <2>3 DEF LazyUse
<1>8. CASE VarMove
  <2>1. CASE \E k : OpensVar(k)
    <3>1. PICK k : OpensVar(k)
      BY <2>1
    <3>2. PICK g : g.sym = k /\ stack' = Append(Below, g)
      BY <3>1 DEF OpensVar, Evaluates, Stays, Calls
    <3>3. f.sym = k
      BY <1>5, <3>2
    <3> QED BY <1>6, <3>1, <3>3 DEF OpensVar
  <2>2. CASE Top.pc # "enter" /\ f.sym = Top.sym
    <3>1. Pointing(Top)
      BY <1>8, <2>2 DEF Pointing, VarMove, This
    <3>2. Anchored(n, Top.sym, This.name)
      BY <1>2, <3>1 DEF Pointers, This
    <3> QED BY <2>2, <3>2 DEF Anchored
  <2>3. CASE Collides
    <3>1. stack' = stack
      BY <2>3 DEF Collides
    <3>2. stack'[n] = f
      BY <1>1, Replaced DEF Shape
    <3>3. f = Top
      BY <1>2, <3>1, <3>2
    <3> QED BY <2>2, <3>3 DEF Pointing
  <2>4. CASE \E g : Top.pc # "enter" /\ g.pc # "enter" /\ g.sym = Top.sym /\ QuietStep(g)
    <3>1. PICK g : Top.pc # "enter" /\ g.sym = Top.sym /\ stack' = Append(Below, g)
      BY <2>4 DEF QuietStep, Evaluates, Stays, Calls
    <3> QED BY <1>5, <2>2, <3>1
  <2> QED BY <1>4, <1>8, <2>1, <2>3, <2>4 DEF VarMove, ClosesVar, QuietReturn, Returns
<1> QED BY <1>3, <1>7, <1>8 DEF HandlerMove, PlainMove, FuncMove, BlockMove

LEMMA PointersKept ==
  ASSUME Shape, Counted, Pointers, Start \/ Enters \/ Idles \/ HandlerStep
  PROVE  Pointers'
<1>1. CASE Start
  <2>1. stack' = <<>>
    BY <1>1 DEF Start, Counted
  <2> QED BY <2>1 DEF Pointers
<1>2. CASE Enters
  <2>1. PICK n : n = Len(stack) + 1
    OBVIOUS
  <2>2. /\ \A i : HoldersIn(stack', i) = HoldersIn(stack, i)
        /\ DOMAIN stack' = DOMAIN stack \cup {n} /\ stack'[n].pc = "enter"
        /\ \A i \in DOMAIN stack : stack'[i] = stack[i]
    BY <1>2, <2>1, EnteringHoldsNothing
  <2>3. UNCHANGED <<prog, scopes>>
    BY <1>2 DEF Enters
  <2>4. \A i : HoldersIn(stack, i)' = HoldersIn(stack, i)
    BY <2>2, <2>3, HoldersLater
  <2> QED BY <2>2, <2>3, <2>4 DEF Pointers, Pointing, Anchored, Node
<1>3. CASE Idles
  <2>1. UNCHANGED <<prog, scopes, stack>>
    BY <1>3 DEF Idles
  <2> QED BY <2>1 DEF Pointers, Pointing, Anchored, HoldersIn, HoldsScope, OpenFunc, Node
<1>4. CASE HandlerStep
  <2>1. PICK n : n = Len(stack)
    OBVIOUS
  <2>2. /\ n \in Nat \ {0} /\ stack # <<>> /\ HandlerMove /\ status # "start"
        /\ DOMAIN stack = 1 .. n /\ stack[n] = Top
    BY <1>4, <2>1, TopHolds DEF HandlerStep
  <2>3. Balanced(n) /\ prog' = prog
    BY <1>4, <2>1, <2>2, ScopesAreOpen, StepBalanced, MoveOfStack DEF HandlerStep
  <2>4. ASSUME NEW i \in DOMAIN stack', Pointing(stack'[i]),
               NEW k, k = stack'[i].sym, NEW x, x = Node(stack'[i].node).name
        PROVE  Anchored(i, k, x)'
    <3>1. CASE i # n
      <4>1. Alike(stack, stack', n)
        BY <2>3, Zenon DEF Balanced
      <4>2. i \in 1 .. n - 1
        BY <2>2, <3>1, <4>1 DEF Alike
      <4>3. i \in Nat /\ i < n /\ i \in DOMAIN stack /\ stack'[i] = stack[i]
        BY <2>2, <4>1, <4>2 DEF Alike
      <4>4. Anchored(i, k, x)
        BY <2>4, <4>3 DEF Pointers
      <4> QED BY <2>3, <4>3, <4>4, AnchorsHold, Zenon
    <3>2. CASE i = n
      <4>1. PICK f : f = stack'[n]
        OBVIOUS
      <4>2. Activation(f) /\ stack' = Append(Below, f)
        <5>1. CASE stack' = Below
          BY <2>1, <2>2, <3>2, <5>1, Dropped DEF Shape
        <5>2. CASE stack' = stack
          <6>1. stack' = Append(Below, Top)
            BY <2>1, <2>2, <5>2 DEF Below, Shape, StackOK
          <6> QED BY <1>4, <2>2, <4>1, <5>2, <6>1 DEF HandlerStep, Ready, Activation
        <5>3. ASSUME NEW g, Activation(g), stack' = Append(Below, g)
              PROVE  Activation(f) /\ stack' = Append(Below, f)
          BY <2>1, <2>2, <4>1, <5>3, Replaced DEF Shape
        <5> QED BY <1>4, <5>1, <5>2, <5>3, MoveOfStack DEF HandlerStep
      <4>3. f.sym \in DOMAIN scopes /\ This.name \in DOMAIN scopes[f.sym].sym
        BY <2>2, <2>4, <3>2, <4>1, <4>2, TopPointer
      <4>4. ~Has(stack, n)
        <5>1. This.kind \in {"VAR_DECL", "IDENT"}
          BY <2>4, <3>2, <4>1, <4>2, Zenon DEF Pointing, Activation, This
        <5> QED BY <2>2, <5>1 DEF Has, HoldsScope, OpenFunc, This
      <4>5. f.sym \in DOMAIN scopes' /\ This.name \in DOMAIN scopes'[f.sym].sym
        BY <2>3, <4>3, <4>4, Zenon DEF Balanced
      <4>6. k = f.sym /\ x = This.name
        BY <2>4, <3>2, <4>1, <4>2 DEF Activation, This
      <4> QED BY <2>3, <3>2, <4>5, <4>6, FoundIsAnchored
    <3> QED BY <3>1, <3>2
  <2>5. \A i \in DOMAIN stack' : Pointing(stack'[i]) =>
          \A k, x : k = stack'[i].sym /\ x = Node(stack'[i].node).name => Anchored(i, k, x)'
    BY <2>4
  <2> QED BY <2>3, <2>5 DEF Pointers, Pointing, Anchored, Node
<1> QED BY <1>1, <1>2, <1>3, <1>4

\* No step moves the symbols an activation points to.
LEMMA SymbolsStay ==
  ASSUME Shape, Counted, Pointers, Start \/ Enters \/ Idles \/ HandlerStep,
         NEW k \in DOMAIN scopes, NEW i \in DOMAIN stack, PointsInto(i, k)
  PROVE  k \in DOMAIN scopes' /\ DOMAIN scopes'[k].sym = DOMAIN scopes[k].sym
<1>1. CASE Start
  BY <1>1 DEF Start, Counted
<1>2. CASE Enters \/ Idles
  BY <1>2 DEF Enters, Idles
<1>3. CASE HandlerStep
  <2>1. PICK n : n = Len(stack)
    OBVIOUS
  <2>2. /\ n \in Nat \ {0} /\ stack # <<>> /\ HandlerMove /\ status # "start"
        /\ DOMAIN stack = 1 .. n /\ stack[n] = Top
    BY <1>3, <2>1, TopHolds DEF HandlerStep
  <2>3. Balanced(n) /\ prog' = prog
    BY <1>3, <2>1, <2>2, ScopesAreOpen, StepBalanced, MoveOfStack DEF HandlerStep
  <2>4. PICK x : x = Node(stack[i].node).name
    OBVIOUS
  <2>5. Anchored(i, k, x)
    BY <2>4 DEF PointsInto, Pointers, Pointing
  <2>6. CASE i # n
    <3>1. i \in Nat /\ i < n
      BY <2>2, <2>6
    <3>2. DOMAIN scopes'[k].sym = DOMAIN scopes[k].sym /\ Anchored(i, k, x)'
      BY <2>3, <2>5, <3>1, AnchorsHold, Zenon
    <3> QED BY <3>2 DEF Anchored
  <2>7. CASE i = n
    <3>1. ~Has(stack, n)
      BY <2>7 DEF PointsInto, Has, HoldsScope, OpenFunc
    <3> QED BY <2>3, <3>1, Zenon DEF Balanced
  <2> QED BY <2>6, <2>7
<1> QED BY <1>1, <1>2, <1>3

(***************************************************************************)
(* The return type in force.                                               *)
(***************************************************************************)
Opened(s, n) == n \in DOMAIN s /\ OpenFunc(s[n])

Bracketed(n) ==
  /\ n = Len(stack) /\ Alike(stack, stack', n)
  /\ Len(stack') \in {n, n - 1} /\ DOMAIN stack' = 1 .. Len(stack')
  /\ \/ /\ retType' = retType /\ (Opened(stack, n) <=> Opened(stack', n))
        /\ Opened(stack, n) => stack'[n].ty = stack[n].ty /\ stack'[n].save = stack[n].save
     \/ /\ ~Opened(stack, n) /\ Opened(stack', n)
        /\ stack'[n].ty = retType' /\ stack'[n].save = retType
     \/ /\ Opened(stack, n) /\ Len(stack') = n - 1 /\ retType' = stack[n].save

LEMMA StepBracketed ==
  ASSUME Shape, HandlerStep
  PROVE  Bracketed(Len(stack))
<1>1. PICK n : n = Len(stack)
  OBVIOUS
<1>2. /\ n \in Nat \ {0} /\ stack # <<>> /\ Activation(Top) /\ stack[n] = Top
      /\ DOMAIN stack = 1 .. n
      /\ Opened(stack, n) <=> This.kind = "FUNC_DECL" /\ Top.pc \in InBody
  BY <1>1, TopHolds DEF HandlerStep, Activation, Opened, OpenFunc, This
<1> SUFFICES Bracketed(n)
  BY <1>1
<1>3. ASSUME stack' = Below, retType' = (IF Opened(stack, n) THEN Top.save ELSE retType)
      PROVE  Bracketed(n)
  <2>1. Alike(stack, stack', n) /\ DOMAIN stack' = 1 .. n - 1 /\ Len(stack') = n - 1
    <3>1. Alike(stack, stack', n) /\ Len(stack') = n - 1 /\ DOMAIN stack' = DOMAIN stack \ {n}
      BY <1>1, <1>2, <1>3, TopDropped, Dropped DEF Shape
    <3> QED BY <1>2, <3>1
  <2>2. ~Opened(stack', n)
    BY <1>2, <2>1 DEF Opened
  <2> QED BY <1>1, <1>2, <1>3, <2>1, <2>2 DEF Bracketed
<1>4. ASSUME NEW f, stack' = Append(Below, f)
      PROVE  /\ Alike(stack, stack', n) /\ Len(stack') = n /\ DOMAIN stack' = 1 .. Len(stack')
             /\ stack'[n] = f /\ (Opened(stack', n) <=> OpenFunc(f))
  <2>1. /\ Alike(stack, stack', n) /\ DOMAIN stack' = 1 .. n /\ stack'[n] = f
        /\ Len(stack') = n
    BY <1>1, <1>2, <1>4, TopReplaced, Replaced DEF Shape
  <2> QED BY <1>2, <2>1 DEF Opened
<1>5. ASSUME NEW f, Activation(f), stack' = Append(Below, f), retType' = retType,
             This.kind # "FUNC_DECL" \/ (Top.pc \notin InBody /\ f.pc \notin InBody)
      PROVE  Bracketed(n)
  <2>1. ~OpenFunc(f) /\ ~Opened(stack, n)
    BY <1>2, <1>5, KindStays DEF OpenFunc
  <2> QED BY <1>1, <1>4, <1>5, <2>1 DEF Bracketed
<1>6. CASE stack' = stack /\ retType' = retType
  <2>1. Alike(stack, stack', n)
    BY <1>1, <1>2, <1>6, TopStays
  <2> QED BY <1>1, <1>2, <1>6, <2>1 DEF Bracketed
<1>7. CASE PlainMove \/ IdentMove \/ BlockMove \/ VarMove
  <2>1. ~Opened(stack, n)
    BY <1>2, <1>7 DEF PlainMove, IdentMove, BlockMove, VarMove
  <2>2. This.kind # "FUNC_DECL"
    BY <1>7 DEF PlainMove, IdentMove, BlockMove, VarMove
  <2>3. retType' = retType
    BY <1>7 DEF PlainMove, IdentMove, BlockMove, VarMove, QuietMove, QuietReturn, QuietStep,
       Quiet, Steady, LazyUse, OpensVar, ClosesVar, Collides, OpensBlock, ClosesBlock
  <2> QED BY <1>1, <1>3, <1>5, <1>6, <2>1, <2>2, <2>3, MoveOfStack DEF HandlerStep
<1>8. CASE FuncMove
  <2>1. Opened(stack, n) <=> Top.pc \in InBody
    BY <1>2, <1>8 DEF FuncMove
  <2>2. ASSUME NEW f, Activation(f) PROVE OpenFunc(f) <=> f.pc \in InBody
    BY <1>8, <2>2, KindStays DEF FuncMove, OpenFunc
  <2>3. CASE Top.pc \notin InBody /\ QuietReturn
    BY <1>3, <2>1, <2>3 DEF QuietReturn, Quiet, Steady, Returns
  <2>4. ASSUME Top.pc \notin InBody, NEW f, f.pc = "ret", QuietStep(f) PROVE Bracketed(n)
    BY <1>5, <2>4 DEF QuietStep, Quiet, Steady, Evaluates, Stays, Calls, InBody
  <2>5. CASE Top.pc \notin InBody /\ OpensFunc
    <3>1. PICK f : /\ Activation(f) /\ f.pc = "next" /\ stack' = Append(Below, f)
                   /\ f.ty = retType' /\ f.save = retType
      BY <2>5 DEF OpensFunc, Stays
    <3>2. OpenFunc(f) /\ ~Opened(stack, n)
      BY <2>1, <2>2, <2>5, <3>1 DEF InBody
    <3> QED BY <1>1, <1>4, <3>1, <3>2 DEF Bracketed
  <2>6. CASE Top.pc \in InBody /\ ClosesFunc
    BY <1>3, <2>1, <2>6 DEF ClosesFunc, Returns
  <2>7. ASSUME Top.pc \in InBody, NEW f, Activation(f), Evaluates(f), Steady, f.pc \in InBody,
               f.ty = Top.ty, f.save = Top.save
        PROVE  Bracketed(n)
    <3>1. stack' = Append(Below, f) /\ retType' = retType /\ OpenFunc(f) /\ Opened(stack, n)
      BY <2>1, <2>2, <2>7 DEF Evaluates, Stays, Calls, Steady
    <3> QED BY <1>1, <1>2, <1>4, <2>7, <3>1 DEF Bracketed
  <2> QED BY <1>8, <2>3, <2>4, <2>5, <2>6, <2>7 DEF FuncMove
<1> QED BY <1>7, <1>8 DEF HandlerStep, HandlerMove

\* What the last open function below i is depends on the open ones there only.
LEMMA SameLast ==
  ASSUME NEW s, NEW t, NEW i, NEW j, NEW r, LastOpen(s, i, r),
         {m \in DOMAIN s : m < i /\ OpenFunc(s[m])} = {m \in DOMAIN t : m < j /\ OpenFunc(t[m])},
         \A m \in DOMAIN s : m < i /\ OpenFunc(s[m]) => s[m].ty = t[m].ty
  PROVE  LastOpen(t, j, r)
BY DEF LastOpen

LEMMA SavedLater ==
  ASSUME prog' = prog
  PROVE  SavedTypes' <=>
           /\ \A i \in DOMAIN stack' : OpenFunc(stack'[i]) => LastOpen(stack', i, stack'[i].save)
           /\ LastOpen(stack', Len(stack') + 1, retType')
BY DEF SavedTypes, LastOpen, OpenFunc, Node

LEMMA SavedKept ==
  ASSUME Shape, SavedTypes, Start \/ Enters \/ Idles \/ HandlerStep
  PROVE  SavedTypes'
<1>1. CASE Start \/ Idles
  <2>1. UNCHANGED <<prog, stack, retType>>
    BY <1>1 DEF Start, Idles
  <2> QED BY <2>1, SavedLater DEF SavedTypes
<1>2. CASE Enters
  <2>1. PICK n \in Nat : n = Len(stack) /\ DOMAIN stack = 1 .. n
    BY StackLength, Zenon DEF Shape
  <2>2. /\ DOMAIN stack' = DOMAIN stack \cup {n + 1} /\ n + 1 \notin DOMAIN stack
        /\ Len(stack') = n + 1 /\ ~OpenFunc(stack'[n + 1])
        /\ \A i \in DOMAIN stack : stack'[i] = stack[i]
    BY <1>2, <2>1, EnteringHoldsNothing
  <2>3. ASSUME NEW i, NEW j, NEW r, LastOpen(stack, i, r),
               \A m \in DOMAIN stack : m < i <=> m < j
        PROVE  LastOpen(stack', j, r)
    <3>1. {m \in DOMAIN stack : m < i /\ OpenFunc(stack[m])}
            = {m \in DOMAIN stack' : m < j /\ OpenFunc(stack'[m])}
      BY <2>2, <2>3
    <3> QED BY <2>2, <2>3, <3>1, SameLast
  <2>4. LastOpen(stack', n + 2, retType)
    <3>1. \A m \in DOMAIN stack : m < n + 1 <=> m < n + 2
      BY <2>1
    <3> QED BY <2>1, <2>3, <3>1 DEF SavedTypes
  <2>5. ASSUME NEW i \in DOMAIN stack', OpenFunc(stack'[i])
        PROVE  LastOpen(stack', i, stack'[i].save)
    BY <2>2, <2>3, <2>5 DEF SavedTypes
  <2>6. prog' = prog /\ retType' = retType /\ Len(stack') + 1 = n + 2
    BY <1>2, <2>1, <2>2 DEF Enters
  <2> QED BY <2>4, <2>5, <2>6, SavedLater, Zenon
<1>3. CASE HandlerStep
  <2>1. PICK n : n = Len(stack) /\ Bracketed(n)
    BY <1>3, StepBracketed
  <2>2. n \in Nat \ {0} /\ DOMAIN stack = 1 .. n /\ prog' = prog
    BY <1>3, <2>1, TopHolds, MoveOfStack DEF HandlerStep
  <2>3. Alike(stack, stack', n) /\ Len(stack') \in {n, n - 1} /\ DOMAIN stack' = 1 .. Len(stack')
    BY <2>1 DEF Bracketed
  <2>4. \A i \in DOMAIN stack \cup DOMAIN stack' :
           i = n \/ (i \in DOMAIN stack /\ i \in DOMAIN stack' /\ i < n /\ stack'[i] = stack[i])
    <3>1. /\ DOMAIN stack \subseteq 1 .. n /\ 1 .. n - 1 \subseteq DOMAIN stack
          /\ DOMAIN stack' \subseteq 1 .. n /\ 1 .. n - 1 \subseteq DOMAIN stack'
          /\ \A i \in 1 .. n - 1 : stack[i] = stack'[i]
      BY <2>3 DEF Alike
    <3>2. \A i \in 1 .. n : i = n \/ (i \in 1 .. n - 1 /\ i < n)
      BY <2>2
    <3> QED BY <3>1, <3>2, Zenon
  <2>5. LastOpen(stack, n + 1, retType)
    BY <2>1 DEF SavedTypes
  <2>6. ASSUME NEW i, NEW j, NEW r, LastOpen(stack, i, r),
               \A m \in DOMAIN stack \cup DOMAIN stack' : m # n => (m < i <=> m < j),
               n < i /\ Opened(stack, n) => n < j /\ Opened(stack', n) /\ stack'[n].ty = stack[n].ty,
               n < j /\ Opened(stack', n) => n < i /\ Opened(stack, n)
        PROVE  LastOpen(stack', j, r)
    <3>1. \A m \in DOMAIN stack : m < i /\ OpenFunc(stack[m]) =>
             m \in DOMAIN stack' /\ m < j /\ OpenFunc(stack'[m]) /\ stack[m].ty = stack'[m].ty
      BY <2>4, <2>6 DEF Opened
    <3>2. \A m \in DOMAIN stack' : m < j /\ OpenFunc(stack'[m]) =>
             m \in DOMAIN stack /\ m < i /\ OpenFunc(stack[m])
      BY <2>4, <2>6 DEF Opened
    <3> QED BY <2>6, <3>1, <3>2, SameLast
  <2>7. ASSUME NEW i \in DOMAIN stack', OpenFunc(stack'[i]), i # n
        PROVE  LastOpen(stack', i, stack'[i].save)
    <3>1. i \in DOMAIN stack /\ i < n /\ stack'[i] = stack[i]
      BY <2>4, <2>7
    <3>2. LastOpen(stack, i, stack[i].save)
      BY <2>7, <3>1 DEF SavedTypes
    <3>3. ~(n < i)
      BY <2>2, <3>1
    <3> QED BY <2>6, <3>1, <3>2, <3>3
  <2>8. CASE /\ retType' = retType /\ (Opened(stack, n) <=> Opened(stack', n))
             /\ Opened(stack, n) => stack'[n].ty = stack[n].ty /\ stack'[n].save = stack[n].save
    <3>1. ASSUME Opened(stack', n) PROVE LastOpen(stack', n, stack'[n].save)
      <4>1. LastOpen(stack, n, stack[n].save) /\ stack'[n].save = stack[n].save
        BY <2>8, <3>1 DEF Opened, SavedTypes
      <4>2. ~(n < n)
        BY <2>2
      <4> QED BY <2>6, <4>1, <4>2
    <3>2. LastOpen(stack', Len(stack') + 1, retType)
      <4>0. PICK p \in Nat : p = Len(stack') /\ DOMAIN stack' = 1 .. p
        <5>1. n \in Nat /\ n - 1 \in Nat
          BY <2>2
        <5>2. Len(stack') = n \/ Len(stack') = n - 1
          BY <2>3
        <5>3. Len(stack') \in Nat
          BY <5>1, <5>2
        <5> QED BY <2>3, <5>3, Zenon
      <4>1. \A m \in DOMAIN stack \cup DOMAIN stack' :
              m # n => (m < n + 1 <=> m < Len(stack') + 1)
        BY <2>2, <2>4, <4>0
      <4>2. Opened(stack', n) => n < Len(stack') + 1
        BY <2>2, <4>0 DEF Opened
      <4>3. n < n + 1
        BY <2>2
      <4> QED BY <2>5, <2>6, <2>8, <4>1, <4>2, <4>3, Zenon
    <3> QED BY <2>2, <2>7, <2>8, <3>1, <3>2, SavedLater DEF Opened
  <2>9. CASE /\ ~Opened(stack, n) /\ Opened(stack', n)
             /\ stack'[n].ty = retType' /\ stack'[n].save = retType
    <3>1. LastOpen(stack', n, stack'[n].save)
      <4>1. \A m \in DOMAIN stack \cup DOMAIN stack' : m # n => (m < n + 1 <=> m < n)
        BY <2>2, <2>4
      <4>2. ~(n < n)
        BY <2>2
      <4> QED BY <2>5, <2>6, <2>9, <4>1, <4>2
    <3>2. LastOpen(stack', Len(stack') + 1, retType')
      <4>1. n \in DOMAIN stack' /\ Len(stack') = n /\ OpenFunc(stack'[n])
        BY <2>2, <2>3, <2>9 DEF Opened
      <4>2. \A m \in DOMAIN stack' : m < n + 1 /\ m <= n
        BY <2>2, <2>3, <4>1
      <4>3. n \in {m \in DOMAIN stack' : m < n + 1 /\ OpenFunc(stack'[m])}
        BY <4>1, <4>2
      <4> QED BY <2>9, <4>1, <4>2, <4>3 DEF LastOpen
    <3> QED BY <2>2, <2>7, <3>1, <3>2, SavedLater
  <2>10. CASE Opened(stack, n) /\ Len(stack') = n - 1 /\ retType' = stack[n].save
    <3>1. LastOpen(stack, n, stack[n].save) /\ n \notin DOMAIN stack'
      BY <2>2, <2>3, <2>10 DEF Opened, SavedTypes
    <3>2. LastOpen(stack', n, retType')
      <4>1. ~(n < n)
        BY <2>2
      <4> QED BY <2>6, <2>10, <3>1, <4>1
    <3>3. Len(stack') + 1 = n
      BY <2>2, <2>10
    <3> QED BY <2>2, <2>7, <3>1, <3>2, <3>3, SavedLater
  <2> QED BY <2>1, <2>8, <2>9, <2>10 DEF Bracketed
<1> QED BY <1>1, <1>2, <1>3


(***************************************************************************)
(* What a handler does to the symbols.                                     *)
(***************************************************************************)
\* f is the activation of a declaration that is initialising the symbol x of
\* scope k.
HeldBy(f, k, x) ==
  /\ Node(f.node).kind = "VAR_DECL" /\ Node(f.node).name = x
  /\ f.pc # "enter" /\ f.sym = k

\* The scopes new are made of those in force: a symbol other than x of scope k
\* is as it was, and a new symbol is not open.
Untouched(new, k, x) ==
  /\ \E S : new \in Seq(S)
  /\ \A j \in DOMAIN scopes : j \in DOMAIN new =>
       \A y \in DOMAIN scopes[j].sym :
         /\ y \in DOMAIN new[j].sym
         /\ (j = k /\ y = x) \/ new[j].sym[y] = scopes[j].sym[y]
  /\ \A j \in DOMAIN new : \A y \in DOMAIN new[j].sym :
       (j \in DOMAIN scopes /\ y \in DOMAIN scopes[j].sym) \/ new[j].sym[y].level \in {Ahh, Declared}

LEMMA KeptUntouched ==
  ASSUME ScopesOK, NEW k, NEW x
  PROVE  Untouched(scopes, k, x)
BY DEF ScopesOK, Untouched

LEMMA RewriteUntouched ==
  ASSUME ScopesOK, NEW k \in DOMAIN scopes, NEW x \in DOMAIN scopes[k].sym, NEW level, NEW new,
         Rewrites(k, x, level, new)
  PROVE  /\ Untouched(new, k, x) /\ WellMade(scopes) /\ Len(new) = Len(scopes)
         /\ k \in DOMAIN new /\ x \in DOMAIN new[k].sym
         /\ new[k].sym[x].level = level
         /\ OwnNode(new[k].sym[x], k, x)
<1>1. /\ \E S : new \in Seq(S)
      /\ Len(new) = Len(scopes) /\ DOMAIN new = DOMAIN scopes
      /\ \A j \in DOMAIN scopes :
           /\ DOMAIN new[j].sym = DOMAIN scopes[j].sym
           /\ \A y \in DOMAIN scopes[j].sym :
                IF j = k /\ y = x
                THEN /\ new[j].sym[y].level = level
                     /\ OwnNode(new[j].sym[y], j, y)
                ELSE new[j].sym[y] = scopes[j].sym[y]
  BY RewriteIs
<1>2. Untouched(new, k, x)
  BY <1>1 DEF Untouched
<1> QED BY <1>1, <1>2, ScopesAreWellMade DEF SymbolAt

LEMMA PushUntouched ==
  ASSUME ScopesOK, NEW k, NEW x, NEW old, Untouched(old, k, x), WellMade(old),
         Len(old) = Len(scopes), NEW sc, Pushes(old, sc)
  PROVE  /\ Untouched(scopes', k, x)
         /\ \A j \in DOMAIN old : j \in DOMAIN scopes' /\ scopes'[j] = old[j]
<1>1. /\ WellMade(scopes') /\ Len(scopes') = Len(old) + 1
      /\ \A j \in DOMAIN old : j \in DOMAIN scopes' /\ scopes'[j] = old[j]
      /\ scopes'[Len(old) + 1] = sc
      /\ \A j \in DOMAIN scopes' : j \in DOMAIN old \/ j = Len(old) + 1
  BY PushIsWellMade, ScopesAreWellMade
<1>2. DOMAIN old = DOMAIN scopes
  BY LastScope DEF WellMade
<1>3. \A y \in DOMAIN sc.sym : sc.sym[y].level = Ahh
  BY DEF Pushes
<1>4. ASSUME NEW j \in DOMAIN scopes, NEW y \in DOMAIN scopes[j].sym
      PROVE  /\ y \in DOMAIN scopes'[j].sym
             /\ (j = k /\ y = x) \/ scopes'[j].sym[y] = scopes[j].sym[y]
  BY <1>1, <1>2 DEF Untouched
<1>5. ASSUME NEW j \in DOMAIN scopes', NEW y \in DOMAIN scopes'[j].sym
      PROVE  \/ j \in DOMAIN scopes /\ y \in DOMAIN scopes[j].sym
             \/ scopes'[j].sym[y].level \in {Ahh, Declared}
  <2>1. CASE j \in DOMAIN old
    BY <1>1, <2>1 DEF Untouched
  <2>2. CASE j = Len(old) + 1
    BY <1>1, <1>3, <2>2
  <2> QED BY <1>1, <2>1, <2>2
<1>6. \E S : scopes' \in Seq(S)
  BY <1>1 DEF WellMade
<1> QED BY <1>1, <1>4, <1>5, <1>6 DEF Untouched

LEMMA PopUntouched ==
  ASSUME ScopesOK, scopes # <<>>, scopes' = PopScope, NEW k, NEW x
  PROVE  Untouched(scopes', k, x)
<1>1. /\ WellMade(scopes') /\ DOMAIN scopes' = 1 .. Len(scopes) - 1
      /\ \A j \in 1 .. Len(scopes) - 1 : scopes'[j] = scopes[j]
  BY PopIsWellMade, Zenon
<1>2. PICK n \in Nat : n = Len(scopes) /\ DOMAIN scopes = 1 .. n
  BY LastScope, Zenon
<1>3. \A j \in DOMAIN scopes' : j \in DOMAIN scopes /\ scopes'[j] = scopes[j]
  BY <1>1, <1>2
<1>4. \E S : scopes' \in Seq(S)
  BY <1>1 DEF WellMade
<1> QED BY <1>3, <1>4 DEF Untouched

LEMMA ParamsUntouched ==
  ASSUME ScopesOK, scopes # <<>>, AddsParams, NEW k, NEW x
  PROVE  Untouched(scopes', k, x)
<1>1. PICK n \in Nat : n = Len(scopes) /\ DOMAIN scopes = 1 .. n /\ n \in DOMAIN scopes
  BY LastScope, Zenon
<1>2. /\ WellMade(scopes') /\ DOMAIN scopes' = DOMAIN scopes
      /\ \A j \in DOMAIN scopes : j # n => scopes'[j] = scopes[j]
      /\ \A y \in DOMAIN Innermost :
           y \in DOMAIN scopes'[n].sym /\ scopes'[n].sym[y] = Innermost[y]
  BY <1>1, ParamsAreWellMade
<1>3. PICK sym : /\ scopes' = [scopes EXCEPT ![n].sym = sym]
                 /\ \A y \in DOMAIN sym : y \in DOMAIN Innermost \/ sym[y].level = Declared
  BY <1>1 DEF AddsParams
<1>4. scopes'[n].sym = sym
  <2>1. PICK sc : sc = scopes[n] /\ DOMAIN sc = {"root", "sym"}
    BY <1>1 DEF ScopesOK
  <2>2. scopes'[n] = [sc EXCEPT !.sym = sym]
    BY <1>1, <1>3, <2>1
  <2> QED BY <2>1, <2>2
<1>5. ASSUME NEW j \in DOMAIN scopes, NEW y \in DOMAIN scopes[j].sym
      PROVE  y \in DOMAIN scopes'[j].sym /\ scopes'[j].sym[y] = scopes[j].sym[y]
  BY <1>1, <1>2 DEF Innermost
<1>6. ASSUME NEW j \in DOMAIN scopes', NEW y \in DOMAIN scopes'[j].sym
      PROVE  \/ j \in DOMAIN scopes /\ y \in DOMAIN scopes[j].sym
             \/ scopes'[j].sym[y].level = Declared
  BY <1>1, <1>2, <1>3, <1>4 DEF Innermost
<1>7. \E S : scopes' \in Seq(S)
  BY <1>2 DEF WellMade
<1> QED BY <1>5, <1>6, <1>7, Zenon DEF Untouched

\* The symbol x of scope k is given the level, all others are as they were.
Changes(k, x, level) ==
  /\ k \in DOMAIN scopes /\ x \in DOMAIN scopes[k].sym
  /\ Untouched(scopes', k, x)
  /\ k \in DOMAIN scopes' /\ x \in DOMAIN scopes'[k].sym
  /\ scopes'[k].sym[x].level = level /\ OwnNode(scopes'[k].sym[x], k, x)

\* A handler opens a symbol, closes the one it has open, declares a function
\* or leaves the symbols alone.
Opens(n) ==
  /\ Top.pc = "enter" /\ This.kind = "VAR_DECL"
  /\ \E k : /\ k = Lookup(This.name) /\ SymbolAt(k, This.name).level # Defined
            /\ Changes(k, This.name, Defined)
            /\ n \in DOMAIN stack' /\ HeldBy(stack'[n], k, This.name)

Closes(n) ==
  /\ HeldBy(Top, Top.sym, This.name)
  /\ Changes(Top.sym, This.name, Declared)
  /\ n \notin DOMAIN stack'

Declares(n) ==
  /\ This.kind = "FUNC_DECL" /\ Top.pc \notin InBody
  /\ Changes(Len(scopes), This.name, Declared)
  /\ n \in DOMAIN stack' /\ OpenFunc(stack'[n])

Leaves(n) ==
  /\ \A k, x : Untouched(scopes', k, x)
  /\ \A k, x : n \in DOMAIN stack' /\ HeldBy(stack'[n], k, x) <=> HeldBy(Top, k, x)

LEMMA SymbolMoves ==
  ASSUME Shape, scopes # <<>>, Pointers, HandlerStep, NEW n, n = Len(stack)
  PROVE  \/ Collides
         \/ ctl'.op = "return" /\ IsCrash(ctl'.val) /\ scopes' = scopes
         \/ Opens(n) \/ Closes(n) \/ Declares(n) \/ Leaves(n)
<1>1. /\ n \in Nat \ {0} /\ stack # <<>> /\ Activation(Top) /\ ScopesOK
      /\ n \in DOMAIN stack /\ stack[n] = Top /\ HandlerMove
  BY TopHolds DEF HandlerStep, Activation, Shape
<1>2. ASSUME stack' = Below PROVE n \notin DOMAIN stack'
  BY <1>1, <1>2, Dropped DEF Shape
<1>3. ASSUME NEW f, stack' = Append(Below, f) PROVE n \in DOMAIN stack' /\ stack'[n] = f
  BY <1>1, <1>3, Replaced DEF Shape
<1>4. ASSUME NEW f, Activation(f), NEW k, NEW x
      PROVE  HeldBy(f, k, x) <=> This.kind = "VAR_DECL" /\ This.name = x /\ f.pc # "enter" /\ f.sym = k
  BY <1>4, KindStays DEF HeldBy
<1>5. ASSUME This.kind # "VAR_DECL", \A k, x : Untouched(scopes', k, x),
             stack' = Below \/ \E f : Activation(f) /\ stack' = Append(Below, f)
      PROVE  Leaves(n)
  BY <1>1, <1>2, <1>3, <1>4, <1>5 DEF Leaves
<1>6. scopes' = scopes => \A k, x : Untouched(scopes', k, x)
  BY <1>1, KeptUntouched
<1>7. CASE PlainMove \/ IdentMove
  <2>1. This.kind # "VAR_DECL" /\ scopes' = scopes
    BY <1>7 DEF PlainMove, IdentMove, QuietMove, QuietReturn, QuietStep, LazyUse, Quiet
  <2>2. stack' = Below \/ \E f : Activation(f) /\ stack' = Append(Below, f)
    BY <1>7 DEF PlainMove, IdentMove, QuietMove, QuietReturn, QuietStep, LazyUse, Returns,
       Evaluates, Stays, Calls
  <2> QED BY <1>5, <1>6, <2>1, <2>2
<1>8. CASE VarMove
  <2>1. This.kind = "VAR_DECL"
    BY <1>8 DEF VarMove
  <2>2. ASSUME NEW k, OpensVar(k) PROVE Opens(n)
    <3>1. k \in DOMAIN scopes /\ This.name \in DOMAIN scopes[k].sym
      BY <1>1, <2>2, LookupFinds DEF OpensVar
    <3>2. Changes(k, This.name, Defined)
      BY <1>1, <2>2, <3>1, RewriteUntouched DEF OpensVar, Changes
    <3>3. PICK f : Activation(f) /\ f.pc # "enter" /\ f.sym = k /\ stack' = Append(Below, f)
      BY <2>2 DEF OpensVar, Evaluates, Stays, Calls
    <3>4. n \in DOMAIN stack' /\ HeldBy(stack'[n], k, This.name)
      BY <1>3, <1>4, <2>1, <3>3
    <3> QED BY <2>1, <2>2, <3>2, <3>4 DEF Opens, OpensVar
  <2>3. CASE ClosesVar
    <3>1. HeldBy(Top, Top.sym, This.name)
      BY <1>1, <1>4, <2>1, <2>3 DEF ClosesVar
    <3>2. Top.sym \in DOMAIN scopes /\ This.name \in DOMAIN scopes[Top.sym].sym
      BY <1>1, <3>1 DEF Pointers, Pointing, HeldBy, Anchored, This
    <3>3. Changes(Top.sym, This.name, Declared)
      BY <1>1, <2>3, <3>2, RewriteUntouched DEF ClosesVar, Changes
    <3> QED BY <1>2, <2>3, <3>1, <3>3 DEF Closes, ClosesVar, Returns
  <2>4. ASSUME NEW f, Top.pc # "enter", f.pc # "enter", f.sym = Top.sym, QuietStep(f)
        PROVE  Leaves(n)
    <3>1. stack' = Append(Below, f) /\ Activation(f) /\ scopes' = scopes
      BY <2>4 DEF QuietStep, Quiet, Evaluates, Stays, Calls
    <3> QED BY <1>1, <1>3, <1>4, <1>6, <2>4, <3>1 DEF Leaves
  <2> QED BY <1>8, <2>2, <2>3, <2>4 DEF VarMove, QuietReturn, Quiet, Returns
<1>9. CASE FuncMove
  <2>1. This.kind = "FUNC_DECL"
    BY <1>9 DEF FuncMove
  <2>2. CASE OpensFunc /\ Top.pc \notin InBody
    <3>1. PICK here, sc :
             /\ here = scopes \/ /\ This.name \in DOMAIN Innermost
                                 /\ Rewrites(Len(scopes), This.name, Declared, here)
             /\ Pushes(here, sc)
      BY <2>2 DEF OpensFunc
    <3>2. PICK f : Activation(f) /\ f.pc = "next" /\ stack' = Append(Below, f)
      BY <2>2 DEF OpensFunc, Stays
    <3>3. CASE here = scopes
      <4>1. \A k, x : Untouched(scopes', k, x)
        BY <1>1, <3>1, <3>3, KeptUntouched, PushUntouched, ScopesAreWellMade
      <4> QED BY <1>5, <2>1, <3>2, <4>1
    <3>4. CASE /\ This.name \in DOMAIN Innermost
               /\ Rewrites(Len(scopes), This.name, Declared, here)
      <4>1. PICK m : m = Len(scopes)
        OBVIOUS
      <4>2. m \in DOMAIN scopes /\ This.name \in DOMAIN scopes[m].sym
        BY <1>1, <3>4, <4>1, LastScope DEF Innermost
      <4>3. /\ Untouched(here, m, This.name) /\ WellMade(here) /\ Len(here) = Len(scopes)
            /\ m \in DOMAIN here /\ This.name \in DOMAIN here[m].sym
            /\ here[m].sym[This.name].level = Declared
            /\ OwnNode(here[m].sym[This.name], m, This.name)
        BY <1>1, <3>4, <4>1, <4>2, RewriteUntouched, RewriteIsWellMade DEF Declared, Undefined
      <4>4. /\ Untouched(scopes', m, This.name)
            /\ \A j \in DOMAIN here : j \in DOMAIN scopes' /\ scopes'[j] = here[j]
        BY <1>1, <3>1, <4>3, PushUntouched
      <4>5. Changes(m, This.name, Declared)
        BY <4>2, <4>3, <4>4 DEF Changes
      <4>6. n \in DOMAIN stack' /\ OpenFunc(stack'[n])
        BY <1>3, <2>1, <3>2, KindStays DEF OpenFunc, InBody
      <4> QED BY <2>1, <2>2, <4>1, <4>5, <4>6 DEF Declares
    <3> QED BY <3>1, <3>3, <3>4
  <2>3. CASE ClosesFunc
    BY <1>1, <1>5, <2>1, <2>3, PopUntouched DEF ClosesFunc, Returns
  <2>4. CASE QuietReturn
    BY <1>5, <1>6, <2>1, <2>4 DEF QuietReturn, Quiet, Returns
  <2>5. ASSUME NEW f, Activation(f), Evaluates(f), UNCHANGED scopes \/ AddsParams
        PROVE  Leaves(n)
    <3>1. stack' = Append(Below, f)
      BY <2>5 DEF Evaluates, Stays, Calls
    <3>2. \A k, x : Untouched(scopes', k, x)
      BY <1>1, <1>6, <2>5, ParamsUntouched
    <3> QED BY <1>5, <2>1, <2>5, <3>1, <3>2
  <2> QED BY <1>9, <2>2, <2>3, <2>4, <2>5 DEF FuncMove, QuietStep, Quiet
<1>10. CASE BlockMove
  <2>1. This.kind # "VAR_DECL"
    BY <1>10 DEF BlockMove
  <2>2. stack' = Below \/ \E f : Activation(f) /\ stack' = Append(Below, f)
    BY <1>10 DEF BlockMove, OpensBlock, ClosesBlock, Returns, Stays, Calls
  <2>3. \A k, x : Untouched(scopes', k, x)
    <3>1. ASSUME NEW sc, Pushes(scopes, sc) PROVE \A k, x : Untouched(scopes', k, x)
      BY <1>1, <3>1, KeptUntouched, PushUntouched, ScopesAreWellMade
    <3>2. CASE scopes' = PopScope
      BY <1>1, <3>2, PopUntouched
    <3> QED BY <1>6, <1>10, <3>1, <3>2 DEF BlockMove, OpensBlock, ClosesBlock, Quiet
  <2> QED BY <1>5, <2>1, <2>2, <2>3
<1> QED BY <1>1, <1>7, <1>8, <1>9, <1>10 DEF HandlerMove

(***************************************************************************)
(* Who has a declaration analysed.                                         *)
(***************************************************************************)
Variable(f) == Node(f.node).kind = "VAR_DECL" /\ f.pc # "enter"

\* A declaration m that the activation under the i-th of the stack s asks for
\* is a statement of its block, or the global an identifier names: then no
\* variable of the name is being initialised below.
FromBlock(s, i, m) ==
  /\ Node(s[i - 1].node).kind = "BLOCK" /\ s[i - 1].pc # "enter"
  /\ \E k \in DOMAIN Node(s[i - 1].node).kids : m = Node(s[i - 1].node).kids[k]

FromUse(s, i, m) ==
  /\ Node(s[i - 1].node).kind = "IDENT" /\ s[i - 1].pc = "lazy" /\ Global(m)
  /\ Node(s[i - 1].node).name = Node(m).name
  /\ \A j \in 1 .. i - 1 : Variable(s[j]) => Node(s[j].node).name # Node(m).name

Called(s, i, m) ==
  IsDeclaration(m) =>
    \/ i = 1 /\ Global(m)
    \/ i > 1 /\ FromBlock(s, i, m)
    \/ i > 1 /\ FromUse(s, i, m)

Callers ==
  /\ \A i \in DOMAIN stack : Called(stack, i, stack[i].node)
  /\ ctl.op = "call" => Called(stack, Len(stack) + 1, ctl.node)

\* A symbol is open while an activation is initialising it.
Occupied(k, x) == \E i \in DOMAIN stack : HeldBy(stack[i], k, x)

Openness ==
  Alive =>
    \A k \in DOMAIN scopes : \A x \in DOMAIN scopes[k].sym :
      /\ SymbolAt(k, x).level = Defined <=> Occupied(k, x)
      /\ \A i, j \in DOMAIN stack :
           HeldBy(stack[i], k, x) /\ HeldBy(stack[j], k, x) => i = j

LEMMA CalledStays ==
  ASSUME NEW s, NEW t, NEW i \in Nat, NEW m, Called(s, i, m), \A j \in 1 .. i - 1 : s[j] = t[j]
  PROVE  Called(t, i, m)
<1>1. i > 1 => i - 1 \in 1 .. i - 1
  OBVIOUS
<1>2. i > 1 => s[i - 1] = t[i - 1]
  BY <1>1
<1>3. ASSUME i > 1, FromBlock(s, i, m) PROVE FromBlock(t, i, m)
  BY <1>2, <1>3 DEF FromBlock
<1>4. ASSUME i > 1, FromUse(s, i, m) PROVE FromUse(t, i, m)
  BY <1>2, <1>4 DEF FromUse
<1> QED BY <1>3, <1>4 DEF Called

LEMMA CallersLater ==
  ASSUME prog' = prog
  PROVE  Callers' <=>
           /\ \A i \in DOMAIN stack' : Called(stack', i, stack'[i].node)
           /\ ctl'.op = "call" => Called(stack', Len(stack') + 1, ctl'.node)
BY DEF Callers, Called, FromBlock, FromUse, Variable, Global, IsDeclaration, Node

\* What a handler calls for.
LEMMA HandlerCalls ==
  ASSUME HandlerStep, ctl'.op = "call"
  PROVE  \E f : /\ Activation(f) /\ stack' = Append(Below, f)
                /\ \/ ~IsDeclaration(ctl'.node)
                   \/ f.pc = "lazy" /\ IdentMove /\ \E k : LazyUse(k)
                   \/ /\ f.pc # "enter" /\ This.kind = "BLOCK"
                      /\ \E j \in DOMAIN This.kids : ctl'.node = Kid(j)
<1>1. HandlerMove /\ ctl.op # "call"
  BY DEF HandlerStep
<1>2. ~Returns /\ ~Collides /\ \A f : ~Stays(f)
  BY <1>1 DEF Returns, Collides, Stays
<1>3. ASSUME NEW f, Activation(f), Evaluates(f)
      PROVE  stack' = Append(Below, f) /\ ~IsDeclaration(ctl'.node)
  BY <1>2, <1>3 DEF Evaluates, Calls, Expression
<1>4. CASE PlainMove
  BY <1>2, <1>3, <1>4 DEF PlainMove, QuietMove, QuietReturn, QuietStep
<1>5. CASE IdentMove
  BY <1>2, <1>5 DEF IdentMove, QuietReturn, LazyUse, Calls
<1>6. CASE VarMove
  BY <1>2, <1>3, <1>6 DEF VarMove, OpensVar, ClosesVar, QuietReturn, QuietStep
<1>7. CASE FuncMove
  BY <1>2, <1>3, <1>7 DEF FuncMove, OpensFunc, ClosesFunc, QuietReturn, QuietStep
<1>8. CASE BlockMove
  BY <1>2, <1>8 DEF BlockMove, OpensBlock, ClosesBlock, Calls
<1> QED BY <1>1, <1>4, <1>5, <1>6, <1>7, <1>8 DEF HandlerMove

\* A name that is found UNDEFINED is not being initialised anywhere.
LEMMA LazyNameIsFree ==
  ASSUME Shape, Pointers, Openness, Alive, NEW k, NEW x, k = Lookup(x), k # 0,
         SymbolAt(k, x).level = Undefined, NEW i \in DOMAIN stack, Variable(stack[i])
  PROVE  Node(stack[i].node).name # x
<1> SUFFICES ASSUME Node(stack[i].node).name = x PROVE FALSE
  OBVIOUS
<1>1. /\ k \in DOMAIN scopes /\ x \in DOMAIN scopes[k].sym
      /\ \A j \in DOMAIN scopes : x \in DOMAIN scopes[j].sym => j <= k
  BY LookupFinds DEF Shape
<1>2. k = 1
  BY <1>1 DEF Shape, ScopesOK, SymbolOK
<1>3. PICK j : j = stack[i].sym
  OBVIOUS
<1>4. j \in DOMAIN scopes /\ x \in DOMAIN scopes[j].sym
  BY <1>3 DEF Pointers, Pointing, Variable, Anchored
<1>5. j = k
  <2>1. j <= 1
    BY <1>1, <1>2, <1>4
  <2>2. PICK m \in Nat : DOMAIN scopes = 1 .. m
    BY LastScope DEF Shape
  <2>3. j \in Nat /\ j >= 1
    BY <1>4, <2>2
  <2> QED BY <1>2, <2>1, <2>3
<1>6. HeldBy(stack[i], k, x)
  BY <1>3, <1>5 DEF HeldBy, Variable
<1> QED BY <1>1, <1>6 DEF Openness, Occupied, Defined, Undefined

LEMMA CallersKept ==
  ASSUME Shape, Pointers, Openness, Callers, Start \/ Enters \/ Idles \/ HandlerStep
  PROVE  Callers'
<1>1. CASE Start
  <2>1. UNCHANGED <<prog, stack, ctl>>
    BY <1>1 DEF Start
  <2> QED BY <2>1, CallersLater DEF Callers
<1>2. CASE Enters
  <2>1. PICK f : f = Frame(ctl.node, ctl.exp)
    OBVIOUS
  <2>2. f.node = ctl.node /\ stack' = Append(stack, f) /\ prog' = prog /\ ctl'.op # "call"
    BY <1>2, <2>1, FrameIsOK, Zenon DEF Shape, Enters
  <2>3. PICK n \in Nat : n = Len(stack) /\ DOMAIN stack = 1 .. n
    BY StackLength, Zenon DEF Shape
  <2>4. /\ DOMAIN stack' = DOMAIN stack \cup {n + 1} /\ stack'[n + 1] = f
        /\ \A i \in DOMAIN stack : stack'[i] = stack[i]
    BY <2>2, <2>3, Entered DEF Shape
  <2>5. ASSUME NEW i \in DOMAIN stack PROVE Called(stack', i, stack'[i].node)
    <3>1. Called(stack, i, stack'[i].node) /\ i \in Nat
      BY <2>3, <2>4 DEF Callers
    <3>2. \A j \in 1 .. i - 1 : stack[j] = stack'[j]
      BY <2>3, <2>4
    <3> QED BY <3>1, <3>2, CalledStays
  <2>6. Called(stack', n + 1, f.node)
    <3>1. Called(stack, n + 1, f.node)
      BY <1>2, <2>2, <2>3 DEF Callers, Enters
    <3>2. \A j \in 1 .. (n + 1) - 1 : stack[j] = stack'[j]
      BY <2>3, <2>4
    <3> QED BY <3>1, <3>2, CalledStays
  <2> QED BY <2>2, <2>4, <2>5, <2>6, CallersLater
<1>3. CASE Idles
  <2>1. UNCHANGED <<prog, stack>>
    BY <1>3 DEF Idles
  <2>2. ASSUME ctl'.op = "call" PROVE Called(stack, Len(stack) + 1, ctl'.node)
    <3>1. CASE ctl' = ctl
      BY <2>2, <3>1 DEF Callers
    <3>2. CASE stack = <<>> /\ Global(ctl'.node)
      BY <3>2 DEF Called
    <3> QED BY <1>3, <2>2, <3>1, <3>2 DEF Idles
  <2> QED BY <2>1, <2>2, CallersLater DEF Callers
<1>4. CASE HandlerStep
  <2>1. PICK n : n = Len(stack)
    OBVIOUS
  <2>2. /\ n \in Nat \ {0} /\ stack # <<>> /\ DOMAIN stack = 1 .. n /\ stack[n] = Top
        /\ Alive
    BY <1>4, <2>1, TopHolds DEF HandlerStep, Alive
  <2>3. /\ prog' = prog
        /\ \/ stack' = stack /\ ctl' = ctl
           \/ stack' = Below /\ ctl'.op = "return"
           \/ \E f : Activation(f) /\ stack' = Append(Below, f)
    BY <1>4, MoveOfStack DEF HandlerStep
  <2>4. \A i \in DOMAIN stack' : /\ i \in DOMAIN stack /\ stack'[i].node = stack[i].node
                                 /\ i # n => stack'[i] = stack[i]
    <3>1. CASE stack' = Below
      BY <2>1, <2>2, <3>1, Dropped DEF Shape
    <3>2. ASSUME NEW f, Activation(f), stack' = Append(Below, f)
          PROVE  \A i \in DOMAIN stack' : /\ i \in DOMAIN stack /\ stack'[i].node = stack[i].node
                                          /\ i # n => stack'[i] = stack[i]
      BY <2>1, <2>2, <3>2, Replaced DEF Shape, Activation
    <3> QED BY <2>3, <3>1, <3>2
  <2>5. \A i \in 1 .. n - 1 : i \in DOMAIN stack' /\ stack[i] = stack'[i]
    <3>1. CASE stack' = Below
      BY <2>1, <2>2, <3>1, Dropped DEF Shape
    <3>2. ASSUME NEW f, stack' = Append(Below, f)
          PROVE  \A i \in 1 .. n - 1 : i \in DOMAIN stack' /\ stack[i] = stack'[i]
      BY <2>1, <2>2, <3>2, Replaced DEF Shape
    <3> QED BY <2>2, <2>3, <3>1, <3>2
  <2>6. ASSUME NEW i \in DOMAIN stack' PROVE Called(stack', i, stack'[i].node)
    <3>1. Called(stack, i, stack'[i].node) /\ i \in Nat
      BY <2>2, <2>4 DEF Callers
    <3>2. \A j \in 1 .. i - 1 : stack[j] = stack'[j]
      BY <2>2, <2>4, <2>5
    <3> QED BY <3>1, <3>2, CalledStays
  <2>7. ASSUME ctl'.op = "call" PROVE Called(stack', Len(stack') + 1, ctl'.node)
    <3>1. PICK f : /\ Activation(f) /\ stack' = Append(Below, f)
                   /\ \/ ~IsDeclaration(ctl'.node)
                      \/ f.pc = "lazy" /\ IdentMove /\ \E k : LazyUse(k)
                      \/ /\ f.pc # "enter" /\ This.kind = "BLOCK"
                         /\ \E j \in DOMAIN This.kids : ctl'.node = Kid(j)
      BY <1>4, <2>7, HandlerCalls
    <3>2. Len(stack') = n /\ stack'[n] = f
      BY <2>1, <2>2, <3>1, Replaced DEF Shape
    <3>3. n + 1 > 1 /\ (n + 1) - 1 = n
      BY <2>2
    <3>4. Node(f.node).kind = This.kind /\ Node(f.node).name = This.name /\ Node(f.node) = This
      BY <3>1 DEF Activation, This
    <3>5. CASE ~IsDeclaration(ctl'.node)
      BY <3>5 DEF Called
    <3>6. CASE /\ f.pc # "enter" /\ This.kind = "BLOCK"
               /\ \E j \in DOMAIN This.kids : ctl'.node = Kid(j)
      <4>1. FromBlock(stack', n + 1, ctl'.node)
        BY <3>2, <3>3, <3>4, <3>6 DEF FromBlock, Kid
      <4> QED BY <3>2, <3>3, <4>1 DEF Called
    <3>7. CASE f.pc = "lazy" /\ IdentMove /\ \E k : LazyUse(k)
      <4>1. PICK k : LazyUse(k)
        BY <3>7
      <4>2. /\ k = Lookup(This.name) /\ k # 0 /\ SymbolAt(k, This.name).level = Undefined
            /\ ctl'.node = SymbolAt(k, This.name).node /\ This.kind = "IDENT"
        BY <3>7, <4>1 DEF LazyUse, Calls, IdentMove
      <4>3. k \in DOMAIN scopes /\ This.name \in DOMAIN scopes[k].sym
        BY <4>2, LookupFinds DEF Shape
      <4>4. Global(ctl'.node) /\ Node(ctl'.node).name = This.name
        BY <4>2, <4>3 DEF Shape, ScopesOK, SymbolOK
      <4>5. ASSUME NEW j \in 1 .. n, Variable(stack'[j])
            PROVE  Node(stack'[j].node).name # This.name
        <5>1. j # n
          BY <3>2, <3>4, <4>2, <4>5 DEF Variable
        <5>2. j \in DOMAIN stack /\ stack'[j] = stack[j]
          BY <2>2, <2>5, <5>1
        <5> QED BY <2>2, <4>2, <4>5, <5>2, LazyNameIsFree
      <4>6. FromUse(stack', n + 1, ctl'.node)
        BY <3>2, <3>3, <3>4, <3>7, <4>2, <4>4, <4>5 DEF FromUse
      <4> QED BY <3>2, <3>3, <4>6 DEF Called
    <3> QED BY <3>1, <3>5, <3>6, <3>7
  <2> QED BY <2>3, <2>6, <2>7, CallersLater
<1> QED BY <1>1, <1>2, <1>3, <1>4

LEMMA OpennessLater ==
  ASSUME prog' = prog
  PROVE  Openness' <=>
           (Alive' =>
              \A k \in DOMAIN scopes' : \A x \in DOMAIN scopes'[k].sym :
                /\ scopes'[k].sym[x].level = Defined <=>
                     \E i \in DOMAIN stack' : HeldBy(stack'[i], k, x)
                /\ \A i, j \in DOMAIN stack' :
                     HeldBy(stack'[i], k, x) /\ HeldBy(stack'[j], k, x) => i = j)
BY DEF Openness, Occupied, HeldBy, SymbolAt, Node

\* What an activation holds is there, and is one symbol.
LEMMA HeldIsThere ==
  ASSUME Pointers, NEW i \in DOMAIN stack, NEW k, NEW x, HeldBy(stack[i], k, x)
  PROVE  /\ k \in DOMAIN scopes /\ x \in DOMAIN scopes[k].sym
         /\ k + Cardinality(HoldersIn(stack, i)) <= Len(scopes)
         /\ Variable(stack[i])
BY DEF Pointers, Pointing, HeldBy, Anchored, Variable

LEMMA HeldIsOne ==
  ASSUME NEW f, NEW k, NEW x, HeldBy(f, k, x), NEW j, NEW y, HeldBy(f, j, y)
  PROVE  k = j /\ x = y
BY DEF HeldBy

\* The symbol a function looks for in the innermost scope is not one that is
\* being initialised: the scope is then that of the block it stands in, or
\* nobody initialises a variable of its name.
LEMMA FunctionNameIsFree ==
  ASSUME Shape, Pointers, Callers, stack # <<>>, This.kind = "FUNC_DECL",
         NEW i \in DOMAIN stack
  PROVE  ~HeldBy(stack[i], Len(scopes), This.name)
<1> SUFFICES ASSUME HeldBy(stack[i], Len(scopes), This.name) PROVE FALSE
  OBVIOUS
<1>1. PICK n \in Nat \ {0} : n = Len(stack) /\ DOMAIN stack = 1 .. n /\ stack[n] = Top
  BY TopHolds
<1>2. PICK m \in Nat : m = Len(scopes)
  BY LastScope DEF Shape
<1>3. PICK c : c = Cardinality(HoldersIn(stack, i))
  OBVIOUS
<1>4. m + c <= m /\ Variable(stack[i])
  BY <1>2, <1>3, HeldIsThere
<1>5. IsFiniteSet(HoldersIn(stack, i)) /\ c \in Nat
  BY <1>1, <1>3, HoldersAreFinite
<1>6. HoldersIn(stack, i) = {}
  BY <1>2, <1>3, <1>4, <1>5, FS_EmptySet
<1>7. i # n /\ i \in 1 .. n - 1
  <2>1. i # n
    BY <1>1, <1>4 DEF Variable, This
  <2> QED BY <1>1, <2>1
<1>8. Called(stack, n, Top.node) /\ IsDeclaration(Top.node)
  BY <1>1 DEF Callers, IsDeclaration, DeclarationKinds, This
<1>9. CASE n > 1 /\ FromBlock(stack, n, Top.node)
  <2>1. n - 1 \in DOMAIN stack /\ HoldsScope(stack[n - 1]) /\ i # n - 1
    BY <1>1, <1>4, <1>9 DEF FromBlock, HoldsScope, Variable
  <2>2. n - 1 > i
    BY <1>7, <2>1
  <2> QED BY <1>6, <2>1, <2>2 DEF HoldersIn
<1>10. CASE n > 1 /\ FromUse(stack, n, Top.node)
  BY <1>4, <1>7, <1>10 DEF FromUse, HeldBy, This
<1> QED BY <1>1, <1>7, <1>8, <1>9, <1>10 DEF Called

\* The stack below the running activation stays as it is.
BelowStays(n) ==
  /\ n = Len(stack) /\ n \in DOMAIN stack /\ stack[n] = Top
  /\ \A i \in DOMAIN stack : i # n => i \in DOMAIN stack' /\ stack'[i] = stack[i]
  /\ \A i \in DOMAIN stack' : i \in DOMAIN stack

LEMMA StepStaysBelow ==
  ASSUME Shape, scopes # <<>>, HandlerStep
  PROVE  BelowStays(Len(stack)) /\ prog' = prog
<1>1. PICK n : n = Len(stack)
  OBVIOUS
<1>2. /\ n \in Nat \ {0} /\ DOMAIN stack = 1 .. n /\ stack[n] = Top /\ n \in DOMAIN stack
  BY <1>1, TopHolds DEF HandlerStep
<1>3. Alike(stack, stack', n) /\ prog' = prog
  BY <1>1, StepBalanced, MoveOfStack DEF Balanced, HandlerStep
<1>4. ASSUME NEW i \in DOMAIN stack, i # n PROVE i \in DOMAIN stack' /\ stack'[i] = stack[i]
  <2>1. i \in 1 .. n - 1
    BY <1>2, <1>4
  <2> QED BY <1>3, <2>1 DEF Alike
<1>5. \A i \in DOMAIN stack' : i \in DOMAIN stack
  BY <1>2, <1>3 DEF Alike
<1> QED BY <1>1, <1>2, <1>3, <1>4, <1>5 DEF BelowStays

\* A symbol that is there stays as it is, and so does who holds it, if the
\* running activation holds it neither before nor after.
LEMMA OthersStayOpen ==
  ASSUME Shape, Pointers, Openness, Alive, NEW n, BelowStays(n),
         NEW k \in DOMAIN scopes, NEW x \in DOMAIN scopes[k].sym,
         k \in DOMAIN scopes', scopes'[k].sym[x] = scopes[k].sym[x],
         n \in DOMAIN stack' /\ HeldBy(stack'[n], k, x) <=> HeldBy(Top, k, x)
  PROVE  /\ scopes'[k].sym[x].level = Defined <=> \E i \in DOMAIN stack' : HeldBy(stack'[i], k, x)
         /\ \A i, j \in DOMAIN stack' :
              HeldBy(stack'[i], k, x) /\ HeldBy(stack'[j], k, x) => i = j
<1>1. \A i \in DOMAIN stack' : HeldBy(stack'[i], k, x) => i \in DOMAIN stack /\ HeldBy(stack[i], k, x)
  BY DEF BelowStays
<1>2. \A i \in DOMAIN stack : HeldBy(stack[i], k, x) => i \in DOMAIN stack' /\ HeldBy(stack'[i], k, x)
  BY DEF BelowStays
<1>3. /\ scopes[k].sym[x].level = Defined <=> \E i \in DOMAIN stack : HeldBy(stack[i], k, x)
      /\ \A i, j \in DOMAIN stack : HeldBy(stack[i], k, x) /\ HeldBy(stack[j], k, x) => i = j
  BY DEF Openness, Occupied, SymbolAt
<1>4. scopes'[k].sym[x].level = Defined <=> \E i \in DOMAIN stack' : HeldBy(stack'[i], k, x)
  BY <1>1, <1>2, <1>3
<1> QED BY <1>1, <1>3, <1>4

\* A new symbol is not open, and nobody holds it.
LEMMA NewIsNotOpen ==
  ASSUME Shape, Pointers, NEW n, BelowStays(n),
         NEW k, NEW x, ~(k \in DOMAIN scopes /\ x \in DOMAIN scopes[k].sym),
         scopes'[k].sym[x].level \in {Ahh, Declared},
         n \in DOMAIN stack' => ~HeldBy(stack'[n], k, x)
  PROVE  /\ scopes'[k].sym[x].level # Defined
         /\ \A i \in DOMAIN stack' : ~HeldBy(stack'[i], k, x)
<1>1. scopes'[k].sym[x].level # Defined
  BY DEF Ahh, Declared, Defined
<1>2. ASSUME NEW i \in DOMAIN stack', HeldBy(stack'[i], k, x) PROVE FALSE
  <2>1. i # n /\ i \in DOMAIN stack /\ HeldBy(stack[i], k, x)
    BY <1>2 DEF BelowStays
  <2> QED BY <2>1, HeldIsThere
<1> QED BY <1>1, <1>2

\* A step that gives the symbol x of scope k a new level: it is open then iff
\* the running activation is left holding it.
LEMMA OpennessChanged ==
  ASSUME Shape, Pointers, Openness, Alive, prog' = prog, NEW n, BelowStays(n),
         NEW k, NEW x, NEW level, Changes(k, x, level), level \in {Defined, Declared},
         \A i \in DOMAIN stack : HeldBy(stack[i], k, x) => i = n,
         \A j, y : HeldBy(Top, j, y) => j = k /\ y = x,
         n \in DOMAIN stack' => \A j, y : HeldBy(stack'[n], j, y) => j = k /\ y = x,
         level = Defined <=> (n \in DOMAIN stack' /\ HeldBy(stack'[n], k, x))
  PROVE  Openness'
<1> SUFFICES ASSUME NEW j \in DOMAIN scopes', NEW y \in DOMAIN scopes'[j].sym
             PROVE  /\ scopes'[j].sym[y].level = Defined <=>
                         \E i \in DOMAIN stack' : HeldBy(stack'[i], j, y)
                    /\ \A i, m \in DOMAIN stack' :
                         HeldBy(stack'[i], j, y) /\ HeldBy(stack'[m], j, y) => i = m
  BY OpennessLater
<1>1. CASE j = k /\ y = x
  <2>1. scopes'[k].sym[x].level = level
    BY DEF Changes
  <2>2. \A i \in DOMAIN stack' : HeldBy(stack'[i], k, x) => i = n
    BY DEF BelowStays
  <2> QED BY <1>1, <2>1, <2>2
<1>2. CASE ~(j = k /\ y = x) /\ j \in DOMAIN scopes /\ y \in DOMAIN scopes[j].sym
  <2>1. scopes'[j].sym[y] = scopes[j].sym[y]
    BY <1>2 DEF Changes, Untouched
  <2>2. ~HeldBy(Top, j, y) /\ ~(n \in DOMAIN stack' /\ HeldBy(stack'[n], j, y))
    BY <1>2
  <2> QED BY <1>2, <2>1, <2>2, OthersStayOpen
<1>3. CASE ~(j \in DOMAIN scopes /\ y \in DOMAIN scopes[j].sym)
  <2>1. scopes'[j].sym[y].level \in {Ahh, Declared}
    BY <1>3 DEF Changes, Untouched
  <2>2. n \in DOMAIN stack' => ~HeldBy(stack'[n], j, y)
    BY <1>3 DEF Changes
  <2> QED BY <1>3, <2>1, <2>2, NewIsNotOpen
<1> QED BY <1>1, <1>2, <1>3

LEMMA OpennessKept ==
  ASSUME Shape, Counted, Pointers, Callers, Openness, Start \/ Enters \/ Idles \/ HandlerStep
  PROVE  Openness'
<1>1. CASE Start
  <2>1. prog' = prog /\ stack' = stack /\ stack = <<>>
    BY <1>1 DEF Start, Counted
  <2>2. DOMAIN scopes' = {1} /\ scopes'[1].sym = Hoisted(prog.decls, Undefined)
    BY <1>1, StartMakesScopes
  <2>3. \A x \in DOMAIN scopes'[1].sym : scopes'[1].sym[x].level = Undefined
    <3>1. prog.decls \in Seq(Nodes)
      BY DEF Shape, ProgramOK, Nodes
    <3> QED BY <2>2, <3>1, HoistedIs DEF Symbol
  <2>4. DOMAIN stack' = {}
    BY <2>1
  <2> QED BY <2>1, <2>2, <2>3, <2>4, OpennessLater DEF Undefined, Defined
<1>2. CASE Enters
  <2>1. prog' = prog /\ scopes' = scopes /\ Alive
    BY <1>2 DEF Enters, Alive
  <2>2. PICK n : n = Len(stack) + 1
    OBVIOUS
  <2>3. /\ DOMAIN stack' = DOMAIN stack \cup {n} /\ stack'[n].pc = "enter"
        /\ \A i \in DOMAIN stack : stack'[i] = stack[i]
    BY <1>2, <2>2, EnteringHoldsNothing
  <2>4. ASSUME NEW k, NEW x
        PROVE  \A i \in DOMAIN stack' : HeldBy(stack'[i], k, x) <=> i \in DOMAIN stack /\ HeldBy(stack[i], k, x)
    BY <1>2, <2>2, <2>3, EnteringHoldsNothing DEF HeldBy
  <2>5. ASSUME NEW k \in DOMAIN scopes', NEW x \in DOMAIN scopes'[k].sym
        PROVE  /\ scopes'[k].sym[x].level = Defined <=>
                    \E i \in DOMAIN stack' : HeldBy(stack'[i], k, x)
               /\ \A i, j \in DOMAIN stack' :
                    HeldBy(stack'[i], k, x) /\ HeldBy(stack'[j], k, x) => i = j
    <3>1. /\ scopes'[k].sym[x].level = Defined <=> \E i \in DOMAIN stack : HeldBy(stack[i], k, x)
          /\ \A i, j \in DOMAIN stack : HeldBy(stack[i], k, x) /\ HeldBy(stack[j], k, x) => i = j
      BY <2>1, <2>5 DEF Openness, Occupied, SymbolAt
    <3>2. \A i \in DOMAIN stack : HeldBy(stack[i], k, x) => i \in DOMAIN stack' /\ HeldBy(stack'[i], k, x)
      BY <2>3
    <3> QED BY <2>3, <2>4, <3>1, <3>2
  <2> QED BY <2>1, <2>5, OpennessLater
<1>3. CASE Idles
  <2>1. UNCHANGED <<prog, stack, scopes>> /\ (Alive' => Alive)
    BY <1>3 DEF Idles
  <2> QED BY <2>1, OpennessLater DEF Openness, Occupied, SymbolAt
<1>4. CASE HandlerStep
  <2>1. PICK n : n = Len(stack)
    OBVIOUS
  <2>2. /\ scopes # <<>> /\ Alive /\ stack # <<>>
    BY <1>4, ScopesAreOpen DEF HandlerStep, Alive
  <2>3. BelowStays(n) /\ prog' = prog
    BY <1>4, <2>1, <2>2, StepStaysBelow
  <2>4. CASE Collides
    BY <2>3, <2>4, OpennessLater DEF Collides, Alive
  <2>5. CASE ctl'.op = "return" /\ IsCrash(ctl'.val)
    BY <2>3, <2>5, OpennessLater DEF Alive
  <2>6. CASE Opens(n)
    <3>1. PICK k : /\ k = Lookup(This.name) /\ SymbolAt(k, This.name).level # Defined
                   /\ Changes(k, This.name, Defined)
                   /\ n \in DOMAIN stack' /\ HeldBy(stack'[n], k, This.name)
      BY <2>6 DEF Opens
    <3>2. \A i \in DOMAIN stack : ~HeldBy(stack[i], k, This.name)
      BY <2>2, <3>1 DEF Openness, Occupied, Changes
    <3>3. \A j, y : ~HeldBy(Top, j, y)
      BY <2>6 DEF Opens, HeldBy
    <3>4. \A j, y : HeldBy(stack'[n], j, y) => j = k /\ y = This.name
      BY <3>1, HeldIsOne
    <3> QED BY <2>2, <2>3, <3>1, <3>2, <3>3, <3>4, OpennessChanged
  <2>7. CASE Closes(n)
    <3>1. \A i \in DOMAIN stack : HeldBy(stack[i], Top.sym, This.name) => i = n
      BY <2>2, <2>3, <2>7 DEF Openness, Closes, Changes, BelowStays
    <3>2. \A j, y : HeldBy(Top, j, y) => j = Top.sym /\ y = This.name
      BY <2>7, HeldIsOne DEF Closes
    <3> QED BY <2>2, <2>3, <2>7, <3>1, <3>2, OpennessChanged DEF Closes, Declared, Defined
  <2>8. CASE Declares(n)
    <3>1. \A i \in DOMAIN stack : ~HeldBy(stack[i], Len(scopes), This.name)
      BY <2>2, <2>8, FunctionNameIsFree DEF Declares
    <3>2. \A j, y : ~HeldBy(Top, j, y)
      BY <2>8 DEF Declares, HeldBy, This
    <3>3. n \in DOMAIN stack' /\ \A j, y : ~HeldBy(stack'[n], j, y)
      BY <2>8 DEF Declares, HeldBy, OpenFunc
    <3> QED BY <2>2, <2>3, <2>8, <3>1, <3>2, <3>3, OpennessChanged DEF Declares, Declared, Defined
  <2>9. CASE Leaves(n)
    <3> SUFFICES ASSUME NEW k \in DOMAIN scopes', NEW x \in DOMAIN scopes'[k].sym
                 PROVE  /\ scopes'[k].sym[x].level = Defined <=>
                             \E i \in DOMAIN stack' : HeldBy(stack'[i], k, x)
                        /\ \A i, m \in DOMAIN stack' :
                             HeldBy(stack'[i], k, x) /\ HeldBy(stack'[m], k, x) => i = m
      BY <2>3, OpennessLater
    <3>1. Untouched(scopes', 0, x) /\ (k \in DOMAIN scopes => k # 0)
      BY <2>9, LastScope DEF Leaves, Shape
    <3>2. n \in DOMAIN stack' /\ HeldBy(stack'[n], k, x) <=> HeldBy(Top, k, x)
      BY <2>9 DEF Leaves
    <3>3. CASE k \in DOMAIN scopes /\ x \in DOMAIN scopes[k].sym
      <4>1. scopes'[k].sym[x] = scopes[k].sym[x]
        BY <3>1, <3>3 DEF Untouched
      <4> QED BY <2>2, <2>3, <3>2, <3>3, <4>1, OthersStayOpen
    <3>4. CASE ~(k \in DOMAIN scopes /\ x \in DOMAIN scopes[k].sym)
      <4>1. scopes'[k].sym[x].level \in {Ahh, Declared}
        BY <3>1, <3>4 DEF Untouched
      <4>2. ~HeldBy(Top, k, x)
        BY <2>3, <3>4, HeldIsThere DEF BelowStays
      <4> QED BY <2>3, <3>2, <3>4, <4>1, <4>2, NewIsNotOpen
    <3> QED BY <3>3, <3>4
  <2> QED BY <1>4, <2>1, <2>2, <2>4, <2>5, <2>6, <2>7, <2>8, <2>9, SymbolMoves
<1> QED BY <1>1, <1>2, <1>3, <1>4

(***************************************************************************)
(* The globals.                                                            *)
(***************************************************************************)
Block(f) == Node(f.node).kind = "BLOCK" /\ f.pc # "enter"

\* m is a declaration among the statements of the node n.
Local(n, m) == IsDeclaration(m) /\ \E j \in DOMAIN Node(n).kids : m = Node(n).kids[j]

\* The names a block declares are those of a scope of its own, never the
\* global one.
BlockScopes ==
  \A i \in DOMAIN stack : Block(stack[i]) =>
    \E k \in Nat \ {0, 1} : \A m : Local(stack[i].node, m) => Anchored(i, k, Node(m).name)

LEMMA BlockScopesLater ==
  ASSUME prog' = prog, \A i \in DOMAIN stack' : Block(stack'[i]) =>
           \E k \in Nat \ {0, 1} :
             \A m : Local(stack'[i].node, m) => Anchored(i, k, Node(m).name)'
  PROVE  BlockScopes'
BY DEF BlockScopes, Block, Local, Node, IsDeclaration, Anchored, HoldersIn, HoldsScope, OpenFunc

LEMMA HoistedNames ==
  ASSUME NEW n, NEW m, Local(n, m), NEW level
  PROVE  Node(m).name \in DOMAIN Hoisted(Node(n).kids, level)
BY DEF Local, Hoisted

\* A block that has just got its scope, for what it declares.
NewBlock ==
  /\ Len(scopes') = Len(scopes) + 1 /\ Len(scopes') \in DOMAIN scopes'
  /\ scopes'[Len(scopes')].sym = Hoisted(Node(Top.node).kids, Ahh)
  /\ \A k \in DOMAIN scopes : k \in DOMAIN scopes' /\ scopes'[k] = scopes[k]
  /\ Len(stack) \in DOMAIN stack' /\ ~Redefines(Node(Top.node).kids)

LEMMA BlockStays ==
  ASSUME Shape, scopes # <<>>, HandlerStep, NEW n, n = Len(stack),
         n \in DOMAIN stack', Block(stack'[n])
  PROVE  stack'[n].node = Top.node /\ ((Block(Top) /\ scopes' = scopes) \/ NewBlock)
<1>1. HandlerMove /\ Activation(Top) /\ stack # <<>> /\ stack[n] = Top
  BY TopHolds DEF HandlerStep, Activation
<1>2. ASSUME stack' = Below PROVE FALSE
  BY <1>1, <1>2, Dropped DEF Shape
<1>3. ASSUME NEW f, stack' = Append(Below, f) PROVE stack'[n] = f
  BY <1>1, <1>3, Replaced DEF Shape
<1>4. stack'[n].node = Top.node
  <2>1. CASE stack' = stack
    BY <1>1, <2>1
  <2>2. ASSUME NEW f, Activation(f), stack' = Append(Below, f) PROVE stack'[n].node = Top.node
    BY <1>3, <2>2 DEF Activation
  <2> QED BY <1>2, <2>1, <2>2, MoveOfStack DEF HandlerStep
<1>5. This.kind = "BLOCK"
  <2>1. prog' = prog
    BY MoveOfStack DEF HandlerStep
  <2> QED BY <1>4, <2>1 DEF Block, This, Node
<1>6. BlockMove
  BY <1>1, <1>5 DEF HandlerMove, PlainMove, IdentMove, VarMove, FuncMove
<1>7. CASE OpensBlock
  <2>1. PICK sc : Pushes(scopes, sc) /\ sc.sym = Hoisted(This.kids, Ahh)
    BY <1>7 DEF OpensBlock
  <2>2. /\ WellMade(scopes') /\ Len(scopes') = Len(scopes) + 1
        /\ scopes'[Len(scopes) + 1] = sc
        /\ \A k \in DOMAIN scopes : k \in DOMAIN scopes' /\ scopes'[k] = scopes[k]
    BY <2>1, PushIsWellMade, ScopesAreWellMade DEF Shape
  <2>3. PICK m \in Nat : m = Len(scopes)
    BY LastScope DEF Shape
  <2>4. DOMAIN scopes' = 1 .. m + 1
    BY <2>2, <2>3 DEF WellMade
  <2>5. ~Redefines(This.kids)
    BY <1>2, <1>7 DEF OpensBlock, Returns
  <2>6. Len(scopes') \in DOMAIN scopes' /\ scopes'[Len(scopes')] = sc
    BY <2>2, <2>3, <2>4
  <2>7. Node(Top.node) = This
    BY DEF This
  <2>8. NewBlock
    BY <2>1, <2>2, <2>5, <2>6, <2>7 DEF NewBlock
  <2> QED BY <1>4, <2>8
<1>8. CASE Top.pc # "enter"
  BY <1>1, <1>2, <1>4, <1>5, <1>6, <1>8
     DEF BlockMove, OpensBlock, ClosesBlock, Returns, Quiet, Block, This
<1> QED BY <1>6, <1>7, <1>8 DEF BlockMove, ClosesBlock

LEMMA BlockScopesKept ==
  ASSUME Shape, Counted, BlockScopes, Start \/ Enters \/ Idles \/ HandlerStep
  PROVE  BlockScopes'
<1>1. CASE Start
  <2>1. prog' = prog /\ stack' = stack /\ stack = <<>>
    BY <1>1 DEF Start, Counted
  <2>2. DOMAIN stack' = {}
    BY <2>1
  <2> QED BY <2>1, <2>2, BlockScopesLater
<1>2. CASE Enters
  <2>1. prog' = prog /\ scopes' = scopes
    BY <1>2 DEF Enters
  <2>2. PICK n : n = Len(stack) + 1
    OBVIOUS
  <2>3. /\ DOMAIN stack' = DOMAIN stack \cup {n} /\ stack'[n].pc = "enter"
        /\ \A i \in DOMAIN stack : stack'[i] = stack[i]
        /\ \A i : HoldersIn(stack', i) = HoldersIn(stack, i)
    BY <1>2, <2>2, EnteringHoldsNothing
  <2>4. ASSUME NEW i, NEW k, NEW x, Anchored(i, k, x) PROVE Anchored(i, k, x)'
    <3>1. HoldersIn(stack, i)' = HoldersIn(stack, i)
      BY <2>1, <2>3, HoldersLater
    <3> QED BY <2>1, <2>4, <3>1 DEF Anchored
  <2>5. ASSUME NEW i \in DOMAIN stack', Block(stack'[i])
        PROVE  \E k \in Nat \ {0, 1} :
                 \A m : Local(stack'[i].node, m) => Anchored(i, k, Node(m).name)'
    <3>1. i \in DOMAIN stack /\ stack'[i] = stack[i] /\ Block(stack[i])
      BY <2>3, <2>5 DEF Block
    <3>2. PICK k \in Nat \ {0, 1} :
             \A m : Local(stack[i].node, m) => Anchored(i, k, Node(m).name)
      BY <3>1 DEF BlockScopes
    <3>3. \A m : Local(stack[i].node, m) => Anchored(i, k, Node(m).name)'
      BY <2>1, <2>4, <3>2 DEF Node
    <3> QED BY <3>1, <3>3
  <2> QED BY <2>1, <2>5, BlockScopesLater
<1>3. CASE Idles
  <2>1. UNCHANGED <<prog, stack, scopes>>
    BY <1>3 DEF Idles
  <2>2. ASSUME NEW i, NEW k, NEW x, Anchored(i, k, x) PROVE Anchored(i, k, x)'
    <3>1. HoldersIn(stack, i)' = HoldersIn(stack, i)
      BY <2>1 DEF HoldersIn, HoldsScope, OpenFunc, Node
    <3> QED BY <2>1, <2>2, <3>1 DEF Anchored
  <2>3. ASSUME NEW i \in DOMAIN stack', Block(stack'[i])
        PROVE  \E k \in Nat \ {0, 1} :
                 \A m : Local(stack'[i].node, m) => Anchored(i, k, Node(m).name)'
    <3>1. PICK k \in Nat \ {0, 1} :
             \A m : Local(stack[i].node, m) => Anchored(i, k, Node(m).name)
      BY <2>1, <2>3 DEF BlockScopes
    <3>2. \A m : Local(stack'[i].node, m) => Anchored(i, k, Node(m).name)'
      BY <2>1, <2>2, <3>1 DEF Node
    <3> QED BY <3>2
  <2> QED BY <2>1, <2>3, BlockScopesLater
<1>4. CASE HandlerStep
  <2>1. PICK n : n = Len(stack)
    OBVIOUS
  <2>2. scopes # <<>> /\ stack # <<>>
    BY <1>4, ScopesAreOpen DEF HandlerStep
  <2>3. BelowStays(n) /\ prog' = prog /\ Balanced(n)
    BY <1>4, <2>1, <2>2, StepStaysBelow, StepBalanced
  <2>4. n \in Nat /\ DOMAIN stack = 1 .. n
    BY <2>1, <2>2, TopHolds
  <2>5. ASSUME NEW i \in DOMAIN stack', Block(stack'[i]), i # n
        PROVE  \E k \in Nat \ {0, 1} :
                 \A m : Local(stack'[i].node, m) => Anchored(i, k, Node(m).name)'
    <3>1. i \in DOMAIN stack /\ stack'[i] = stack[i] /\ Block(stack[i]) /\ i \in Nat /\ i < n
      BY <2>3, <2>4, <2>5 DEF BelowStays
    <3>2. PICK k \in Nat \ {0, 1} :
             \A m : Local(stack[i].node, m) => Anchored(i, k, Node(m).name)
      BY <3>1 DEF BlockScopes
    <3>3. ASSUME NEW x, Anchored(i, k, x) PROVE Anchored(i, k, x)'
      BY <2>3, <3>1, <3>3, AnchorsHold
    <3>4. ASSUME NEW m, Local(stack[i].node, m) PROVE Anchored(i, k, Node(m).name)'
      <4>1. PICK x : x = Node(m).name
        OBVIOUS
      <4>2. Anchored(i, k, x)'
        BY <3>2, <3>3, <3>4, <4>1
      <4> QED BY <2>3, <4>1, <4>2 DEF Node
    <3> QED BY <3>1, <3>4
  <2>6. ASSUME n \in DOMAIN stack', Block(stack'[n])
        PROVE  \E k \in Nat \ {0, 1} :
                 \A m : Local(stack'[n].node, m) => Anchored(n, k, Node(m).name)'
    <3>1. stack'[n].node = Top.node /\ ((Block(Top) /\ scopes' = scopes) \/ NewBlock)
      BY <1>4, <2>1, <2>2, <2>6, BlockStays
    <3>2. CASE Block(Top) /\ scopes' = scopes
      <4>1. PICK k \in Nat \ {0, 1} : \A m : Local(Top.node, m) => Anchored(n, k, Node(m).name)
        BY <2>3, <3>2 DEF BlockScopes, BelowStays
      <4>2. ASSUME NEW m, Local(Top.node, m) PROVE Anchored(n, k, Node(m).name)'
        <5>1. PICK x : x = Node(m).name
          OBVIOUS
        <5>2. k \in DOMAIN scopes' /\ x \in DOMAIN scopes'[k].sym
          BY <3>2, <4>1, <4>2, <5>1 DEF Anchored
        <5>3. Anchored(n, k, x)'
          BY <2>3, <5>2, FoundIsAnchored
        <5> QED BY <2>3, <5>1, <5>3 DEF Node
      <4> QED BY <3>1, <4>1, <4>2
    <3>3. CASE NewBlock
      <4>1. PICK k \in Nat \ {0, 1} :
               k \in DOMAIN scopes' /\ scopes'[k].sym = Hoisted(Node(Top.node).kids, Ahh)
        BY <2>2, <3>3, LastScope DEF NewBlock, Shape
      <4>2. ASSUME NEW m, Local(Top.node, m) PROVE Anchored(n, k, Node(m).name)'
        <5>1. PICK x : x = Node(m).name
          OBVIOUS
        <5>2. x \in DOMAIN scopes'[k].sym
          BY <4>1, <4>2, <5>1, HoistedNames
        <5>3. Anchored(n, k, x)'
          BY <2>3, <4>1, <5>2, FoundIsAnchored
        <5> QED BY <2>3, <5>1, <5>3 DEF Node
      <4> QED BY <3>1, <4>1, <4>2
    <3> QED BY <3>1, <3>2, <3>3
  <2> QED BY <2>3, <2>5, <2>6, BlockScopesLater
<1> QED BY <1>1, <1>2, <1>3, <1>4

\* A declaration whose symbol has not been touched yet.
Fresh(f) == \/ Node(f.node).kind = "VAR_DECL" /\ f.pc = "enter"
            \/ Node(f.node).kind = "FUNC_DECL" /\ f.pc \notin InBody

\* No two globals have one name.
OneEach == Alive => ~Redefines(prog.decls)

\* The symbol of a global that is no longer UNDEFINED is that of a declaration
\* whose turn has come.
TurnCame(m) == m \in analyzed /\ \A i \in DOMAIN stack : stack[i].node = m => ~Fresh(stack[i])

Settled ==
  Alive => \A m \in Nodes :
             /\ Global(m) /\ Node(m).name \in DOMAIN scopes[1].sym
             /\ SymbolAt(1, Node(m).name).level \in {Defined, Declared}
             => TurnCame(m)

LEMMA OneGlobal ==
  ASSUME Shape, ~Redefines(prog.decls), NEW m, Global(m), NEW p, Global(p),
         Node(m).name = Node(p).name
  PROVE  m = p
<1>1. PICK d, e \in DOMAIN prog.decls : m = prog.decls[d] /\ p = prog.decls[e]
  BY DEF Global
<1>2. IsDeclaration(m) /\ IsDeclaration(p)
  BY <1>1 DEF Shape, ProgramOK, IsDeclaration, Node
<1> QED BY <1>1, <1>2 DEF Redefines

LEMMA SameNode ==
  ASSUME Shape, HandlerStep, NEW n, n = Len(stack), n \in DOMAIN stack'
  PROVE  stack'[n].node = Top.node /\ (Fresh(stack'[n]) => Fresh(Top))
<1>1. HandlerMove /\ Activation(Top) /\ stack # <<>> /\ stack[n] = Top
  BY TopHolds DEF HandlerStep, Activation
<1>2. ASSUME stack' = Below PROVE FALSE
  BY <1>1, <1>2, Dropped DEF Shape
<1>3. ASSUME NEW f, stack' = Append(Below, f) PROVE stack'[n] = f
  BY <1>1, <1>3, Replaced DEF Shape
<1>4. CASE stack' = stack
  BY <1>1, <1>4
<1>5. CASE \E f : Activation(f) /\ stack' = Append(Below, f)
  <2>1. PICK f : Activation(f) /\ stack' = Append(Below, f)
    BY <1>5
  <2>2. stack'[n] = f /\ f.node = Top.node
    BY <1>3, <2>1 DEF Activation
  <2>3. ASSUME Fresh(f) PROVE Fresh(Top)
    <3>1. CASE This.kind = "VAR_DECL"
      <4>1. VarMove /\ f.pc = "enter"
        BY <1>1, <2>2, <2>3, <3>1
           DEF HandlerMove, PlainMove, IdentMove, FuncMove, BlockMove, Fresh, This
      <4>2. CASE Collides
        BY <1>1, <2>2, <2>3, <4>2 DEF Collides
      <4>3. CASE ~Collides
        <5>1. stack' = Below \/ \E g : g.pc # "enter" /\ stack' = Append(Below, g)
          BY <4>1, <4>3 DEF VarMove, OpensVar, ClosesVar, QuietReturn, QuietStep, Evaluates,
             Stays, Calls, Returns
        <5> QED BY <1>2, <1>3, <2>2, <4>1, <5>1
      <4> QED BY <4>2, <4>3
    <3>2. CASE This.kind = "FUNC_DECL"
      <4>1. FuncMove /\ f.pc \notin InBody
        BY <1>1, <2>2, <2>3, <3>2
           DEF HandlerMove, PlainMove, IdentMove, VarMove, BlockMove, Fresh, This
      <4>2. Top.pc \in InBody => stack' = Below \/ \E g : g.pc \in InBody /\ stack' = Append(Below, g)
        BY <4>1 DEF FuncMove, ClosesFunc, Returns, Evaluates, Stays, Calls
      <4>3. Top.pc \notin InBody
        BY <1>2, <1>3, <2>2, <4>1, <4>2
      <4> QED BY <3>2, <4>3 DEF Fresh, This
    <3>3. This.kind \in {"VAR_DECL", "FUNC_DECL"}
      BY <2>2, <2>3 DEF Fresh, This
    <3> QED BY <3>1, <3>2, <3>3
  <2>4. prog' = prog
    BY MoveOfStack DEF HandlerStep
  <2> QED BY <2>2, <2>3
<1> QED BY <1>2, <1>4, <1>5, MoveOfStack DEF HandlerStep

\* A declaration that works on the global scope is a global.
LEMMA WorksOnGlobals ==
  ASSUME Shape, Callers, BlockScopes, stack # <<>>, IsDeclaration(Top.node),
         Lookup(This.name) = 1 \/ Len(scopes) = 1
  PROVE  Global(Top.node)
<1>1. PICK n \in Nat \ {0} : n = Len(stack) /\ DOMAIN stack = 1 .. n /\ stack[n] = Top
  BY TopHolds
<1>2. Called(stack, n, Top.node)
  BY <1>1 DEF Callers
<1>3. ASSUME n > 1, FromBlock(stack, n, Top.node) PROVE FALSE
  <2>1. n - 1 \in DOMAIN stack /\ Block(stack[n - 1]) /\ Local(stack[n - 1].node, Top.node)
    <3>1. n - 1 \in DOMAIN stack
      BY <1>1, <1>3
    <3>2. Block(stack[n - 1])
      BY <1>3 DEF FromBlock, Block
    <3>3. Local(stack[n - 1].node, Top.node)
      BY <1>3 DEF FromBlock, Local
    <3> QED BY <3>1, <3>2, <3>3
  <2>2. PICK k \in Nat \ {0, 1} :
           \A m : Local(stack[n - 1].node, m) => Anchored(n - 1, k, Node(m).name)
    BY <2>1 DEF BlockScopes
  <2>3. k \in DOMAIN scopes /\ This.name \in DOMAIN scopes[k].sym
    BY <2>1, <2>2, Zenon DEF Anchored, This
  <2>4. PICK m \in Nat : m = Len(scopes) /\ DOMAIN scopes = 1 .. m
    BY LastScope, Zenon DEF Shape
  <2>5. PICK l : l = Lookup(This.name)
    OBVIOUS
  <2>6. k <= l /\ l \in DOMAIN scopes
    BY <2>3, <2>5, LookupFinds DEF Shape
  <2>7. k <= m /\ l \in Nat
    BY <2>3, <2>4, <2>6
  <2> QED BY <2>4, <2>5, <2>6, <2>7
<1> QED BY <1>1, <1>2, <1>3 DEF Called, FromUse

LEMMA GlobalScopeStays ==
  ASSUME Shape, Counted, HandlerStep
  PROVE  1 \in DOMAIN scopes /\ 1 \in DOMAIN scopes' /\ DOMAIN scopes'[1].sym = DOMAIN scopes[1].sym
<1>1. PICK n : n = Len(stack)
  OBVIOUS
<1>2. scopes # <<>> /\ stack # <<>>
  BY ScopesAreOpen DEF HandlerStep
<1>3. Balanced(n)
  BY <1>1, <1>2, StepBalanced
<1>4. PICK m \in Nat \ {0} : m = Len(scopes) /\ DOMAIN scopes = 1 .. m
  BY ScopesAreOpen, LastScope, Zenon DEF HandlerStep, Shape
<1>5. Has(stack, n) => 1 < m
  <2> SUFFICES ASSUME Has(stack, n) PROVE 1 < m
    OBVIOUS
  <2>1. PICK c : c = Cardinality(HoldersIn(stack, 0))
    OBVIOUS
  <2>2. IsFiniteSet(HoldersIn(stack, 0)) /\ c \in Nat
    BY <2>1, StackLength, HoldersAreFinite DEF Shape
  <2>3. n \in HoldersIn(stack, 0)
    BY <1>1, <1>2, TopHolds DEF HoldersIn, Has
  <2>4. c # 0
    BY <2>1, <2>2, <2>3, FS_EmptySet
  <2>5. m >= 1 + c
    BY <1>4, <2>1 DEF Counted, HandlerStep
  <2> QED BY <2>2, <2>4, <2>5
<1>6. 1 \in DOMAIN scopes /\ (1 < Len(scopes) \/ ~Has(stack, n))
  BY <1>4, <1>5
<1> QED BY <1>3, <1>6, Zenon DEF Balanced

\* The symbol of a global changes in two ways: it is closed, or a declaration
\* of its name, whose turn has come, makes it DEFINED or DECLARED.
Touches(x) ==
  /\ Global(Top.node) /\ This.name = x /\ Fresh(Top)
  /\ Len(stack) \in DOMAIN stack' /\ ~Fresh(stack'[Len(stack)])

LEMMA GlobalMoves ==
  ASSUME Shape, Counted, Pointers, Callers, Openness, BlockScopes, HandlerStep,
         NEW x \in DOMAIN scopes[1].sym
  PROVE  \/ scopes'[1].sym[x] = scopes[1].sym[x]
         \/ scopes[1].sym[x].level = Defined
         \/ Touches(x)
<1>1. PICK n : n = Len(stack)
  OBVIOUS
<1>2. scopes # <<>> /\ stack # <<>> /\ Alive
  BY ScopesAreOpen DEF HandlerStep, Alive
<1>3. 1 \in DOMAIN scopes /\ 1 \in DOMAIN scopes'
  BY GlobalScopeStays
<1>4. ASSUME NEW k, NEW y, Untouched(scopes', k, y), ~(k = 1 /\ y = x)
      PROVE  scopes'[1].sym[x] = scopes[1].sym[x]
  BY <1>3, <1>4 DEF Untouched
<1>5. CASE Collides
  BY <1>5 DEF Collides
<1>6. CASE Opens(n)
  <2>1. PICK k : /\ k = Lookup(This.name) /\ Changes(k, This.name, Defined)
                 /\ n \in DOMAIN stack' /\ HeldBy(stack'[n], k, This.name)
    BY <1>6 DEF Opens
  <2>2. CASE k = 1 /\ This.name = x
    <3>1. Global(Top.node)
      BY <1>2, <1>6, <2>1, <2>2, WorksOnGlobals DEF Opens, IsDeclaration, DeclarationKinds, This
    <3>2. Fresh(Top)
      BY <1>6 DEF Opens, Fresh, This
    <3>3. ~Fresh(stack'[n])
      BY <2>1 DEF HeldBy, Fresh
    <3> QED BY <1>1, <2>1, <2>2, <3>1, <3>2, <3>3 DEF Touches
  <2> QED BY <1>4, <2>1, <2>2 DEF Changes
<1>7. CASE Closes(n)
  <2>1. Untouched(scopes', Top.sym, This.name) /\ HeldBy(Top, Top.sym, This.name)
    BY <1>7 DEF Closes, Changes
  <2>2. CASE Top.sym = 1 /\ This.name = x
    <3>1. Occupied(1, x)
      BY <1>1, <1>2, <2>1, <2>2, TopHolds DEF Occupied
    <3> QED BY <1>2, <1>3, <3>1 DEF Openness, SymbolAt
  <2> QED BY <1>4, <2>1, <2>2
<1>8. CASE Declares(n)
  <2>1. Untouched(scopes', Len(scopes), This.name) /\ n \in DOMAIN stack' /\ OpenFunc(stack'[n])
    BY <1>8 DEF Declares, Changes
  <2>2. CASE Len(scopes) = 1 /\ This.name = x
    <3>1. Global(Top.node)
      BY <1>2, <1>8, <2>2, WorksOnGlobals DEF Declares, IsDeclaration, DeclarationKinds, This
    <3>2. Fresh(Top)
      BY <1>8 DEF Declares, Fresh, This
    <3>3. ~Fresh(stack'[n])
      BY <2>1 DEF OpenFunc, Fresh
    <3> QED BY <1>1, <2>1, <2>2, <3>1, <3>2, <3>3 DEF Touches
  <2> QED BY <1>4, <2>1, <2>2
<1>9. CASE Leaves(n)
  <2>1. Untouched(scopes', 0, x)
    BY <1>9 DEF Leaves
  <2> QED BY <1>4, <2>1
<1> QED BY <1>1, <1>2, <1>5, <1>6, <1>7, <1>8, <1>9, SymbolMoves

LEMMA OneEachKept ==
  ASSUME OneEach, Start \/ Enters \/ Idles \/ HandlerStep
  PROVE  OneEach'
<1>1. prog' = prog
  BY MoveOfStack DEF Start, Enters, Idles, HandlerStep
<1>2. ~Redefines(prog.decls) => ~Redefines(prog.decls)'
  <2>1. /\ DOMAIN prog.decls' = DOMAIN prog.decls
        /\ \A i \in DOMAIN prog.decls : prog.decls'[i] = prog.decls[i]
        /\ \A m : IsDeclaration(m)' = IsDeclaration(m) /\ Node(m)' = Node(m)
    BY <1>1 DEF IsDeclaration, Node
  <2> QED BY <2>1, Zenon DEF Redefines
<1>3. CASE Start
  BY <1>2, <1>3 DEF Start, Alive, OneEach
<1>4. CASE ~Start
  <2>1. Alive' => Alive
    BY <1>4, MoveOfStack DEF Enters, Idles, HandlerStep, Alive
  <2> QED BY <1>2, <2>1 DEF OneEach
<1> QED BY <1>3, <1>4

LEMMA SettledLater ==
  ASSUME prog' = prog,
         Alive' => \A m \in Nodes :
           /\ Global(m) /\ Node(m).name \in DOMAIN scopes'[1].sym
           /\ scopes'[1].sym[Node(m).name].level \in {Defined, Declared}
           => m \in analyzed' /\ \A i \in DOMAIN stack' : stack'[i].node = m => ~Fresh(stack'[i])
  PROVE  Settled'
BY DEF Settled, TurnCame, SymbolAt, Global, Node, Nodes, Fresh

LEMMA SettledKept ==
  ASSUME Shape, NoReentry, Counted, Pointers, Callers, Openness, BlockScopes, OneEach, Settled,
         Start \/ Enters \/ Idles \/ HandlerStep
  PROVE  Settled'
<1>1. CASE Start
  <2>1. prog' = prog
    BY <1>1 DEF Start
  <2>2. \A x \in DOMAIN scopes'[1].sym : scopes'[1].sym[x].level = Undefined
    <3>1. prog.decls \in Seq(Nodes)
      BY DEF Shape, ProgramOK, Nodes
    <3>2. scopes'[1].sym = Hoisted(prog.decls, Undefined)
      BY <1>1, StartMakesScopes
    <3> QED BY <3>1, <3>2, HoistedIs DEF Symbol
  <2> QED BY <2>1, <2>2, SettledLater DEF Undefined, Defined, Declared
<1>2. CASE Enters
  <2>1. prog' = prog /\ scopes' = scopes /\ Alive /\ analyzed' = analyzed \cup {ctl.node}
        /\ ctl.node \notin analyzed
    BY <1>2 DEF Enters, Alive
  <2>2. PICK f : f = Frame(ctl.node, ctl.exp)
    OBVIOUS
  <2>3. f.node = ctl.node /\ stack' = Append(stack, f)
    BY <1>2, <2>2, FrameIsOK DEF Shape, Enters
  <2>4. PICK n : n = Len(stack) + 1
    OBVIOUS
  <2>5. /\ DOMAIN stack' = DOMAIN stack \cup {n} /\ stack'[n] = f
        /\ \A i \in DOMAIN stack : stack'[i] = stack[i]
    BY <2>3, <2>4, Entered DEF Shape
  <2>6. ASSUME NEW m \in Nodes, Global(m), Node(m).name \in DOMAIN scopes'[1].sym,
               scopes'[1].sym[Node(m).name].level \in {Defined, Declared}
        PROVE  m \in analyzed' /\ \A i \in DOMAIN stack' : stack'[i].node = m => ~Fresh(stack'[i])
    <3>1. TurnCame(m)
      BY <2>1, <2>6 DEF Settled, SymbolAt
    <3> QED BY <2>1, <2>3, <2>5, <3>1 DEF TurnCame
  <2> QED BY <2>1, <2>6, SettledLater
<1>3. CASE Idles
  <2>1. UNCHANGED <<prog, scopes, stack, analyzed>> /\ (Alive' => Alive)
    BY <1>3 DEF Idles
  <2> QED BY <2>1, SettledLater DEF Settled, TurnCame, SymbolAt
<1>4. CASE HandlerStep
  <2>1. PICK n : n = Len(stack)
    OBVIOUS
  <2>2. scopes # <<>> /\ stack # <<>> /\ Alive
    BY <1>4, ScopesAreOpen DEF HandlerStep, Alive
  <2>3. BelowStays(n) /\ prog' = prog /\ analyzed' = analyzed
    BY <1>4, <2>1, <2>2, StepStaysBelow, MoveOfStack DEF HandlerStep
  <2>4. DOMAIN scopes'[1].sym = DOMAIN scopes[1].sym
    BY <1>4, GlobalScopeStays
  <2>5. n \in DOMAIN stack' => stack'[n].node = Top.node /\ (Fresh(stack'[n]) => Fresh(Top))
    BY <1>4, <2>1, SameNode
  <2>6. ASSUME NEW m \in Nodes, Global(m), Node(m).name \in DOMAIN scopes'[1].sym,
               scopes'[1].sym[Node(m).name].level \in {Defined, Declared}
        PROVE  m \in analyzed' /\ \A i \in DOMAIN stack' : stack'[i].node = m => ~Fresh(stack'[i])
    <3>1. CASE scopes[1].sym[Node(m).name].level \in {Defined, Declared}
      <4>1. TurnCame(m)
        BY <2>2, <2>4, <2>6, <3>1 DEF Settled, SymbolAt
      <4> QED BY <2>3, <2>5, <4>1 DEF TurnCame, BelowStays
    <3>2. CASE Touches(Node(m).name)
      <4>1. m = Top.node
        BY <2>2, <2>6, <3>2, OneGlobal DEF Touches, OneEach, This
      <4>2. m \in analyzed /\ \A i \in DOMAIN stack : stack[i].node = m => i = n
        BY <2>3, <4>1 DEF NoReentry, BelowStays
      <4> QED BY <2>1, <2>3, <3>2, <4>2 DEF Touches, BelowStays
    <3>3. \/ scopes'[1].sym[Node(m).name] = scopes[1].sym[Node(m).name]
          \/ scopes[1].sym[Node(m).name].level = Defined
          \/ Touches(Node(m).name)
      BY <1>4, <2>4, <2>6, GlobalMoves
    <3> QED BY <2>6, <3>1, <3>2, <3>3
  <2> QED BY <2>3, <2>6, SettledLater
<1> QED BY <1>1, <1>2, <1>3, <1>4

\* What is declared stays declared as it is.
LEMMA GlobalsStay ==
  ASSUME Shape, NoReentry, Counted, Pointers, Callers, Openness, BlockScopes, OneEach, Settled,
         Start \/ Enters \/ Idles \/ HandlerStep,
         NEW x \in DOMAIN scopes[1].sym, scopes # <<>>, SymbolAt(1, x).level = Declared
  PROVE  scopes'[1].sym[x] = SymbolAt(1, x)
<1>1. CASE Start
  BY <1>1 DEF Start, Counted
<1>2. CASE Enters \/ Idles
  BY <1>2 DEF Enters, Idles, SymbolAt
<1>3. CASE HandlerStep
  <2>1. \/ scopes'[1].sym[x] = scopes[1].sym[x]
        \/ scopes[1].sym[x].level = Defined
        \/ Touches(x)
    BY <1>3, GlobalMoves
  <2>2. CASE Touches(x)
    <3>1. Len(stack) \in DOMAIN stack /\ stack[Len(stack)] = Top /\ Top.node \in Nodes /\ Alive
      BY <1>3, TopHolds DEF HandlerStep, FrameOK, Alive
    <3>2. TurnCame(Top.node)
      BY <2>2, <3>1 DEF Settled, Touches, This
    <3> QED BY <2>2, <3>1, <3>2 DEF TurnCame, Touches
  <2> QED BY <2>1, <2>2 DEF SymbolAt, Defined, Declared
<1> QED BY <1>1, <1>2, <1>3

(***************************************************************************)
(* Whose symbols the activations work on, while nothing is reported.       *)
(***************************************************************************)
\* A symbol of the global scope is of the global of its name.
GlobalNodes ==
  \A x \in DOMAIN scopes[1].sym :
    Global(scopes[1].sym[x].node) /\ Node(scopes[1].sym[x].node).name = x

\* A block's scope is the innermost but for those opened above it, and has a
\* symbol of each declaration of the block.
OwnScope(i, m) ==
  \E k \in DOMAIN scopes :
    /\ k + Cardinality(HoldersIn(stack, i)) = Len(scopes)
    /\ Node(m).name \in DOMAIN scopes[k].sym /\ scopes[k].sym[Node(m).name].node = m

LocalNodes ==
  \A i \in DOMAIN stack : Block(stack[i]) =>
    \A m : Local(stack[i].node, m) => OwnScope(i, m)

HeldNodes ==
  \A i \in DOMAIN stack : Variable(stack[i]) =>
    scopes[stack[i].sym].sym[Node(stack[i].node).name].node = stack[i].node

\* No local declaration hides a global from its handler when it is analysed at
\* its first use.
Only(new, m) == \A k \in DOMAIN new : Node(m).name \in DOMAIN new[k].sym => k = 1

Pending ==
  /\ stack # <<>> /\ ctl.op = "call" /\ FromUse(stack, Len(stack) + 1, ctl.node) => Only(scopes, ctl.node)
  /\ ctl.op = "go" /\ Len(stack) > 1 /\ Top.pc = "enter" /\ FromUse(stack, Len(stack), Top.node)
       => Only(scopes, Top.node)

Unreported == Alive /\ ~hadError
OwnNodes == Unreported => GlobalNodes /\ LocalNodes /\ HeldNodes /\ Pending

\* The symbol a variable finds is its own.
LEMMA FindsOwn ==
  ASSUME Shape, Counted, Callers, OneEach, GlobalNodes, LocalNodes, Pending, Unreported,
         stack # <<>>, ctl.op = "go", This.kind = "VAR_DECL", Top.pc = "enter",
         NEW k \in DOMAIN scopes, k = Lookup(This.name)
  PROVE  scopes[k].sym[This.name].node = Top.node
<1>1. PICK n \in Nat \ {0} : n = Len(stack) /\ DOMAIN stack = 1 .. n /\ stack[n] = Top
  BY TopHolds, Zenon
<1>2. PICK m \in Nat \ {0} : m = Len(scopes) /\ DOMAIN scopes = 1 .. m
  BY ScopesAreOpen, LastScope, Zenon DEF Shape, Unreported, Alive
<1>3. k \in Nat \ {0} /\ This.name \in DOMAIN scopes[k].sym
      /\ \A j \in DOMAIN scopes : This.name \in DOMAIN scopes[j].sym => j <= k
  BY <1>2, LookupFinds DEF Shape
<1>4. Called(stack, n, Top.node) /\ IsDeclaration(Top.node)
  BY <1>1 DEF Callers, IsDeclaration, DeclarationKinds, This
<1>5. ~HoldsScope(stack[n])
  BY <1>1 DEF HoldsScope, OpenFunc, This
<1>6. ASSUME k = 1, Global(Top.node) PROVE scopes[k].sym[This.name].node = Top.node
  BY <1>3, <1>6, OneGlobal DEF GlobalNodes, OneEach, Unreported, This
<1>7. CASE n = 1 /\ Global(Top.node)
  <2>1. HoldersIn(stack, 0) = {}
    BY <1>1, <1>5, <1>7 DEF HoldersIn
  <2>2. m = 1
    <3>1. Cardinality(HoldersIn(stack, 0)) = 0
      BY <2>1, FS_EmptySet
    <3>2. m = 1 + Cardinality(HoldersIn(stack, 0))
      BY <1>2 DEF Counted, Unreported, Alive
    <3> QED BY <3>1, <3>2
  <2> QED BY <1>2, <1>6, <1>7, <2>2
<1>8. CASE n > 1 /\ FromUse(stack, n, Top.node)
  <2>1. Only(scopes, Top.node) /\ Global(Top.node)
    BY <1>1, <1>8 DEF Pending, FromUse
  <2> QED BY <1>3, <1>6, <2>1 DEF Only, This
<1>9. CASE n > 1 /\ FromBlock(stack, n, Top.node)
  <2>1. n - 1 \in DOMAIN stack /\ Block(stack[n - 1]) /\ Local(stack[n - 1].node, Top.node)
    <3>1. n - 1 \in DOMAIN stack
      BY <1>1, <1>9
    <3>2. Block(stack[n - 1])
      BY <1>9 DEF FromBlock, Block
    <3>3. Local(stack[n - 1].node, Top.node)
      BY <1>4, <1>9 DEF FromBlock, Local
    <3> QED BY <3>1, <3>2, <3>3
  <2>2. PICK j \in DOMAIN scopes :
           /\ j + Cardinality(HoldersIn(stack, n - 1)) = m
           /\ This.name \in DOMAIN scopes[j].sym /\ scopes[j].sym[This.name].node = Top.node
    BY <1>2, <2>1 DEF LocalNodes, OwnScope, This
  <2>3. HoldersIn(stack, n - 1) = {}
    BY <1>1, <1>5 DEF HoldersIn
  <2>4. j + 0 = m
    BY <2>2, <2>3, FS_EmptySet
  <2>5. j <= k /\ k <= m
    BY <1>2, <1>3, <2>2
  <2>6. k = j
    BY <1>2, <1>3, <2>2, <2>4, <2>5
  <2> QED BY <2>2, <2>6
<1> QED BY <1>1, <1>4, <1>7, <1>8, <1>9 DEF Called

\* No handler gives a symbol to another declaration.
LEMMA NodesStay ==
  ASSUME Shape, scopes # <<>>, Pointers, HeldNodes, HandlerStep, Alive',
         NEW k \in DOMAIN scopes, k \in DOMAIN scopes', NEW x \in DOMAIN scopes[k].sym
  PROVE  x \in DOMAIN scopes'[k].sym /\ scopes'[k].sym[x].node = scopes[k].sym[x].node
<1>1. PICK n : n = Len(stack)
  OBVIOUS
<1>2. n \in DOMAIN stack /\ stack[n] = Top
  BY <1>1, TopHolds DEF HandlerStep
<1>3. ASSUME NEW j, NEW y, NEW level, Changes(j, y, level),
             This.kind = "VAR_DECL" /\ Top.pc # "enter" => j = Top.sym /\ y = This.name
      PROVE  x \in DOMAIN scopes'[k].sym /\ scopes'[k].sym[x].node = scopes[k].sym[x].node
  <2>1. x \in DOMAIN scopes'[k].sym /\ (~(k = j /\ x = y) => scopes'[k].sym[x] = scopes[k].sym[x])
    BY <1>3 DEF Changes, Untouched
  <2>2. CASE k = j /\ x = y
    <3>1. OwnNode(scopes'[k].sym[x], k, x)
      BY <1>3, <2>2 DEF Changes
    <3>2. This.kind = "VAR_DECL" /\ Top.pc # "enter" => scopes[k].sym[x].node = Top.node
      BY <1>2, <1>3, <2>2 DEF HeldNodes, Variable, This
    <3> QED BY <2>1, <3>1, <3>2 DEF OwnNode, SymbolAt
  <2> QED BY <2>1, <2>2
<1>4. CASE Opens(n)
  BY <1>3, <1>4 DEF Opens
<1>5. CASE Closes(n)
  BY <1>3, <1>5 DEF Closes
<1>6. CASE Declares(n)
  BY <1>3, <1>6 DEF Declares
<1>7. CASE Leaves(n)
  <2>1. Untouched(scopes', 0, x) /\ k # 0
    BY <1>7, LastScope DEF Leaves, Shape
  <2> QED BY <2>1 DEF Untouched
<1>8. CASE Collides \/ (ctl'.op = "return" /\ IsCrash(ctl'.val))
  BY <1>8 DEF Collides, Alive
<1> QED BY <1>1, <1>4, <1>5, <1>6, <1>7, <1>8, SymbolMoves

LEMMA OwnNodesLater ==
  ASSUME prog' = prog
  PROVE  OwnNodes' <=>
           (Alive' /\ ~hadError' =>
              /\ \A x \in DOMAIN scopes'[1].sym :
                   Global(scopes'[1].sym[x].node) /\ Node(scopes'[1].sym[x].node).name = x
              /\ \A i \in DOMAIN stack' : Block(stack'[i]) =>
                   \A m : Local(stack'[i].node, m) => OwnScope(i, m)'
              /\ \A i \in DOMAIN stack' : Variable(stack'[i]) =>
                   scopes'[stack'[i].sym].sym[Node(stack'[i].node).name].node = stack'[i].node
              /\ Pending')
BY DEF OwnNodes, Unreported, GlobalNodes, LocalNodes, HeldNodes, Block, Local, Variable,
   Global, Node, IsDeclaration

LEMMA PendingLater ==
  ASSUME prog' = prog,
         stack' # <<>> /\ ctl'.op = "call" /\ FromUse(stack', Len(stack') + 1, ctl'.node)
           => Only(scopes', ctl'.node),
         ctl'.op = "go" /\ Len(stack') > 1 /\ stack'[Len(stack')].pc = "enter"
           /\ FromUse(stack', Len(stack'), stack'[Len(stack')].node)
           => Only(scopes', stack'[Len(stack')].node)
  PROVE  Pending'
BY DEF Pending, FromUse, Top, Global, Node, Variable, Only

LEMMA OwnNodesStart ==
  ASSUME Shape, Counted, Start
  PROVE  OwnNodes'
<1>1. prog' = prog /\ stack' = stack /\ stack = <<>> /\ DOMAIN stack' = {} /\ ctl' = ctl
  BY DEF Start, Counted
<1>2. scopes'[1].sym = Hoisted(prog.decls, Undefined) /\ prog.decls \in Seq(Nodes)
  BY StartMakesScopes DEF Shape, ProgramOK, Nodes
<1>3. ASSUME NEW x \in DOMAIN scopes'[1].sym
      PROVE  Global(scopes'[1].sym[x].node) /\ Node(scopes'[1].sym[x].node).name = x
  <2>1. PICK i \in DOMAIN prog.decls :
           /\ Node(prog.decls[i]).name = x
           /\ scopes'[1].sym[x] = Symbol(Undefined, prog.decls[i])
    BY <1>2, <1>3, HoistedIs
  <2> QED BY <2>1 DEF Symbol, Global
<1>4. Pending'
  <2>1. ~(Len(stack') > 1)
    BY <1>1
  <2> QED BY <1>1, <2>1 DEF Pending
<1> QED BY <1>1, <1>3, <1>4, OwnNodesLater

LEMMA OwnNodesIdle ==
  ASSUME OwnNodes, Idles
  PROVE  OwnNodes'
<1>1. UNCHANGED <<prog, scopes, stack, hadError>> /\ (Alive' => Alive)
  BY DEF Idles
<1>2. ASSUME Unreported PROVE GlobalNodes /\ LocalNodes /\ HeldNodes /\ Pending
  BY <1>2 DEF OwnNodes
<1>3. ASSUME Pending PROVE Pending'
  <2>1. ctl'.op = "call" /\ stack # <<>> => ctl' = ctl
    BY DEF Idles
  <2>2. ctl'.op = "go" => ctl' = ctl
    BY DEF Idles
  <2> QED BY <1>1, <1>3, <2>1, <2>2, PendingLater DEF Pending, Top
<1>4. ASSUME LocalNodes, NEW i \in DOMAIN stack', Block(stack'[i]), NEW m, Local(stack'[i].node, m)
      PROVE  OwnScope(i, m)'
  <2>1. OwnScope(i, m)
    BY <1>1, <1>4 DEF LocalNodes
  <2>2. HoldersIn(stack, i)' = HoldersIn(stack, i)
    BY <1>1 DEF HoldersIn, HoldsScope, OpenFunc, Node
  <2>3. Node(m)' = Node(m)
    BY <1>1 DEF Node
  <2> QED BY <1>1, <2>1, <2>2, <2>3 DEF OwnScope
<1> SUFFICES ASSUME Alive', ~hadError'
             PROVE  /\ \A x \in DOMAIN scopes'[1].sym :
                         Global(scopes'[1].sym[x].node) /\ Node(scopes'[1].sym[x].node).name = x
                    /\ \A i \in DOMAIN stack' : Variable(stack'[i]) =>
                         scopes'[stack'[i].sym].sym[Node(stack'[i].node).name].node = stack'[i].node
                    /\ LocalNodes
                    /\ Pending'
  BY <1>1, <1>4, OwnNodesLater
<1>5. GlobalNodes /\ LocalNodes /\ HeldNodes /\ Pending
  BY <1>1, <1>2 DEF Unreported
<1>6. \A x \in DOMAIN scopes'[1].sym :
        Global(scopes'[1].sym[x].node) /\ Node(scopes'[1].sym[x].node).name = x
  BY <1>1, <1>5 DEF GlobalNodes
<1>7. \A i \in DOMAIN stack' : Variable(stack'[i]) =>
        scopes'[stack'[i].sym].sym[Node(stack'[i].node).name].node = stack'[i].node
  BY <1>1, <1>5 DEF HeldNodes
<1> QED BY <1>3, <1>5, <1>6, <1>7

LEMMA OwnNodesEnter ==
  ASSUME Shape, OwnNodes, Enters
  PROVE  OwnNodes'
<1>1. UNCHANGED <<prog, scopes, hadError>> /\ Alive /\ ctl'.op = "go" /\ ctl.op = "call"
  BY DEF Enters, Alive
<1>2. PICK f : f = Frame(ctl.node, ctl.exp)
  OBVIOUS
<1>3. f.node = ctl.node /\ f.pc = "enter" /\ stack' = Append(stack, f)
  BY <1>2, FrameIsOK, Zenon DEF Shape, Enters
<1>4. PICK n \in Nat : n = Len(stack) /\ DOMAIN stack = 1 .. n
  BY StackLength, Zenon DEF Shape
<1>5. /\ DOMAIN stack' = DOMAIN stack \cup {n + 1} /\ stack'[n + 1] = f /\ Len(stack') = n + 1
      /\ \A i \in DOMAIN stack : stack'[i] = stack[i]
      /\ \A i : HoldersIn(stack', i) = HoldersIn(stack, i)
  BY <1>3, <1>4, Entered, EnteringHoldsNothing DEF Shape
<1>6. ASSUME NEW i, NEW m, OwnScope(i, m) PROVE OwnScope(i, m)'
  <2>1. HoldersIn(stack, i)' = HoldersIn(stack, i)
    BY <1>1, <1>5, HoldersLater
  <2> QED BY <1>1, <1>6, <2>1 DEF OwnScope, Node
<1>7. ASSUME Pending PROVE Pending'
  <2>1. ASSUME Len(stack') > 1, FromUse(stack', n + 1, f.node) PROVE Only(scopes', f.node)
    <3>1. n > 0 /\ n \in DOMAIN stack /\ (n + 1) - 1 = n /\ stack # <<>>
      BY <1>4, <1>5, <2>1
    <3>2. \A j \in 1 .. n : stack'[j] = stack[j]
      BY <1>4, <1>5
    <3>3. FromUse(stack, n + 1, ctl.node)
      BY <1>3, <2>1, <3>1, <3>2 DEF FromUse
    <3>4. Only(scopes, ctl.node)
      BY <1>1, <1>4, <1>7, <3>1, <3>3 DEF Pending
    <3> QED BY <1>1, <1>3, <3>4
  <2> QED BY <1>1, <1>5, <2>1, PendingLater
<1>8. ASSUME Unreported
      PROVE  /\ \A i \in DOMAIN stack' : Block(stack'[i]) =>
                  \A m : Local(stack'[i].node, m) => OwnScope(i, m)'
             /\ \A i \in DOMAIN stack' : Variable(stack'[i]) =>
                  scopes'[stack'[i].sym].sym[Node(stack'[i].node).name].node = stack'[i].node
  <2>1. \A i \in DOMAIN stack' : Block(stack'[i]) \/ Variable(stack'[i]) => i \in DOMAIN stack
    BY <1>3, <1>5 DEF Block, Variable
  <2>2. LocalNodes /\ HeldNodes
    BY <1>8 DEF OwnNodes
  <2>3. ASSUME NEW i \in DOMAIN stack', Block(stack'[i]), NEW m, Local(stack'[i].node, m)
        PROVE  OwnScope(i, m)'
    <3>1. OwnScope(i, m)
      BY <1>5, <2>1, <2>2, <2>3 DEF LocalNodes
    <3> QED BY <1>6, <3>1
  <2>4. \A i \in DOMAIN stack' : Variable(stack'[i]) =>
          scopes'[stack'[i].sym].sym[Node(stack'[i].node).name].node = stack'[i].node
    BY <1>1, <1>5, <2>1, <2>2 DEF HeldNodes
  <2> QED BY <2>3, <2>4
<1> QED BY <1>1, <1>7, <1>8, OwnNodesLater DEF OwnNodes, Unreported, GlobalNodes

LEMMA HoistedOwn ==
  ASSUME Shape, NEW n \in Nodes, ~Redefines(Node(n).kids), NEW m, Local(n, m), NEW level
  PROVE  Hoisted(Node(n).kids, level)[Node(m).name].node = m
<1>1. PICK j \in DOMAIN Node(n).kids : m = Node(n).kids[j] /\ IsDeclaration(m)
  BY DEF Local
<1>2. PICK kids : kids = Node(n).kids
  OBVIOUS
<1>3. kids \in Seq(Nodes \cup {0})
  BY <1>2 DEF Shape, ProgramOK, NodeOK, Nodes, Node
<1>4. PICK x : x = Node(m).name
  OBVIOUS
<1>5. x \in DOMAIN Hoisted(kids, level)
  BY <1>2, <1>4, HoistedNames
<1>6. PICK i \in DOMAIN kids :
         /\ IsDeclaration(kids[i]) /\ Node(kids[i]).name = x
         /\ Hoisted(kids, level)[x] = Symbol(level, kids[i])
  BY <1>3, <1>5, HoistedIs
<1>7. i = j
  BY <1>1, <1>2, <1>4, <1>6 DEF Redefines
<1> QED BY <1>1, <1>2, <1>4, <1>6, <1>7 DEF Symbol

\* What is called for, and has just been entered, after a handler.
LEMMA PendingStep ==
  ASSUME Shape, scopes # <<>>, HandlerStep, Alive'
  PROVE  Pending'
<1>1. PICK n : n = Len(stack)
  OBVIOUS
<1>2. prog' = prog /\ n \in DOMAIN stack /\ stack[n] = Top /\ stack # <<>>
  BY <1>1, TopHolds, MoveOfStack DEF HandlerStep
<1>3. ASSUME NEW m, Global(m) PROVE IsDeclaration(m)
  BY <1>3 DEF Shape, ProgramOK, Global, IsDeclaration, Node
<1>4. ASSUME ctl'.op = "call", FromUse(stack', Len(stack') + 1, ctl'.node)
      PROVE  Only(scopes', ctl'.node)
  <2>1. PICK f : /\ Activation(f) /\ stack' = Append(Below, f)
                 /\ \/ ~IsDeclaration(ctl'.node)
                    \/ f.pc = "lazy" /\ IdentMove /\ \E k : LazyUse(k)
                    \/ /\ f.pc # "enter" /\ This.kind = "BLOCK"
                       /\ \E j \in DOMAIN This.kids : ctl'.node = Kid(j)
    BY <1>4, HandlerCalls
  <2>2. n \in DOMAIN stack' /\ stack'[n] = f /\ Len(stack') = n /\ f.node = Top.node
    BY <1>1, <1>2, <2>1, Replaced DEF Shape, Activation
  <2>3. (n + 1) - 1 = n
    BY <1>1, StackLength DEF Shape
  <2>4. This.kind = "IDENT" /\ This.name = Node(ctl'.node).name /\ IsDeclaration(ctl'.node)
    BY <1>3, <1>4, <2>2, <2>3 DEF FromUse, This
  <2>5. PICK k : LazyUse(k)
    BY <2>1, <2>4
  <2>6. k = Lookup(This.name) /\ k # 0 /\ SymbolAt(k, This.name).level = Undefined /\ scopes' = scopes
    BY <2>5 DEF LazyUse, Quiet
  <2>7. /\ k \in DOMAIN scopes /\ This.name \in DOMAIN scopes[k].sym
        /\ \A j \in DOMAIN scopes : This.name \in DOMAIN scopes[j].sym => j <= k
    BY <2>6, LookupFinds DEF Shape
  <2>8. k = 1
    BY <2>6, <2>7, Zenon DEF Shape, ScopesOK, SymbolOK
  <2>9. PICK m \in Nat : DOMAIN scopes = 1 .. m
    BY LastScope DEF Shape
  <2>10. ASSUME NEW j \in DOMAIN scopes, This.name \in DOMAIN scopes[j].sym PROVE j = 1
    BY <2>7, <2>8, <2>9, <2>10
  <2> QED BY <2>4, <2>6, <2>10 DEF Only
<1>5. ASSUME ctl'.op = "go", stack'[Len(stack')].pc = "enter",
             FromUse(stack', Len(stack'), stack'[Len(stack')].node)
      PROVE  FALSE
  <2>1. ~Collides
    BY DEF Collides, Alive
  <2>2. PICK f : Activation(f) /\ stack' = Append(Below, f) /\ Stays(f)
    <3>1. ~Returns /\ \A g, m : ~Calls(g, m)
      BY <1>5 DEF Returns, Calls
    <3>2. \E f : Activation(f) /\ Stays(f)
      BY <2>1, <3>1 DEF HandlerStep, HandlerMove, PlainMove, QuietMove, IdentMove, LazyUse, VarMove, OpensVar,
         ClosesVar, FuncMove, OpensFunc, ClosesFunc, BlockMove, OpensBlock, ClosesBlock,
         QuietReturn, QuietStep, Evaluates
    <3> QED BY <3>2 DEF Stays
  <2>3. n \in DOMAIN stack' /\ stack'[n] = f /\ Len(stack') = n /\ f.node = Top.node
    BY <1>1, <1>2, <2>2, Replaced DEF Shape, Activation
  <2>4. This.kind \in DeclarationKinds /\ f.pc = "enter"
    BY <1>3, <1>5, <2>3 DEF FromUse, IsDeclaration, This
  <2>5. VarMove \/ FuncMove
    BY <2>4 DEF HandlerStep, HandlerMove, PlainMove, IdentMove, BlockMove, DeclarationKinds
  <2>6. ASSUME NEW g, stack' = Append(Below, g) PROVE g = f
    BY <1>1, <1>2, <2>3, <2>6, Replaced DEF Shape
  <2>7. ~Returns
    BY <1>5 DEF Returns
  <2>8. CASE VarMove
    <3>1. \E g : g.pc # "enter" /\ stack' = Append(Below, g)
      BY <2>1, <2>7, <2>8 DEF VarMove, OpensVar, ClosesVar, QuietReturn, QuietStep, Evaluates, Stays, Calls
    <3> QED BY <2>4, <2>6, <3>1
  <2>9. CASE FuncMove
    <3>1. \E g : g.pc # "enter" /\ stack' = Append(Below, g)
      <4>1. ASSUME NEW g, g.pc \in InBody \cup {"ret", "next"} PROVE g.pc # "enter"
        BY <4>1 DEF InBody
      <4>2. \E g : g.pc \in InBody \cup {"ret", "next"} /\ stack' = Append(Below, g)
        BY <2>7, <2>9 DEF FuncMove, OpensFunc, ClosesFunc, QuietReturn, QuietStep, Evaluates, Stays, Calls
      <4> QED BY <4>1, <4>2
    <3> QED BY <2>4, <2>6, <3>1
  <2> QED BY <2>5, <2>8, <2>9
<1> QED BY <1>2, <1>4, <1>5, PendingLater

\* The variable the running activation has opened or keeps open.
LEMMA HeldStep ==
  ASSUME Shape, Counted, Pointers, Callers, OneEach, GlobalNodes, LocalNodes, HeldNodes, Pending,
         Unreported, HandlerStep, Alive', NEW n, n = Len(stack), n \in DOMAIN stack',
         Variable(stack'[n])
  PROVE  scopes'[stack'[n].sym].sym[Node(stack'[n].node).name].node = stack'[n].node
<1>1. scopes # <<>> /\ stack # <<>> /\ n \in DOMAIN stack /\ stack[n] = Top
  BY TopHolds, ScopesAreOpen DEF HandlerStep
<1>2. stack'[n].node = Top.node
  BY SameNode
<1>3. PICK k : k = stack'[n].sym
  OBVIOUS
<1>4. HeldBy(stack'[n], k, This.name) /\ This.kind = "VAR_DECL"
  BY <1>2, <1>3 DEF HeldBy, Variable, This
<1> SUFFICES scopes'[k].sym[This.name].node = Top.node
  BY <1>2, <1>3 DEF This
<1>5. CASE Opens(n)
  <2>1. PICK j : /\ j = Lookup(This.name) /\ Changes(j, This.name, Defined)
                 /\ HeldBy(stack'[n], j, This.name) /\ Top.pc = "enter"
    BY <1>5 DEF Opens
  <2>2. k = j
    BY <1>4, <2>1, HeldIsOne
  <2>3. scopes[k].sym[This.name].node = Top.node
    BY <1>1, <1>4, <2>1, <2>2, FindsOwn DEF HandlerStep, Changes
  <2> QED BY <2>1, <2>2, <2>3 DEF Changes, OwnNode, SymbolAt
<1>6. CASE Leaves(n)
  <2>1. HeldBy(Top, k, This.name)
    BY <1>4, <1>6 DEF Leaves
  <2>2. k \in DOMAIN scopes /\ This.name \in DOMAIN scopes[k].sym
        /\ scopes[k].sym[This.name].node = Top.node
    BY <1>1, <2>1, HeldIsThere, Zenon DEF HeldNodes, HeldBy, Variable, This
  <2>3. k \in DOMAIN scopes'
    <3>1. ~Has(stack, n)
      BY <1>1, <1>4 DEF Has, HoldsScope, OpenFunc, This
    <3> QED BY <1>1, <2>2, <3>1, StepBalanced, Zenon DEF Balanced
  <2> QED BY <1>1, <2>2, <2>3, NodesStay
<1>7. CASE Closes(n)
  BY <1>7 DEF Closes
<1>8. CASE Declares(n)
  BY <1>4, <1>8 DEF Declares
<1>9. CASE Collides \/ (ctl'.op = "return" /\ IsCrash(ctl'.val))
  BY <1>9 DEF Collides, Alive
<1> QED BY <1>1, <1>5, <1>6, <1>7, <1>8, <1>9, SymbolMoves

LEMMA OwnScopeStays ==
  ASSUME Shape, scopes # <<>>, Pointers, HeldNodes, HandlerStep, Alive', ~hadError',
         NEW n, n = Len(stack), NEW i \in Nat, i < n, NEW m, OwnScope(i, m)
  PROVE  OwnScope(i, m)'
<1>1. Balanced(n) /\ prog' = prog
  BY StepBalanced, MoveOfStack DEF HandlerStep
<1>2. PICK x : x = Node(m).name /\ x = Node(m).name'
  BY <1>1, Zenon DEF Node
<1>3. PICK p \in Nat : p = Len(scopes) /\ DOMAIN scopes = 1 .. p
  BY LastScope, Zenon DEF Shape
<1>4. PICK c : c = Cardinality(HoldersIn(stack, i))
  OBVIOUS
<1>5. PICK d : d = Cardinality(HoldersIn(stack', i))
  OBVIOUS
<1>6. PICK k \in DOMAIN scopes : k + c = p /\ x \in DOMAIN scopes[k].sym /\ scopes[k].sym[x].node = m
  BY <1>2, <1>3, <1>4 DEF OwnScope
<1>7. /\ c \in Nat /\ d \in Nat
      /\ \/ Len(scopes') = p /\ d = c
         \/ Len(scopes') = p + 1 /\ d = c + 1
         \/ Len(scopes') = p - 1 /\ c = d + 1
  BY <1>1, <1>3, <1>4, <1>5, CountsMove
<1>8. k \in Nat
  BY <1>3, <1>6
<1>9. k + d = Len(scopes')
  BY <1>6, <1>7, <1>8
<1>10. k + c <= p
  BY <1>6, <1>7, <1>8
<1>11. Anchored(i, k, x)
  BY <1>3, <1>4, <1>6, <1>10 DEF Anchored
<1>12. Anchored(i, k, x)'
  BY <1>1, <1>11, AnchorsHold
<1>13. k \in DOMAIN scopes'
  BY <1>12 DEF Anchored
<1>14. x \in DOMAIN scopes'[k].sym /\ scopes'[k].sym[x].node = m
  BY <1>6, <1>13, NodesStay
<1>15. Cardinality(HoldersIn(stack, i))' = d
  BY <1>1, <1>5, HoldersLater
<1> QED BY <1>2, <1>9, <1>13, <1>14, <1>15 DEF OwnScope

\* The scope of a block that has just got it, or keeps it, is the innermost.
LEMMA OwnScopeOfTop ==
  ASSUME Shape, scopes # <<>>, LocalNodes, HandlerStep, NEW n, n = Len(stack), n \in DOMAIN stack',
         Block(stack'[n]), NEW m, Local(stack'[n].node, m)
  PROVE  OwnScope(n, m)'
<1>1. Balanced(n) /\ prog' = prog
  BY StepBalanced, MoveOfStack DEF HandlerStep
<1>2. PICK x : x = Node(m).name /\ x = Node(m).name'
  BY <1>1 DEF Node
<1>3. /\ n \in Nat \ {0} /\ DOMAIN stack = 1 .. n /\ stack[n] = Top /\ n \in DOMAIN stack
      /\ Top.node \in Nodes
  BY TopHolds DEF HandlerStep, FrameOK
<1>4. HoldersIn(stack, n) = {} /\ HoldersIn(stack', n) = {}
  <2>1. DOMAIN stack' \subseteq 1 .. n
    BY <1>1, Zenon DEF Balanced, Alike
  <2>2. \A j \in DOMAIN stack \cup DOMAIN stack' : ~(j > n)
    BY <1>3, <2>1
  <2> QED BY <2>2, Zenon DEF HoldersIn
<1>5. Cardinality(HoldersIn(stack, n)) = 0 /\ Cardinality(HoldersIn(stack, n))' = 0
  <2>1. HoldersIn(stack, n)' = {}
    BY <1>1, <1>4, HoldersLater
  <2> QED BY <1>4, <2>1, FS_EmptySet
<1>6. PICK p \in Nat : p = Len(scopes')
  <2>1. PICK q \in Nat \ {0} : q = Len(scopes)
    <3>1. PICK q \in Nat : q = Len(scopes) /\ DOMAIN scopes = 1 .. q /\ q \in DOMAIN scopes
      BY LastScope DEF Shape
    <3> QED BY <3>1
  <2>2. Len(scopes') = q \/ Len(scopes') = q + 1 \/ Len(scopes') = q - 1
    BY <1>1, <2>1, Zenon DEF Balanced
  <2> QED BY <2>2
<1>7. stack'[n].node = Top.node /\ ((Block(Top) /\ scopes' = scopes) \/ NewBlock)
  BY BlockStays
<1>8. p \in DOMAIN scopes' /\ x \in DOMAIN scopes'[p].sym /\ scopes'[p].sym[x].node = m
  <2>1. CASE Block(Top) /\ scopes' = scopes
    <3>1. OwnScope(n, m)
      BY <1>3, <1>7, <2>1 DEF LocalNodes
    <3>2. PICK k \in DOMAIN scopes :
             k + 0 = p /\ x \in DOMAIN scopes[k].sym /\ scopes[k].sym[x].node = m
      BY <1>2, <1>5, <1>6, <2>1, <3>1 DEF OwnScope
    <3>3. k \in Nat
      BY LastScope DEF Shape
    <3>4. k = p
      BY <3>2, <3>3
    <3> QED BY <2>1, <3>2, <3>4
  <2>2. CASE NewBlock
    <3>1. scopes'[p].sym = Hoisted(Node(Top.node).kids, Ahh) /\ ~Redefines(Node(Top.node).kids)
          /\ p \in DOMAIN scopes'
      BY <1>6, <2>2 DEF NewBlock
    <3>2. Local(Top.node, m)
      BY <1>7
    <3>3. x \in DOMAIN Hoisted(Node(Top.node).kids, Ahh)
      BY <1>2, <3>2, HoistedNames
    <3>4. Hoisted(Node(Top.node).kids, Ahh)[x].node = m
      <4>1. x = Node(m).name
        BY <1>2
      <4>2. Hoisted(Node(Top.node).kids, Ahh)[Node(m).name].node = m
        <5>1. PICK t \in Nodes : t = Top.node
          BY <1>3
        <5>2. ~Redefines(Node(t).kids) /\ Local(t, m)
          BY <3>1, <3>2, <5>1
        <5>3. Hoisted(Node(t).kids, Ahh)[Node(m).name].node = m
          BY <5>2, HoistedOwn
        <5> QED BY <5>1, <5>3
      <4> QED BY <4>1, <4>2
    <3> QED BY <3>1, <3>3, <3>4
  <2> QED BY <1>7, <2>1, <2>2
<1>9. p + 0 = Len(scopes')
  BY <1>6
<1> QED BY <1>2, <1>5, <1>8, <1>9 DEF OwnScope

LEMMA OwnNodesHandled ==
  ASSUME Shape, Counted, Pointers, Callers, OneEach, OwnNodes, HandlerStep
  PROVE  OwnNodes'
<1>1. PICK n : n = Len(stack)
  OBVIOUS
<1>2. scopes # <<>> /\ stack # <<>> /\ Alive
  BY ScopesAreOpen DEF HandlerStep, Alive
<1>3. BelowStays(n) /\ prog' = prog /\ Balanced(n)
  BY <1>1, <1>2, StepStaysBelow, StepBalanced
<1>4. n \in Nat /\ DOMAIN stack = 1 .. n
  BY <1>1, <1>2, TopHolds
<1> SUFFICES ASSUME Alive', ~hadError'
             PROVE  /\ \A x \in DOMAIN scopes'[1].sym :
                         Global(scopes'[1].sym[x].node) /\ Node(scopes'[1].sym[x].node).name = x
                    /\ \A i \in DOMAIN stack' : Block(stack'[i]) =>
                         \A m : Local(stack'[i].node, m) => OwnScope(i, m)'
                    /\ \A i \in DOMAIN stack' : Variable(stack'[i]) =>
                         scopes'[stack'[i].sym].sym[Node(stack'[i].node).name].node = stack'[i].node
                    /\ Pending'
  BY <1>3, OwnNodesLater, Zenon
<1>5. Unreported /\ GlobalNodes /\ LocalNodes /\ HeldNodes /\ Pending
  BY <1>2, <1>3, Zenon DEF OwnNodes, Unreported, Balanced
<1>6. \A x \in DOMAIN scopes'[1].sym :
        Global(scopes'[1].sym[x].node) /\ Node(scopes'[1].sym[x].node).name = x
  <2>1. 1 \in DOMAIN scopes /\ 1 \in DOMAIN scopes' /\ DOMAIN scopes'[1].sym = DOMAIN scopes[1].sym
    BY GlobalScopeStays
  <2>2. \A x \in DOMAIN scopes[1].sym : scopes'[1].sym[x].node = scopes[1].sym[x].node
    BY <1>2, <1>5, <2>1, NodesStay
  <2> QED BY <1>5, <2>1, <2>2 DEF GlobalNodes
<1>7. ASSUME NEW i \in DOMAIN stack', Block(stack'[i]), NEW m, Local(stack'[i].node, m)
      PROVE  OwnScope(i, m)'
  <2>1. CASE i = n
    BY <1>1, <1>2, <1>5, <1>7, <2>1, OwnScopeOfTop
  <2>2. CASE i # n
    <3>1. i \in DOMAIN stack /\ stack'[i] = stack[i] /\ i \in Nat /\ i < n
      BY <1>3, <1>4, <1>7, <2>2 DEF BelowStays
    <3>2. OwnScope(i, m)
      BY <1>5, <1>7, <3>1 DEF LocalNodes
    <3> QED BY <1>1, <1>2, <1>5, <3>1, <3>2, OwnScopeStays
  <2> QED BY <2>1, <2>2
<1>8. ASSUME NEW i \in DOMAIN stack', Variable(stack'[i])
      PROVE  scopes'[stack'[i].sym].sym[Node(stack'[i].node).name].node = stack'[i].node
  <2>1. CASE i = n
    BY <1>1, <1>5, <1>8, <2>1, HeldStep
  <2>2. CASE i # n
    <3>1. i \in DOMAIN stack /\ stack'[i] = stack[i] /\ i \in Nat /\ i < n
      BY <1>3, <1>4, <1>8, <2>2 DEF BelowStays
    <3>2. PICK k, x : k = stack[i].sym /\ x = Node(stack[i].node).name
      OBVIOUS
    <3>3. Anchored(i, k, x) /\ scopes[k].sym[x].node = stack[i].node
      BY <1>5, <1>8, <3>1, <3>2 DEF Pointers, Pointing, Variable, HeldNodes
    <3>4. Anchored(i, k, x)'
      BY <1>3, <3>1, <3>3, AnchorsHold
    <3>5. scopes'[k].sym[x].node = stack[i].node
      BY <1>2, <1>5, <3>3, <3>4, NodesStay DEF Anchored
    <3> QED BY <3>1, <3>2, <3>5
  <2> QED BY <2>1, <2>2
<1>9. Pending'
  BY <1>2, PendingStep
<1> QED BY <1>6, <1>7, <1>8, <1>9

(***************************************************************************)
(* The theorems about scopes.                                              *)
(***************************************************************************)
ScopeInv ==
  /\ Shape /\ NoReentry /\ Counted /\ Pointers /\ SavedTypes
  /\ Callers /\ Openness /\ BlockScopes /\ OneEach /\ Settled /\ OwnNodes

LEMMA ScopeInvInitially == Init => ScopeInv
<1> SUFFICES ASSUME Init PROVE ScopeInv
  OBVIOUS
<1>1. /\ stack = <<>> /\ scopes = <<>> /\ status = "start" /\ retType = NoType
      /\ ctl.op = "return"
  BY DEF Init, Returned, Control
<1>2. {j \in DOMAIN stack : j < Len(stack) + 1 /\ OpenFunc(stack[j])} = {}
  BY <1>1
<1>3. Counted /\ Pointers /\ SavedTypes
  BY <1>1, <1>2 DEF Counted, Pointers, SavedTypes, LastOpen
<1>4. NoReentry /\ Callers /\ BlockScopes
  BY <1>1 DEF NoReentry, Callers, BlockScopes
<1>5. Openness /\ OneEach /\ Settled /\ OwnNodes
  BY <1>1 DEF Openness, OneEach, Settled, OwnNodes, Unreported, Alive
<1> QED BY <1>3, <1>4, <1>5, ShapeInitially DEF ScopeInv

LEMMA ScopeInvKept == ScopeInv /\ [Next]_vars => ScopeInv'
<1> SUFFICES ASSUME ScopeInv, [Next]_vars PROVE ScopeInv'
  OBVIOUS
<1>1. Start \/ Enters \/ Idles \/ HandlerStep
  BY Steps DEF ScopeInv
<1>2. (Shape /\ NoReentry /\ Counted /\ Pointers /\ SavedTypes)'
  BY <1>1, ShapeKept, NoReentryKept, CountedKept, PointersKept, SavedKept DEF ScopeInv
<1>3. (Callers /\ Openness /\ BlockScopes /\ OneEach /\ Settled)'
  BY <1>1, CallersKept, OpennessKept, BlockScopesKept, OneEachKept, SettledKept DEF ScopeInv
<1>4. OwnNodes'
  BY <1>1, OwnNodesStart, OwnNodesIdle, OwnNodesEnter, OwnNodesHandled DEF ScopeInv
<1> QED BY <1>2, <1>3, <1>4 DEF ScopeInv

LEMMA ScopeInvAlways == Spec => []ScopeInv
BY ScopeInvInitially, ScopeInvKept, PTL DEF Spec

\* begin_scope and end_scope pair up across every early return of every
\* handler, in any program: the scopes in force are those of the open blocks
\* and functions, and a block that is given up only ever leaves one more.
THEOREM ScopesMatch == Spec => []ScopesMatchStack
<1>1. ScopeInv => ScopesMatchStack
  <2> SUFFICES ASSUME ScopeInv, Running PROVE ScopesMatchStack
    BY DEF ScopesMatchStack
  <2>1. DOMAIN stack = 1 .. Len(stack) /\ Len(stack) \in Nat
    BY StackLength DEF ScopeInv, Shape
  <2>2. ScopeHolders = HoldersIn(stack, 0)
    <3>1. \A j \in DOMAIN stack : j > 0
      BY <2>1
    <3> QED BY <3>1 DEF ScopeHolders, HoldersIn, HoldsScope, OpenFunc, InBody
  <2> QED BY <2>2 DEF ScopesMatchStack, ScopeInv, Counted, Running
<1> QED BY <1>1, ScopeInvAlways, PTL

\* current_return_type is that of the innermost function under analysis, also
\* after nested functions and functions analysed at their first use.
THEOREM ReturnTypeFollows == Spec => []ReturnTypeMatches
<1>1. ScopeInv => ReturnTypeMatches
  <2> SUFFICES ASSUME ScopeInv, Running PROVE ReturnTypeMatches
    BY DEF ReturnTypeMatches
  <2>1. DOMAIN stack = 1 .. Len(stack) /\ Len(stack) \in Nat
    BY StackLength DEF ScopeInv, Shape
  <2>2. OpenFunctions = {j \in DOMAIN stack : j < Len(stack) + 1 /\ OpenFunc(stack[j])}
    <3>1. \A j \in DOMAIN stack : j < Len(stack) + 1
      BY <2>1
    <3> QED BY <3>1 DEF OpenFunctions, OpenFunc, InBody
  <2> QED BY <2>2 DEF ReturnTypeMatches, ScopeInv, SavedTypes, LastOpen
<1> QED BY <1>1, ScopeInvAlways, PTL

\* No symbol is put into a scope, and no scope is dropped, while an activation
\* holds a pointer into it: a pointer analyze_var_decl or find_local_first
\* keeps across a recursive call is good when the call comes back.
THEOREM PointersStayGood == Spec => SymbolsStayPut
<1>1. ScopeInv /\ [Next]_vars =>
        [\A k \in DOMAIN scopes : (\E i \in DOMAIN stack : PointsInto(i, k)) =>
           k \in DOMAIN scopes' /\ DOMAIN scopes'[k].sym = DOMAIN scopes[k].sym]_vars
  BY Steps, SymbolsStay DEF ScopeInv
<1> QED BY <1>1, ScopeInvAlways, PTL DEF SymbolsStayPut, Spec

\* A symbol reads as "being initialised" exactly while one activation of its
\* declaration is under way, whichever way declarations are reached: the
\* recursion check neither misses a recursion nor sees one that is not there.
THEOREM OpenIffDefined == Spec => []DefinedIffOpen
<1>1. ScopeInv => DefinedIffOpen
  <2> SUFFICES ASSUME ScopeInv, Running,
                      NEW k \in DOMAIN scopes, NEW x \in DOMAIN scopes[k].sym
               PROVE  Cardinality(Holders(k, x)) = IF SymbolAt(k, x).level = Defined THEN 1 ELSE 0
    BY DEF DefinedIffOpen
  <2>1. Holders(k, x) = {i \in DOMAIN stack : HeldBy(stack[i], k, x)}
    BY DEF Holders, HeldBy
  <2>2. /\ SymbolAt(k, x).level = Defined <=> \E i \in DOMAIN stack : HeldBy(stack[i], k, x)
        /\ \A i, j \in DOMAIN stack : HeldBy(stack[i], k, x) /\ HeldBy(stack[j], k, x) => i = j
    BY DEF ScopeInv, Openness, Occupied, Running, Alive
  <2>3. CASE SymbolAt(k, x).level = Defined
    <3>1. PICK i \in DOMAIN stack : HeldBy(stack[i], k, x)
      BY <2>2, <2>3
    <3>2. Holders(k, x) = {i}
      BY <2>1, <2>2, <3>1
    <3> QED BY <2>3, <3>2, FS_Singleton
  <2>4. CASE SymbolAt(k, x).level # Defined
    <3>1. Holders(k, x) = {}
      BY <2>1, <2>2, <2>4
    <3> QED BY <2>4, <3>1, FS_EmptySet
  <2> QED BY <2>3, <2>4
<1> QED BY <1>1, ScopeInvAlways, PTL

\* The type and value of a global are never overwritten once it is declared:
\* not by a declaration of its name in a block, by a function that is analysed
\* where it is used first, or by a parameter that finds a leaked scope.
THEOREM GlobalsAreSettled == Spec => GlobalsSettle
<1>1. ScopeInv /\ [Next]_vars =>
        [\A x \in IF scopes = <<>> THEN {} ELSE DOMAIN scopes[1].sym :
           SymbolAt(1, x).level = Declared => scopes'[1].sym[x] = SymbolAt(1, x)]_vars
  BY Steps, GlobalsStay DEF ScopeInv
<1> QED BY <1>1, ScopeInvAlways, PTL DEF GlobalsSettle, Spec

\* The symbol analyze_var_decl keeps a pointer to is in a live scope, and as
\* long as nothing is reported it is the symbol of that very declaration.
THEOREM OwnSymbolHeld == Spec => []HoldsOwnSymbol
<1>1. ScopeInv => HoldsOwnSymbol
  <2> SUFFICES ASSUME ScopeInv, Running, NEW i \in DOMAIN stack,
                      Node(stack[i].node).kind = "VAR_DECL", stack[i].pc # "enter"
               PROVE  /\ stack[i].sym \in DOMAIN scopes
                      /\ Node(stack[i].node).name \in DOMAIN scopes[stack[i].sym].sym
                      /\ ~hadError => SymbolAt(stack[i].sym, Node(stack[i].node).name).node
                                         = stack[i].node
    BY DEF HoldsOwnSymbol
  <2>1. Anchored(i, stack[i].sym, Node(stack[i].node).name)
    BY DEF ScopeInv, Pointers, Pointing
  <2>2. ~hadError => SymbolAt(stack[i].sym, Node(stack[i].node).name).node = stack[i].node
    BY DEF ScopeInv, OwnNodes, Unreported, Running, Alive, HeldNodes, Variable, SymbolAt
  <2> QED BY <2>1, <2>2 DEF Anchored
<1> QED BY <1>1, ScopeInvAlways, PTL

(***************************************************************************)
(* What the handlers do to had_error and to the nodes that become values.  *)
(***************************************************************************)
\* A report is never taken back, and no declaration becomes a value.
Writes ==
  /\ hadError' = hadError \/ hadError' \in BOOLEAN
  /\ \/ folded' = folded
     \/ \E m, v : m \in Nodes /\ ~IsDeclaration(m) /\ folded' = [folded EXCEPT ![m] = v]

LEMMA VisitWrites == ASSUME NEW f, NEW kid, NEW exp, Visit(f, kid, exp) PROVE Writes
BY DEF Visit, Writes

LEMMA ContinueWrites == ASSUME NEW f, NEW report, Continue(f, report) PROVE Writes
BY DEF Continue, Writes

LEMMA YieldWrites == ASSUME NEW v, Yield(v) PROVE Writes
BY DEF Yield, Writes

LEMMA BailWrites == ASSUME Bail PROVE Writes
BY DEF Bail, Writes

LEMMA InjectWrites ==
  ASSUME Top.node \in Nodes, ~IsDeclaration(Top.node), NEW v, Inject(v)
  PROVE  Writes
BY YieldWrites DEF Inject, Writes

LEMMA NewTypeWrites ==
  ASSUME Top.node \in Nodes, ~IsDeclaration(Top.node), NEW info, NEW v, InjectNewType(info, v)
  PROVE  Writes
BY DEF InjectNewType, Writes

\* A handler of expressions, by the pieces it is made of.
LEMMA ExpressionWrites ==
  ASSUME Ready, ~IsDeclaration(Top.node),
         \/ AnalyzeLeaf \/ AnalyzeBinary \/ AnalyzeUnary \/ AnalyzeGrouping \/ AnalyzeDistinct
         \/ AnalyzeCast \/ AnalyzeAccess \/ AnalyzeReturn
  PROVE  Writes
<1>1. Top.node \in Nodes
  BY DEF Ready, FrameOK
<1>2. CASE AnalyzeIntegerLit \/ AnalyzeFloatLit \/ AnalyzeStringLit
  BY <1>1, <1>2, InjectWrites DEF AnalyzeIntegerLit, AnalyzeFloatLit, AnalyzeStringLit
<1>3. CASE AnalyzeIdent
  <2>1. ASSUME NEW s, UseSymbol(s) PROVE Writes
    BY <1>1, <2>1, BailWrites, YieldWrites, InjectWrites DEF UseSymbol
  <2>2. ASSUME UndefinedName PROVE Writes
    BY <2>2 DEF UndefinedName, Writes
  <2>3. ASSUME RecursiveUse PROVE Writes
    BY <1>1, <2>3 DEF RecursiveUse, Writes
  <2> QED BY <1>3, <2>1, <2>2, <2>3, VisitWrites DEF AnalyzeIdent
<1>4. CASE \E kind \in {"INT_BITS", "UINT_BITS"} : AnalyzeBits(kind)
  BY <1>1, <1>4, InjectWrites, BailWrites DEF AnalyzeBits
<1>5. CASE \E kind \in TypeKeywords : AnalyzeTypeKeyword(kind)
  BY <1>1, <1>5, InjectWrites DEF AnalyzeTypeKeyword
<1>6. CASE AnalyzeBinary
  BY <1>1, <1>6, VisitWrites, YieldWrites, BailWrites, InjectWrites
     DEF AnalyzeBinary, FoldArith, RuntimeBinary
<1>7. CASE AnalyzeUnary
  BY <1>1, <1>7, VisitWrites, YieldWrites, BailWrites, InjectWrites DEF AnalyzeUnary
<1>8. CASE AnalyzeGrouping
  BY <1>1, <1>8, VisitWrites, YieldWrites, BailWrites, InjectWrites DEF AnalyzeGrouping
<1>9. CASE AnalyzeDistinct
  BY <1>1, <1>9, VisitWrites, YieldWrites, BailWrites, NewTypeWrites DEF AnalyzeDistinct
<1>10. CASE AnalyzeCast
  BY <1>1, <1>10, VisitWrites, YieldWrites, BailWrites DEF AnalyzeCast, CastOperand
<1>11. CASE AnalyzeAccess
  BY <1>1, <1>11, VisitWrites, YieldWrites, BailWrites, InjectWrites DEF AnalyzeAccess
<1>12. CASE AnalyzeReturn
  BY <1>1, <1>12, VisitWrites, YieldWrites, BailWrites, InjectWrites DEF AnalyzeReturn
<1> QED BY <1>2, <1>3, <1>4, <1>5, <1>6, <1>7, <1>8, <1>9, <1>10, <1>11, <1>12 DEF AnalyzeLeaf

LEMMA StructWrites ==
  ASSUME Ready, ~IsDeclaration(Top.node), AnalyzeStructType \/ AnalyzeStructLiteral
  PROVE  Writes
<1>1. Top.node \in Nodes
  BY DEF Ready, FrameOK
<1>2. CASE AnalyzeStructType
  <2>1. ASSUME NEW type, NEW has, NEW default, AddField(type, has, default) PROVE Writes
    BY <2>1, ContinueWrites DEF AddField
  <2>2. ASSUME NEW report, FailField(report) PROVE Writes
    BY <2>2, ContinueWrites DEF FailField
  <2>3. ASSUME NEW type, ReadDefault(type) PROVE Writes
    BY <2>1, <2>2, <2>3, VisitWrites DEF ReadDefault
  <2>4. ASSUME NEW default, FieldDefault(default) PROVE Writes
    BY <2>1, <2>2, <2>4, YieldWrites DEF FieldDefault
  <2> QED BY <1>1, <1>2, <2>2, <2>3, <2>4, VisitWrites, YieldWrites, NewTypeWrites
          DEF AnalyzeStructType
<1>3. CASE AnalyzeStructLiteral
  <2>1. ASSUME NEW t, StartLiteral(t) PROVE Writes
    BY <2>1, ContinueWrites, YieldWrites, BailWrites DEF StartLiteral
  <2>2. ASSUME AnalyzeAutoLiteral PROVE Writes
    BY <1>1, <2>2, ContinueWrites, VisitWrites, YieldWrites, BailWrites, NewTypeWrites
       DEF AnalyzeAutoLiteral
  <2>3. ASSUME NEW i, NEW v, SetLiteralField(i, v) PROVE Writes
    BY <2>3, ContinueWrites DEF SetLiteralField
  <2>4. ASSUME UNCHANGED <<folded, hadError>> PROVE Writes
    BY <2>4 DEF Writes
  <2> QED BY <1>1, <1>3, <2>1, <2>2, <2>3, <2>4, ContinueWrites, VisitWrites, YieldWrites,
             BailWrites, InjectWrites
          DEF AnalyzeStructLiteral
<1> QED BY <1>2, <1>3

\* The argument a call waits for is one it has.
ArgumentOf(f) ==
  Node(f.node).kind = "FUNC_CALL" /\ f.pc = "arg" => f.i < Len(Node(f.node).kids)

LEMMA CallWrites ==
  ASSUME Ready, ArgumentOf(Top), AnalyzeFuncCall
  PROVE  Writes
<1>1. CASE At("FUNC_CALL", "arg") /\ ~IsBad(ctl.val)
  <2>1. Expression(Kid(1 + Top.i))
    BY <1>1, ListedOperands DEF At, ArgumentOf, This
  <2>2. hadError' = hadError
        /\ \/ folded' = folded
           \/ folded' = [folded EXCEPT ![Kid(1 + Top.i)] = ctl.val]
    BY <1>1 DEF AnalyzeFuncCall, At
  <2> QED BY <2>1, <2>2 DEF Writes, Expression
<1>2. CASE ~(At("FUNC_CALL", "arg") /\ ~IsBad(ctl.val))
  BY <1>2, ContinueWrites, VisitWrites, YieldWrites DEF AnalyzeFuncCall
<1> QED BY <1>1, <1>2

LEMMA BlockWrites == ASSUME Ready, AnalyzeBlock PROVE Writes
<1>1. Top.node \in Nodes /\ ~IsDeclaration(Top.node)
  BY DEF Ready, FrameOK, AnalyzeBlock, At, IsDeclaration, DeclarationKinds, This
<1>2. CASE UNCHANGED folded /\ hadError' = (hadError \/ Redefines(This.kids))
  BY <1>2 DEF Writes
<1>3. CASE /\ folded' = IF ComptimeKnown(Top.val) THEN [folded EXCEPT ![Top.node] = Top.val]
                        ELSE folded
           /\ UNCHANGED hadError
  BY <1>1, <1>3 DEF Writes
<1> QED BY <1>2, <1>3, ContinueWrites, VisitWrites DEF AnalyzeBlock

LEMMA VarWrites == ASSUME Ready, AnalyzeVarDecl PROVE Writes
<1>1. This.kind = "VAR_DECL"
  BY DEF AnalyzeVarDecl, At
<1>2. ASSUME OpenVarDecl PROVE Writes
  <2>1. \/ Yield(Crash)
        \/ UNCHANGED folded /\ hadError' = TRUE
        \/ UNCHANGED folded /\ hadError' = (hadError \/ (~HasKid(1) /\ ~HasKid(2)))
    BY <1>2 DEF OpenVarDecl
  <2> QED BY <2>1, YieldWrites DEF Writes
<1>3. ASSUME NEW report, FailVarDecl(report) PROVE Writes
  BY <1>3 DEF FailVarDecl, Writes
<1>4. ASSUME NEW type, NEW v, DeclareVar(type, v) PROVE Writes
  <2>1. HasKid(2) => Kid(2) \in Nodes /\ ~IsDeclaration(Kid(2))
    BY <1>1, Operands DEF Expression
  <2>2. /\ hadError' = hadError
        /\ folded' = folded \/ (HasKid(2) /\ folded' = [folded EXCEPT ![Kid(2)] = v])
    BY <1>4 DEF DeclareVar
  <2> QED BY <2>1, <2>2 DEF Writes
<1>5. ASSUME NEW v, FinishVarDecl(v) PROVE Writes
  BY <1>3, <1>4, <1>5, YieldWrites DEF FinishVarDecl
<1>6. ASSUME UNCHANGED <<folded, hadError>> PROVE Writes
  BY <1>6 DEF Writes
<1> QED BY <1>2, <1>3, <1>5, <1>6, VisitWrites DEF AnalyzeVarDecl

LEMMA FuncWrites == ASSUME Ready, AnalyzeFuncDecl PROVE Writes
<1>1. ASSUME NEW ret, OpenFunction(ret) PROVE Writes
  BY <1>1 DEF OpenFunction, Writes
<1>2. ASSUME NEW type, DeclareParams(type) PROVE Writes
  <2>1. UNCHANGED folded /\ hadError' \in BOOLEAN
    BY <1>2 DEF DeclareParams
  <2> QED BY <2>1 DEF Writes
<1>3. ASSUME NEW report, CloseFunction(report) PROVE Writes
  BY <1>3 DEF CloseFunction, Writes
<1> QED BY <1>1, <1>2, <1>3, ContinueWrites, VisitWrites, YieldWrites, BailWrites
        DEF AnalyzeFuncDecl

LEMMA HandlerWrites ==
  ASSUME Ready, ArgumentOf(Top), AnalyzeExpression \/ AnalyzeVarDecl \/ AnalyzeFuncDecl
  PROVE  Writes
<1>1. CASE AnalyzeVarDecl \/ AnalyzeFuncDecl
  BY <1>1, VarWrites, FuncWrites
<1>2. CASE AnalyzeExpression
  <2>1. ~IsDeclaration(Top.node)
    <3>1. This.kind \notin {"VAR_DECL", "FUNC_DECL"}
      BY <1>2, Zenon DEF AnalyzeExpression, AnalyzeLeaf, At, AtLoop, AnalyzeIntegerLit, AnalyzeFloatLit,
         AnalyzeStringLit, AnalyzeIdent, AnalyzeBits, AnalyzeTypeKeyword, TypeKeywords, TypeOfKeyword,
         AnalyzeBinary, AnalyzeUnary, AnalyzeGrouping, AnalyzeDistinct, AnalyzeCast,
         AnalyzeAccess, AnalyzeStructType, AnalyzeStructLiteral, AnalyzeAutoLiteral,
         AnalyzeFuncCall, AnalyzeBlock, AnalyzeReturn
    <3> QED BY <3>1, Zenon DEF IsDeclaration, DeclarationKinds, This
  <2> QED BY <1>2, <2>1, ExpressionWrites, StructWrites, CallWrites, BlockWrites
          DEF AnalyzeExpression
<1> QED BY <1>1, <1>2

\* Waiting for an argument is a matter of calls only.
LEMMA CallArguments ==
  ASSUME Ready, AnalyzeFuncCall
  PROVE  \/ stack' = Below
         \/ \E f : stack' = Append(Below, f) /\ (f.pc = "arg" => f.i < Len(This.kids))
<1>1. DOMAIN Top = FrameFields
  BY DEF Ready, FrameOK
<1>2. ASSUME NEW f, NEW report, Continue(f, report), DOMAIN f = FrameFields
      PROVE  \E g : stack' = Append(Below, g) /\ g.pc = "next"
  BY <1>2 DEF Continue, Loop, FrameFields
<1>3. CASE At("FUNC_CALL", "enter")
           /\ Visit([Top EXCEPT !.pc = "callee"], Kid(1), NoType)
  BY <1>1, <1>3 DEF Visit, FrameFields
<1>4. CASE At("FUNC_CALL", "callee") /\ Continue([Top EXCEPT !.ty = CallType(ctl.val)], FALSE)
  <2>1. PICK f : f = [Top EXCEPT !.ty = CallType(ctl.val)]
    OBVIOUS
  <2>2. DOMAIN f = FrameFields
    BY <1>1, <2>1
  <2> QED BY <1>2, <1>4, <2>1, <2>2
<1>5. CASE /\ At("FUNC_CALL", "next") /\ Top.i < Len(This.kids)
           /\ Visit([Top EXCEPT !.pc = "arg"], Kid(1 + Top.i), Top.exp)
  <2>1. PICK f : f = [Top EXCEPT !.pc = "arg"]
    OBVIOUS
  <2>2. f.i = Top.i
    BY <1>1, <2>1 DEF FrameFields
  <2> QED BY <1>5, <2>1, <2>2 DEF Visit
<1>6. CASE At("FUNC_CALL", "arg") /\ Loop(NextItem)
  <2>1. PICK f : f = NextItem
    OBVIOUS
  <2>2. DOMAIN f = FrameFields
    BY <1>1, <2>1 DEF NextItem
  <2> QED BY <1>6, <2>1, <2>2 DEF Loop, FrameFields
<1>7. ASSUME NEW v, Yield(v) PROVE stack' = Below
  BY <1>7 DEF Yield, Return
<1> QED BY <1>3, <1>4, <1>5, <1>6, <1>7 DEF AnalyzeFuncCall

Arguments == \A i \in DOMAIN stack : ArgumentOf(stack[i])

LEMMA ArgumentsHandled ==
  ASSUME Shape, Arguments, HandlerStep, AnalyzeExpression \/ AnalyzeVarDecl \/ AnalyzeFuncDecl
  PROVE  Arguments'
<1>1. PICK n : n = Len(stack)
  OBVIOUS
<1>2. UNCHANGED prog /\ stack # <<>> /\ StackOK /\ Ready
  BY MoveOfStack DEF HandlerStep, Shape
<1>3. ASSUME NEW f, stack' = Append(Below, f), ArgumentOf(f) PROVE Arguments'
  <2>1. \A i \in DOMAIN stack' : stack'[i] = f \/ (i \in DOMAIN stack /\ stack'[i] = stack[i])
    BY <1>2, <1>3, Replaced
  <2> QED BY <1>2, <1>3, <2>1 DEF Arguments, ArgumentOf, Node
<1>4. CASE stack' = Below
  BY <1>2, <1>4, Dropped DEF Arguments, ArgumentOf, Node
<1>5. CASE stack' = stack
  BY <1>2, <1>5 DEF Arguments, ArgumentOf, Node
<1>6. CASE This.kind = "FUNC_CALL"
  <2>1. AnalyzeFuncCall
    BY <1>6 DEF AnalyzeExpression, AnalyzeLeaf, At, AtLoop, AnalyzeIntegerLit, AnalyzeFloatLit,
       AnalyzeStringLit, AnalyzeIdent, AnalyzeBits, AnalyzeTypeKeyword, TypeKeywords, TypeOfKeyword,
       AnalyzeBinary, AnalyzeUnary, AnalyzeGrouping, AnalyzeDistinct, AnalyzeCast,
       AnalyzeAccess, AnalyzeStructType, AnalyzeStructLiteral, AnalyzeAutoLiteral,
       AnalyzeBlock, AnalyzeReturn, AnalyzeVarDecl, AnalyzeFuncDecl
  <2>2. CASE stack' # Below
    <3>1. PICK f : stack' = Append(Below, f) /\ (f.pc = "arg" => f.i < Len(This.kids))
      BY <1>2, <2>1, <2>2, CallArguments
    <3>2. f.node = Top.node
      <4>1. n \in DOMAIN stack' /\ stack'[n] = f
        BY <1>1, <1>2, <3>1, Replaced, ReadyHolds
      <4> QED BY <1>1, <4>1, SameNode
    <3>3. ArgumentOf(f)
      BY <3>1, <3>2 DEF ArgumentOf, This
    <3> QED BY <1>3, <3>1, <3>3
  <2> QED BY <1>4, <2>2
<1>7. CASE This.kind # "FUNC_CALL"
  <2>1. ASSUME NEW f, Activation(f) PROVE ArgumentOf(f)
    BY <1>7, <2>1 DEF Activation, ArgumentOf, This
  <2>2. stack' = stack \/ stack' = Below \/ \E f : Activation(f) /\ stack' = Append(Below, f)
    BY <1>2, MoveOfStack DEF HandlerStep
  <2> QED BY <1>3, <1>4, <1>5, <2>1, <2>2
<1> QED BY <1>6, <1>7

(***************************************************************************)
(* What the walk over the declarations has come to.                        *)
(***************************************************************************)
\* Nothing has happened yet.
NotStarted ==
  status = "start" =>
    analyzed = {} /\ hadError = FALSE /\ ctl.op = "return" /\ ~IsCrash(ctl.val)

\* Declarations do not become values, so that each is analysed when it is
\* called for.
Unfolded ==
  /\ DOMAIN folded = Nodes
  /\ \A m \in Nodes : IsDeclaration(m) => folded[m] = None

\* The symbols of the global scope are those of the globals.
Named == status = "running" => DOMAIN scopes[1].sym = GlobalNames

\* The declarations the walk has passed have been analysed, the last one may
\* be about to be.
Passed ==
  \A d \in DOMAIN prog.decls : d < next =>
    \/ prog.decls[d] \in analyzed
    \/ ctl.op = "call" /\ stack = <<>> /\ ctl.node = prog.decls[d]

WalkInv ==
  /\ hadError \in BOOLEAN /\ Arguments
  /\ NotStarted /\ Unfolded /\ Named /\ Passed

\* What a step may be.
LEMMA CloserSteps ==
  ASSUME Shape, Arguments, [Next]_vars
  PROVE  \/ Start \/ NextDeclaration \/ Finish \/ Unreachable \/ ReuseNode \/ UNCHANGED vars
         \/ EnterNode /\ Enters
         \/ /\ HandlerStep /\ Writes
            /\ AnalyzeExpression \/ AnalyzeVarDecl \/ AnalyzeFuncDecl
<1>1. CASE EnterNode
  BY <1>1 DEF EnterNode, Enters, Go, Control
<1>2. CASE AnalyzeExpression \/ AnalyzeVarDecl \/ AnalyzeFuncDecl
  <2>1. HandlerStep
    BY <1>2, HandlerRuns, ReadyHolds, HandlerMoves DEF HandlerStep
  <2>2. Ready /\ ArgumentOf(Top)
    BY <2>1, TopHolds DEF HandlerStep, Arguments
  <2> QED BY <1>2, <2>1, <2>2, HandlerWrites
<1> QED BY <1>1, <1>2 DEF Next, AnalyzeNode, Finished

\* Only overwriting the sentinel ends the analysis in a handler.
LEMMA StatusStays ==
  ASSUME HandlerMove
  PROVE  status' = status \/ Collides
<1>1. CASE PlainMove \/ IdentMove
  BY <1>1 DEF PlainMove, IdentMove, QuietMove, QuietReturn, QuietStep, LazyUse, Quiet, Steady
<1>2. CASE VarMove
  BY <1>2 DEF VarMove, OpensVar, ClosesVar, QuietReturn, QuietStep, Quiet, Steady
<1>3. CASE FuncMove
  BY <1>3 DEF FuncMove, OpensFunc, ClosesFunc, QuietReturn, QuietStep, Quiet, Steady
<1>4. CASE BlockMove
  BY <1>4 DEF BlockMove, OpensBlock, ClosesBlock, Quiet, Steady
<1> QED BY <1>1, <1>2, <1>3, <1>4 DEF HandlerMove

LEMMA WalkInvInitially == Init => WalkInv
<1> SUFFICES ASSUME Init PROVE WalkInv
  OBVIOUS
<1>1. stack = <<>> /\ status = "start" /\ hadError = FALSE /\ analyzed = {} /\ next = 1
  BY DEF Init
<1>2. ctl.op = "return" /\ ~IsCrash(ctl.val)
  BY DEF Init, Returned, Control, Uninit, IsCrash, Val
<1>3. Unfolded
  BY DEF Init, Unfolded, Nodes
<1>4. Passed
  <2>1. prog.decls \in Seq(Nodes)
    BY ShapeInitially DEF Shape, ProgramOK, Nodes
  <2> QED BY <1>1, <2>1 DEF Passed
<1>5. Arguments /\ Named
  BY <1>1 DEF Arguments, Named
<1>6. NotStarted
  BY <1>1, <1>2 DEF NotStarted
<1>7. hadError \in BOOLEAN
  BY <1>1
<1> QED BY <1>3, <1>4, <1>5, <1>6, <1>7 DEF WalkInv

LEMMA WalkInvKept ==
  ASSUME ScopeInv, WalkInv, [Next]_vars
  PROVE  WalkInv'
<1>1. prog' = prog /\ Nodes' = Nodes /\ \A m : IsDeclaration(m)' <=> IsDeclaration(m)
  <2>1. prog' = prog
    BY Steps, MoveOfStack DEF ScopeInv, Start, Enters, Idles, HandlerStep
  <2> QED BY <2>1 DEF Nodes, IsDeclaration, Node
<1>2. (hadError \in BOOLEAN)'
  <2>1. CASE Start
    BY <2>1 DEF Start, Redefines
  <2>2. hadError' = hadError \/ hadError' \in BOOLEAN
    BY <2>1, CloserSteps DEF WalkInv, ScopeInv, NextDeclaration, Finish, Unreachable, ReuseNode,
       vars, EnterNode, Writes
  <2>3. hadError \in BOOLEAN
    BY DEF WalkInv
  <2> QED BY <2>2, <2>3
<1>3. Arguments'
  <2>1. CASE UNCHANGED <<stack, prog>>
    BY <2>1 DEF WalkInv, Arguments, ArgumentOf, Node
  <2>2. CASE Enters
    <3>1. /\ \A i \in DOMAIN stack : stack'[i] = stack[i]
          /\ \A i \in DOMAIN stack' : i \in DOMAIN stack \/ stack'[i].pc = "enter"
      BY <2>2, EnteringHoldsNothing DEF ScopeInv
    <3> QED BY <1>1, <3>1 DEF WalkInv, Arguments, ArgumentOf, Node
  <2> QED BY <1>1, <2>1, <2>2, CloserSteps, ArgumentsHandled
          DEF WalkInv, ScopeInv, Start, NextDeclaration, Finish, Unreachable, ReuseNode, vars
<1>4. NotStarted'
  <2>1. status' = "start" => status = "start" /\ UNCHANGED <<analyzed, hadError, ctl>>
    <3>1. CASE HandlerStep
      <4>1. status' # "start"
        BY <3>1, StatusStays DEF HandlerStep, Collides
      <4> QED BY <4>1
    <3> QED BY <3>1, CloserSteps DEF WalkInv, ScopeInv, Start, NextDeclaration, Finish,
            Unreachable, ReuseNode, Driver, vars, Enters
  <2> QED BY <2>1 DEF WalkInv, NotStarted
<1>5. Unfolded'
  <2>1. \/ folded' = folded
        \/ \E m, v : m \in Nodes /\ ~IsDeclaration(m) /\ folded' = [folded EXCEPT ![m] = v]
    BY CloserSteps DEF WalkInv, ScopeInv, Start, NextDeclaration, Finish, Unreachable,
       ReuseNode, vars, EnterNode, Writes
  <2> QED BY <1>1, <2>1 DEF WalkInv, Unfolded
<1>6. Named'
  <2>1. GlobalNames' = GlobalNames
    BY <1>1 DEF GlobalNames, Node
  <2>2. CASE Start
    <3>1. scopes'[1].sym = Hoisted(prog.decls, Undefined)
      BY <2>2, StartMakesScopes DEF ScopeInv
    <3>2. \A d \in DOMAIN prog.decls : IsDeclaration(prog.decls[d])
      BY DEF ScopeInv, Shape, ProgramOK, IsDeclaration, Node
    <3>3. DOMAIN Hoisted(prog.decls, Undefined) = GlobalNames
      BY <3>2 DEF Hoisted, GlobalNames
    <3> QED BY <2>1, <3>1, <3>3 DEF Named
  <2>3. CASE UNCHANGED scopes /\ (status' = "running" => status = "running")
    BY <2>1, <2>3 DEF WalkInv, Named
  <2>4. CASE HandlerStep
    BY <2>1, <2>4, GlobalScopeStays DEF ScopeInv, WalkInv, Named, HandlerStep
  <2> QED BY <2>2, <2>3, <2>4, CloserSteps
          DEF WalkInv, ScopeInv, NextDeclaration, Finish, Unreachable, ReuseNode, Driver, vars, Enters
<1>7. Passed'
  <2>1. CASE ctl.op # "call" /\ UNCHANGED <<next, analyzed>>
    BY <1>1, <2>1 DEF WalkInv, Passed
  <2>2. CASE UNCHANGED <<next, analyzed, ctl, stack>>
    BY <1>1, <2>2 DEF WalkInv, Passed
  <2>3. CASE NextDeclaration
    <3>1. next \in Nat /\ next' = next + 1 /\ prog.decls \in Seq(Nodes)
      BY <2>3 DEF NextDeclaration, ScopeInv, Shape, ProgramOK, Nodes
    <3>2. \A d \in DOMAIN prog.decls : d < next' => d < next \/ d = next
      BY <3>1
    <3>3. ctl'.op = "call" /\ ctl'.node = prog.decls[next] /\ stack' = <<>>
          /\ analyzed' = analyzed /\ ctl.op = "return"
      BY <2>3 DEF NextDeclaration, Call, Control
    <3> QED BY <1>1, <3>2, <3>3 DEF WalkInv, Passed
  <2>4. CASE ReuseNode
    <3>1. IsDeclaration(ctl.node) => ctl.node \in analyzed
      BY <2>4 DEF ReuseNode, WalkInv, Unfolded, ScopeInv, Shape
    <3>2. \A d \in DOMAIN prog.decls : IsDeclaration(prog.decls[d])
      BY DEF ScopeInv, Shape, ProgramOK, IsDeclaration, Node
    <3>3. analyzed' = analyzed /\ next' = next
      BY <2>4 DEF ReuseNode, Driver
    <3> QED BY <1>1, <3>1, <3>2, <3>3 DEF WalkInv, Passed
  <2>5. CASE Enters
    BY <1>1, <2>5 DEF Enters, WalkInv, Passed
  <2>6. CASE HandlerStep
    BY <2>1, <2>6, MoveOfStack DEF HandlerStep
  <2> QED BY <2>1, <2>2, <2>3, <2>4, <2>5, <2>6, CloserSteps
          DEF WalkInv, ScopeInv, Start, Finish, Unreachable, vars
<1> QED BY <1>2, <1>3, <1>4, <1>5, <1>6, <1>7 DEF WalkInv

(***************************************************************************)
(* The steps of the abstract declarations.                                 *)
(***************************************************************************)
\* The globals that are being initialised, each with those opened inside it.
Within(s) ==
  {p \in GlobalNames \X GlobalNames :
     \E i, j \in DOMAIN s : i < j /\ HeldBy(s[i], 1, p[1]) /\ HeldBy(s[j], 1, p[2])}

LEMMA InsideIs ==
  /\ AbstractVerdict # "aborted" => AbstractInside = Within(stack)
  /\ prog' = prog /\ AbstractVerdict' # "aborted" => AbstractInside' = Within(stack')
<1>1. ASSUME AbstractVerdict # "aborted" PROVE AbstractInside = Within(stack)
  <2>1. \A x : Holders(1, x) = {i \in DOMAIN stack : HeldBy(stack[i], 1, x)}
    BY DEF Holders, HeldBy
  <2> QED BY <1>1, <2>1 DEF AbstractInside, Within
<1>2. ASSUME prog' = prog, AbstractVerdict' # "aborted" PROVE AbstractInside' = Within(stack')
  <2>1. \A x : Holders(1, x)' = {i \in DOMAIN stack' : HeldBy(stack'[i], 1, x)}
    BY <1>2 DEF Holders, HeldBy, Node
  <2>2. GlobalNames' = GlobalNames
    BY <1>2 DEF GlobalNames, Node
  <2>3. AbstractInside' = {p \in GlobalNames \X GlobalNames :
                             \E i \in Holders(1, p[1])', j \in Holders(1, p[2])' : i < j}
    BY <1>2, <2>2 DEF AbstractInside
  <2> QED BY <2>1, <2>3 DEF Within
<1> QED BY <1>1, <1>2

\* The level of a global, by its symbol and whether it was given up.
LEMMA LevelIs ==
  ASSUME NEW x \in GlobalNames, scopes # <<>>
  PROVE  AbstractLevel[x] = IF scopes[1].sym[x].level = Defined THEN "open"
                            ELSE IF scopes[1].sym[x].level = Declared THEN "done"
                            ELSE IF GivenUp(x) THEN "given up" ELSE "todo"
BY DEF AbstractLevel, SymbolAt

LEMMA LevelWillBe ==
  ASSUME prog' = prog, NEW x \in GlobalNames, scopes' # <<>>
  PROVE  AbstractLevel'[x] = IF scopes'[1].sym[x].level = Defined THEN "open"
                             ELSE IF scopes'[1].sym[x].level = Declared THEN "done"
                             ELSE IF GivenUp(x)' THEN "given up" ELSE "todo"
<1>1. x \in GlobalNames'
  BY DEF GlobalNames, Node
<1> QED BY <1>1 DEF AbstractLevel, SymbolAt

LEMMA LevelsAre ==
  /\ DOMAIN AbstractLevel = GlobalNames /\ AbstractLevel = [x \in GlobalNames |-> AbstractLevel[x]]
  /\ \A x \in GlobalNames : AbstractLevel[x] \in {"todo", "open", "done", "given up"}
BY DEF AbstractLevel

LEMMA LevelsWillBe ==
  ASSUME prog' = prog
  PROVE  /\ DOMAIN AbstractLevel' = GlobalNames
         /\ AbstractLevel' = [x \in GlobalNames |-> AbstractLevel'[x]]
         /\ \A x \in GlobalNames : AbstractLevel'[x] \in {"todo", "open", "done", "given up"}
<1>1. GlobalNames' = GlobalNames
  BY DEF GlobalNames, Node
<1> QED BY <1>1 DEF AbstractLevel

LEMMA LevelsStay ==
  ASSUME prog' = prog, \A x \in GlobalNames : AbstractLevel'[x] = AbstractLevel[x]
  PROVE  AbstractLevel' = AbstractLevel
BY LevelsAre, LevelsWillBe

\* The level of one global changes.
Moves(x, from, to) ==
  /\ x \in GlobalNames /\ AbstractLevel[x] = from
  /\ AbstractLevel' = [AbstractLevel EXCEPT ![x] = to]

LEMMA LevelMoves ==
  ASSUME prog' = prog, NEW x \in GlobalNames, NEW to, AbstractLevel'[x] = to,
         \A y \in GlobalNames : y # x => AbstractLevel'[y] = AbstractLevel[y]
  PROVE  AbstractLevel' = [AbstractLevel EXCEPT ![x] = to]
<1>1. AbstractLevel' = [y \in GlobalNames |-> IF y = x THEN to ELSE AbstractLevel[y]]
  BY LevelsWillBe
<1> QED BY <1>1, LevelsAre

\* A declaration that leaves the stack is given up, or was evaluated.
LEMMA GivenUpMoves ==
  ASSUME ScopeInv, HandlerStep, NEW n, n = Len(stack), NEW x
  PROVE  GivenUp(x)' <=> \/ GivenUp(x)
                         \/ Global(Top.node) /\ This.name = x /\ n \notin DOMAIN stack'
<1>1. scopes # <<>> /\ BelowStays(n) /\ prog' = prog /\ analyzed' = analyzed
  <2>1. scopes # <<>>
    BY ScopesAreOpen DEF ScopeInv, HandlerStep
  <2> QED BY <2>1, StepStaysBelow, MoveOfStack DEF ScopeInv, HandlerStep
<1>2. n \in DOMAIN stack' => stack'[n].node = Top.node
  BY SameNode DEF ScopeInv
<1>3. GivenUp(x)' <=> \E d \in DOMAIN prog.decls :
                        /\ Node(prog.decls[d]).name = x /\ prog.decls[d] \in analyzed
                        /\ \A i \in DOMAIN stack' : stack'[i].node # prog.decls[d]
  BY <1>1 DEF GivenUp, Node
<1>4. /\ Top.node \in analyzed
      /\ \A i \in DOMAIN stack : i # n => stack[i].node # Top.node
  BY <1>1 DEF ScopeInv, NoReentry, BelowStays
<1>5. ASSUME NEW m PROVE (\A i \in DOMAIN stack' : stack'[i].node # m) <=>
                           \/ \A i \in DOMAIN stack : stack[i].node # m
                           \/ m = Top.node /\ n \notin DOMAIN stack'
  BY <1>1, <1>2, <1>4 DEF BelowStays
<1>6. GivenUp(x)' <=>
        \E d \in DOMAIN prog.decls :
          /\ Node(prog.decls[d]).name = x /\ prog.decls[d] \in analyzed
          /\ \/ \A i \in DOMAIN stack : stack[i].node # prog.decls[d]
             \/ prog.decls[d] = Top.node /\ n \notin DOMAIN stack'
  BY <1>3, <1>5
<1>7. GivenUp(x) <=>
        \E d \in DOMAIN prog.decls :
          /\ Node(prog.decls[d]).name = x /\ prog.decls[d] \in analyzed
          /\ \A i \in DOMAIN stack : stack[i].node # prog.decls[d]
  BY DEF GivenUp
<1>8. Global(Top.node) <=> \E d \in DOMAIN prog.decls : prog.decls[d] = Top.node
  BY DEF Global
<1> QED BY <1>4, <1>6, <1>7, <1>8 DEF This

\* What a handler's step is to the global declarations.
Same ==
  /\ AbstractLevel' = AbstractLevel
  /\ Within(stack') = Within(stack)

Opening(x) ==
  /\ Moves(x, "todo", "open")
  /\ Within(stack') = Within(stack) \cup ({y \in GlobalNames : AbstractLevel[y] = "open"} \X {x})

Closing(x) ==
  /\ Moves(x, "open", "done")
  /\ \A y \in GlobalNames : <<x, y>> \notin Within(stack)
  /\ Within(stack') = Within(stack) \ (GlobalNames \X {x})

Announcing(x) ==
  /\ Moves(x, "todo", "done")
  /\ Within(stack') = Within(stack) /\ hadError' = hadError

GivingUp(x) ==
  /\ Moves(x, "todo", "given up")
  /\ Within(stack') = Within(stack)

\* A handler that leaves the levels of the global symbols alone may give the
\* declaration up.
LEMMA SymbolsSame ==
  ASSUME ScopeInv, WalkInv, HandlerStep, Within(stack') = Within(stack),
         \A x \in GlobalNames : scopes'[1].sym[x].level = scopes[1].sym[x].level
  PROVE  Same \/ GivingUp(This.name)
<1>1. PICK n : n = Len(stack)
  OBVIOUS
<1>2. prog' = prog /\ scopes # <<>> /\ scopes' # <<>>
  <2>1. 1 \in DOMAIN scopes /\ 1 \in DOMAIN scopes'
    BY GlobalScopeStays DEF ScopeInv
  <2> QED BY <2>1, MoveOfStack DEF HandlerStep
<1>3. PICK x : x = This.name
  OBVIOUS
<1>4. ASSUME NEW y \in GlobalNames, GivenUp(y)' <=> GivenUp(y)
      PROVE  AbstractLevel'[y] = AbstractLevel[y]
  BY <1>2, <1>4, LevelIs, LevelWillBe
<1>5. CASE \A y \in GlobalNames : GivenUp(y)' <=> GivenUp(y)
  BY <1>2, <1>4, <1>5, LevelsStay DEF Same
<1>6. CASE ~(\A y \in GlobalNames : GivenUp(y)' <=> GivenUp(y))
  <2>1. \A y \in GlobalNames : y # x => (GivenUp(y)' <=> GivenUp(y))
    BY <1>1, <1>3, GivenUpMoves
  <2>2. x \in GlobalNames /\ GivenUp(x)' /\ ~GivenUp(x)
    BY <1>1, <1>3, <1>6, <2>1, GivenUpMoves
  <2>3. \A y \in GlobalNames : y # x => AbstractLevel'[y] = AbstractLevel[y]
    BY <1>4, <2>1
  <2>4. CASE scopes[1].sym[x].level \in {Defined, Declared}
    <3>1. AbstractLevel'[x] = AbstractLevel[x]
      BY <1>2, <2>2, <2>4, LevelIs, LevelWillBe
    <3> QED BY <1>2, <2>3, <3>1, LevelsStay DEF Same
  <2>5. CASE scopes[1].sym[x].level \notin {Defined, Declared}
    <3>1. AbstractLevel[x] = "todo" /\ AbstractLevel'[x] = "given up"
      BY <1>2, <2>2, <2>5, LevelIs, LevelWillBe
    <3>2. AbstractLevel' = [AbstractLevel EXCEPT ![x] = "given up"]
      BY <1>2, <2>2, <2>3, <3>1, LevelMoves
    <3> QED BY <1>3, <2>2, <3>1, <3>2 DEF GivingUp, Moves
  <2> QED BY <2>4, <2>5
<1> QED BY <1>5, <1>6

\* The symbol of a declaration whose handler has not touched it is UNDEFINED,
\* and the declaration was not given up.
LEMMA FreshIsToDo ==
  ASSUME ScopeInv, WalkInv, Alive, stack # <<>>, Global(Top.node), Fresh(Top), NEW x, x = This.name
  PROVE  x \in GlobalNames /\ AbstractLevel[x] = "todo"
<1>1. PICK n : n = Len(stack)
  OBVIOUS
<1>2. n \in DOMAIN stack /\ stack[n] = Top /\ Top.node \in Nodes
  BY <1>1, TopHolds DEF ScopeInv, FrameOK
<1>3. x \in GlobalNames /\ x = Node(Top.node).name
  BY DEF Global, GlobalNames, This
<1>4. scopes # <<>> /\ x \in DOMAIN scopes[1].sym
  BY <1>3, ScopesAreOpen DEF ScopeInv, WalkInv, Named, Alive
<1>5. scopes[1].sym[x].level \notin {Defined, Declared}
  <2>1. ~TurnCame(Top.node)
    BY <1>2 DEF TurnCame
  <2> QED BY <1>2, <1>3, <1>4, <2>1 DEF ScopeInv, Settled, SymbolAt
<1>6. ~GivenUp(x)
  <2> SUFFICES ASSUME GivenUp(x) PROVE FALSE
    OBVIOUS
  <2>1. PICK d \in DOMAIN prog.decls : /\ Node(prog.decls[d]).name = x
                                       /\ \A i \in DOMAIN stack : stack[i].node # prog.decls[d]
    BY DEF GivenUp
  <2>2. prog.decls[d] = Top.node
    BY <1>3, <2>1, OneGlobal DEF ScopeInv, OneEach, Global
  <2> QED BY <1>2, <2>1, <2>2
<1> QED BY <1>3, <1>4, <1>5, <1>6, LevelIs

\* Which symbols are open is who is at work on them.
LEMMA OpenNames ==
  ASSUME ScopeInv, WalkInv, Alive
  PROVE  {y \in GlobalNames : AbstractLevel[y] = "open"}
           = {y \in GlobalNames : \E i \in DOMAIN stack : HeldBy(stack[i], 1, y)}
<1>1. scopes # <<>> /\ 1 \in DOMAIN scopes
  <2>1. scopes # <<>> /\ Len(scopes) \in Nat \ {0}
    BY ScopesAreOpen DEF ScopeInv, Alive
  <2> QED BY <2>1, LastScope DEF ScopeInv, Shape
<1>2. ASSUME NEW y \in GlobalNames
      PROVE  scopes[1].sym[y].level = Defined <=> \E i \in DOMAIN stack : HeldBy(stack[i], 1, y)
  <2>1. y \in DOMAIN scopes[1].sym
    BY DEF WalkInv, Named, Alive
  <2>2. SymbolAt(1, y).level = Defined <=> Occupied(1, y)
    BY <1>1, <2>1 DEF ScopeInv, Openness
  <2> QED BY <2>2 DEF SymbolAt, Occupied
<1>3. \A y \in GlobalNames : AbstractLevel[y] = "open" <=> scopes[1].sym[y].level = Defined
  BY <1>1, LevelIs
<1> QED BY <1>2, <1>3

\* What the four kinds of moves have in common.
LEMMA MoveHolds ==
  ASSUME ScopeInv, WalkInv, HandlerStep, NEW n, n = Len(stack)
  PROVE  /\ prog' = prog /\ BelowStays(n) /\ scopes # <<>> /\ scopes' # <<>> /\ stack # <<>>
         /\ n \in Nat /\ DOMAIN stack = 1 .. n /\ stack[n] = Top /\ n \in DOMAIN stack
         /\ 1 \in DOMAIN scopes /\ 1 \in DOMAIN scopes'
         /\ DOMAIN scopes[1].sym = GlobalNames /\ Alive
<1>1. 1 \in DOMAIN scopes /\ 1 \in DOMAIN scopes'
  BY GlobalScopeStays DEF ScopeInv
<1>2. scopes # <<>> /\ scopes' # <<>> /\ stack # <<>> /\ Alive /\ prog' = prog
  BY <1>1, MoveOfStack DEF HandlerStep, Alive
<1>3. BelowStays(n)
  BY <1>2, StepStaysBelow DEF ScopeInv
<1>4. n \in Nat /\ DOMAIN stack = 1 .. n /\ stack[n] = Top /\ n \in DOMAIN stack
  BY <1>2, TopHolds DEF ScopeInv
<1>5. DOMAIN scopes[1].sym = GlobalNames
  BY DEF WalkInv, Named, HandlerStep
<1> QED BY <1>1, <1>2, <1>3, <1>4, <1>5

\* A change to one symbol leaves those of the other globals.
LEMMA OthersKeepLevel ==
  ASSUME ScopeInv, WalkInv, HandlerStep, NEW k, NEW x, Untouched(scopes', k, x)
  PROVE  \A y \in GlobalNames : k # 1 \/ y # x => scopes'[1].sym[y] = scopes[1].sym[y]
BY MoveHolds DEF Untouched

\* The pairs stay if the running activation holds no global, before or after.
LEMMA SameWithin ==
  ASSUME ScopeInv, WalkInv, HandlerStep, NEW n, n = Len(stack),
         \A x : n \in DOMAIN stack' /\ HeldBy(stack'[n], 1, x) <=> HeldBy(Top, 1, x)
  PROVE  Within(stack') = Within(stack)
<1>1. BelowStays(n) /\ n \in DOMAIN stack /\ stack[n] = Top
  BY MoveHolds
<1>2. ASSUME NEW i, NEW x
      PROVE  i \in DOMAIN stack' /\ HeldBy(stack'[i], 1, x) <=> i \in DOMAIN stack /\ HeldBy(stack[i], 1, x)
  BY <1>1 DEF BelowStays
<1>3. ASSUME NEW x, NEW y
      PROVE  (\E i, j \in DOMAIN stack' : i < j /\ HeldBy(stack'[i], 1, x) /\ HeldBy(stack'[j], 1, y))
         <=> (\E i, j \in DOMAIN stack : i < j /\ HeldBy(stack[i], 1, x) /\ HeldBy(stack[j], 1, y))
  BY <1>2
<1> QED BY <1>3 DEF Within

LEMMA PairWithin ==
  ASSUME NEW s, NEW y \in GlobalNames, NEW z \in GlobalNames
  PROVE  <<y, z>> \in Within(s) <=>
           \E i, j \in DOMAIN s : i < j /\ HeldBy(s[i], 1, y) /\ HeldBy(s[j], 1, z)
BY DEF Within

LEMMA SamePairs ==
  ASSUME NEW S, NEW A, NEW B, A \subseteq S \X S, B \subseteq S \X S,
         \A y, z \in S : <<y, z>> \in A <=> <<y, z>> \in B
  PROVE  A = B
OBVIOUS

LEMMA WithinIsPairs == \A s : Within(s) \subseteq GlobalNames \X GlobalNames
BY DEF Within

LEMMA OpensIs ==
  ASSUME ScopeInv, WalkInv, HandlerStep, NEW n, n = Len(stack), Opens(n)
  PROVE  Same \/ GivingUp(This.name) \/ Opening(This.name)
<1>1. PICK x : x = This.name
  OBVIOUS
<1>2. PICK k : /\ k = Lookup(x) /\ Changes(k, x, Defined)
               /\ n \in DOMAIN stack' /\ HeldBy(stack'[n], k, x)
  BY <1>1 DEF Opens
<1>3. \A j, y : ~HeldBy(Top, j, y)
  BY DEF Opens, HeldBy
<1>4. CASE k # 1
  <2>1. \A y : ~HeldBy(stack'[n], 1, y)
    BY <1>2, <1>4, HeldIsOne
  <2>2. Within(stack') = Within(stack)
    BY <1>3, <2>1, SameWithin
  <2>3. \A y \in GlobalNames : scopes'[1].sym[y].level = scopes[1].sym[y].level
    BY <1>2, <1>4, OthersKeepLevel DEF Changes
  <2> QED BY <2>2, <2>3, SymbolsSame
<1>5. CASE k = 1
  <2>1. Alive /\ stack # <<>> /\ prog' = prog /\ scopes # <<>> /\ scopes' # <<>> /\ BelowStays(n)
        /\ n \in Nat /\ DOMAIN stack = 1 .. n
    BY MoveHolds
  <2>2. IsDeclaration(Top.node) /\ Fresh(Top)
    BY DEF Opens, IsDeclaration, DeclarationKinds, This, Fresh
  <2>3. Global(Top.node)
    BY <1>1, <1>2, <1>5, <2>1, <2>2, WorksOnGlobals DEF ScopeInv
  <2>4. x \in GlobalNames /\ AbstractLevel[x] = "todo"
    BY <1>1, <2>1, <2>2, <2>3, FreshIsToDo
  <2>5. AbstractLevel'[x] = "open"
    BY <1>2, <1>5, <2>1, <2>4, LevelWillBe DEF Changes
  <2>6. \A y \in GlobalNames : y # x => AbstractLevel'[y] = AbstractLevel[y]
    <3>1. \A y : GivenUp(y)' <=> GivenUp(y)
      BY <1>2, GivenUpMoves
    <3>2. \A y \in GlobalNames : y # x => scopes'[1].sym[y] = scopes[1].sym[y]
      BY <1>2, OthersKeepLevel DEF Changes
    <3> QED BY <2>1, <3>1, <3>2, LevelIs, LevelWillBe
  <2>7. Moves(x, "todo", "open")
    BY <2>1, <2>4, <2>5, <2>6, LevelMoves DEF Moves
  <2>8. Within(stack') = Within(stack) \cup ({y \in GlobalNames : AbstractLevel[y] = "open"} \X {x})
    <3>1. DOMAIN stack' = DOMAIN stack /\ \A i \in DOMAIN stack : i # n => stack'[i] = stack[i]
      BY <1>2, <2>1 DEF BelowStays
    <3>2. \A y : HeldBy(stack'[n], 1, y) <=> y = x
      BY <1>2, <1>5, HeldIsOne
    <3>3. \A y : ~HeldBy(stack[n], 1, y)
      BY <1>3, <2>1 DEF BelowStays
    <3>4. ASSUME NEW y, NEW z
          PROVE  (\E i, j \in DOMAIN stack' : i < j /\ HeldBy(stack'[i], 1, y) /\ HeldBy(stack'[j], 1, z))
             <=> \/ \E i, j \in DOMAIN stack : i < j /\ HeldBy(stack[i], 1, y) /\ HeldBy(stack[j], 1, z)
                 \/ z = x /\ \E i \in DOMAIN stack : HeldBy(stack[i], 1, y)
      <4>1. \A i \in DOMAIN stack : i = n \/ i < n
        BY <2>1
      <4>2. ASSUME NEW i \in DOMAIN stack', NEW j \in DOMAIN stack',
                   i < j, HeldBy(stack'[i], 1, y), HeldBy(stack'[j], 1, z)
            PROVE  \/ i < j /\ HeldBy(stack[i], 1, y) /\ HeldBy(stack[j], 1, z)
                   \/ z = x /\ HeldBy(stack[i], 1, y)
        <5>1. i # n /\ i \in DOMAIN stack /\ j \in DOMAIN stack
          BY <2>1, <3>1, <4>2
        <5> QED BY <3>1, <3>2, <4>2, <5>1
      <4>3. ASSUME NEW i \in DOMAIN stack, NEW j \in DOMAIN stack,
                   i < j, HeldBy(stack[i], 1, y), HeldBy(stack[j], 1, z)
            PROVE  HeldBy(stack'[i], 1, y) /\ HeldBy(stack'[j], 1, z)
        BY <3>1, <3>3, <4>3
      <4>4. ASSUME NEW i \in DOMAIN stack, HeldBy(stack[i], 1, y), z = x
            PROVE  i < n /\ HeldBy(stack'[i], 1, y) /\ HeldBy(stack'[n], 1, z)
        BY <3>1, <3>2, <3>3, <4>1, <4>4
      <4> QED BY <1>2, <3>1, <4>2, <4>3, <4>4
    <3>5. {y \in GlobalNames : AbstractLevel[y] = "open"}
            = {y \in GlobalNames : \E i \in DOMAIN stack : HeldBy(stack[i], 1, y)}
      BY <2>1, OpenNames
    <3>6. PICK O : O = {y \in GlobalNames : AbstractLevel[y] = "open"}
      OBVIOUS
    <3>7. \A y \in GlobalNames : y \in O <=> \E i \in DOMAIN stack : HeldBy(stack[i], 1, y)
      BY <3>5, <3>6
    <3>8. O \X {x} \subseteq GlobalNames \X GlobalNames
      BY <2>4, <3>6
    <3>9. \A y, z \in GlobalNames :
            <<y, z>> \in Within(stack') <=> <<y, z>> \in Within(stack) \cup (O \X {x})
      BY <3>4, <3>7, PairWithin
    <3>10. Within(stack') = Within(stack) \cup (O \X {x})
      BY <3>8, <3>9, SamePairs, WithinIsPairs
    <3> QED BY <3>6, <3>10
  <2> QED BY <1>1, <2>7, <2>8 DEF Opening
<1> QED BY <1>4, <1>5

LEMMA ClosesIs ==
  ASSUME ScopeInv, WalkInv, HandlerStep, NEW n, n = Len(stack), Closes(n)
  PROVE  Same \/ GivingUp(This.name) \/ Closing(This.name)
<1>1. PICK x, k : x = This.name /\ k = Top.sym
  OBVIOUS
<1>2. HeldBy(Top, k, x) /\ Changes(k, x, Declared) /\ n \notin DOMAIN stack'
  BY <1>1 DEF Closes
<1>3. /\ Alive /\ prog' = prog /\ scopes # <<>> /\ scopes' # <<>> /\ BelowStays(n)
      /\ n \in Nat /\ DOMAIN stack = 1 .. n /\ stack[n] = Top /\ n \in DOMAIN stack
      /\ DOMAIN scopes[1].sym = GlobalNames /\ 1 \in DOMAIN scopes
  BY MoveHolds
<1>4. CASE k # 1
  <2>1. \A y : ~HeldBy(Top, 1, y)
    BY <1>2, <1>4, HeldIsOne
  <2>2. Within(stack') = Within(stack)
    BY <1>2, <2>1, SameWithin
  <2>3. \A y \in GlobalNames : scopes'[1].sym[y].level = scopes[1].sym[y].level
    BY <1>2, <1>4, OthersKeepLevel DEF Changes
  <2> QED BY <2>2, <2>3, SymbolsSame
<1>5. CASE k = 1
  <2>1. x \in GlobalNames
    BY <1>2, <1>3, <1>5 DEF Changes
  <2>2. \A i \in DOMAIN stack : HeldBy(stack[i], 1, x) => i = n
    BY <1>2, <1>3, <1>5, <2>1 DEF ScopeInv, Openness
  <2>3. AbstractLevel[x] = "open"
    <3>1. x \in {y \in GlobalNames : \E i \in DOMAIN stack : HeldBy(stack[i], 1, y)}
      BY <1>2, <1>3, <1>5, <2>1
    <3> QED BY <1>3, <3>1, OpenNames
  <2>4. AbstractLevel'[x] = "done"
    <3>1. scopes'[1].sym[x].level = Declared
      BY <1>2, <1>5 DEF Changes
    <3>2. Declared # Defined
      BY DEF Defined, Declared
    <3> QED BY <1>3, <2>1, <3>1, <3>2, LevelWillBe
  <2>5. \A y \in GlobalNames : y # x => AbstractLevel'[y] = AbstractLevel[y]
    <3>1. \A y : y # x => (GivenUp(y)' <=> GivenUp(y))
      BY <1>1, GivenUpMoves
    <3>2. \A y \in GlobalNames : y # x => scopes'[1].sym[y] = scopes[1].sym[y]
      BY <1>2, OthersKeepLevel DEF Changes
    <3>3. ASSUME NEW y \in GlobalNames, y # x PROVE AbstractLevel'[y] = AbstractLevel[y]
      <4>1. (GivenUp(y)' <=> GivenUp(y)) /\ scopes'[1].sym[y].level = scopes[1].sym[y].level
        BY <3>1, <3>2, <3>3
      <4> QED BY <1>3, <4>1, LevelIs, LevelWillBe
    <3> QED BY <3>3
  <2>6. Moves(x, "open", "done")
    BY <1>3, <2>1, <2>3, <2>4, <2>5, LevelMoves DEF Moves
  <2>7. \A y \in GlobalNames : <<x, y>> \notin Within(stack)
    <3>1. \A j \in DOMAIN stack : ~(n < j)
      BY <1>3
    <3> QED BY <2>2, <3>1 DEF Within
  <2>8. Within(stack') = Within(stack) \ (GlobalNames \X {x})
    <3>1. DOMAIN stack' = DOMAIN stack \ {n} /\ \A i \in DOMAIN stack' : stack'[i] = stack[i]
      BY <1>2, <1>3 DEF BelowStays
    <3>2. \A y : HeldBy(stack[n], 1, y) <=> y = x
      BY <1>2, <1>3, <1>5, HeldIsOne
    <3>3. ASSUME NEW y, NEW z
          PROVE  (\E i, j \in DOMAIN stack' : i < j /\ HeldBy(stack'[i], 1, y) /\ HeldBy(stack'[j], 1, z))
             <=> /\ \E i, j \in DOMAIN stack : i < j /\ HeldBy(stack[i], 1, y) /\ HeldBy(stack[j], 1, z)
                 /\ z # x
      <4>1. ASSUME NEW i \in DOMAIN stack', NEW j \in DOMAIN stack',
                   i < j, HeldBy(stack'[i], 1, y), HeldBy(stack'[j], 1, z)
            PROVE  HeldBy(stack[i], 1, y) /\ HeldBy(stack[j], 1, z) /\ z # x
        BY <2>2, <3>1, <4>1
      <4>2. ASSUME NEW i \in DOMAIN stack, NEW j \in DOMAIN stack,
                   i < j, HeldBy(stack[i], 1, y), HeldBy(stack[j], 1, z), z # x
            PROVE  /\ i \in DOMAIN stack' /\ j \in DOMAIN stack'
                   /\ HeldBy(stack'[i], 1, y) /\ HeldBy(stack'[j], 1, z)
        <5>1. j # n /\ i # n
          BY <1>3, <3>2, <4>2
        <5> QED BY <3>1, <4>2, <5>1
      <4> QED BY <3>1, <4>1, <4>2
    <3>4. \A y, z \in GlobalNames :
            <<y, z>> \in Within(stack') <=> <<y, z>> \in Within(stack) \ (GlobalNames \X {x})
      BY <3>3, PairWithin
    <3> QED BY <3>4, SamePairs, WithinIsPairs
  <2> QED BY <1>1, <2>6, <2>7, <2>8 DEF Closing
<1> QED BY <1>4, <1>5

\* A function that gets its type reports nothing.
LEMMA DeclaresQuietly ==
  ASSUME ScopeInv, HandlerStep, NEW n, n = Len(stack), Declares(n)
  PROVE  hadError' = hadError
<1>1. FuncMove
  BY DEF HandlerStep, HandlerMove, PlainMove, IdentMove, VarMove, BlockMove, Declares
<1>2. CASE OpensFunc
  BY <1>2 DEF OpensFunc
<1>3. CASE QuietReturn
  <2>1. n \notin DOMAIN stack'
    BY <1>3, Dropped DEF QuietReturn, Returns, ScopeInv, Shape, HandlerStep
  <2> QED BY <2>1 DEF Declares
<1>4. ASSUME NEW f, f.pc = "ret", QuietStep(f) PROVE FALSE
  <2>1. stack' = Append(Below, f)
    BY <1>4 DEF QuietStep, Evaluates, Stays, Calls
  <2>2. stack'[n] = f
    BY <2>1, Replaced DEF ScopeInv, Shape, HandlerStep
  <2> QED BY <1>4, <2>2 DEF Declares, OpenFunc, InBody
<1> QED BY <1>1, <1>2, <1>3, <1>4 DEF FuncMove, Declares

LEMMA DeclaresIs ==
  ASSUME ScopeInv, WalkInv, HandlerStep, NEW n, n = Len(stack), Declares(n)
  PROVE  Same \/ GivingUp(This.name) \/ Announcing(This.name)
<1>1. PICK x, k : x = This.name /\ k = Len(scopes)
  OBVIOUS
<1>2. Changes(k, x, Declared) /\ n \in DOMAIN stack' /\ OpenFunc(stack'[n])
  BY <1>1 DEF Declares
<1>3. /\ Alive /\ prog' = prog /\ scopes # <<>> /\ scopes' # <<>> /\ stack # <<>>
  BY MoveHolds
<1>4. Within(stack') = Within(stack)
  <2>1. \A y : ~HeldBy(stack'[n], 1, y) /\ ~HeldBy(Top, 1, y)
    BY <1>2 DEF OpenFunc, Declares, HeldBy, This
  <2> QED BY <2>1, SameWithin
<1>5. CASE k # 1
  <2>1. \A y \in GlobalNames : scopes'[1].sym[y].level = scopes[1].sym[y].level
    BY <1>2, <1>5, OthersKeepLevel DEF Changes
  <2> QED BY <1>4, <2>1, SymbolsSame
<1>6. CASE k = 1
  <2>1. IsDeclaration(Top.node) /\ Fresh(Top)
    BY DEF Declares, IsDeclaration, DeclarationKinds, This, Fresh
  <2>2. Global(Top.node)
    BY <1>1, <1>3, <1>6, <2>1, WorksOnGlobals DEF ScopeInv
  <2>3. x \in GlobalNames /\ AbstractLevel[x] = "todo"
    BY <1>1, <1>3, <2>1, <2>2, FreshIsToDo
  <2>4. AbstractLevel'[x] = "done"
    <3>1. scopes'[1].sym[x].level = Declared
      BY <1>2, <1>6 DEF Changes
    <3>2. Declared # Defined
      BY DEF Defined, Declared
    <3> QED BY <1>3, <2>3, <3>1, <3>2, LevelWillBe
  <2>5. \A y \in GlobalNames : y # x => AbstractLevel'[y] = AbstractLevel[y]
    <3>1. \A y : GivenUp(y)' <=> GivenUp(y)
      BY <1>2, GivenUpMoves
    <3>2. \A y \in GlobalNames : y # x => scopes'[1].sym[y] = scopes[1].sym[y]
      BY <1>2, OthersKeepLevel DEF Changes
    <3> QED BY <1>3, <3>1, <3>2, LevelIs, LevelWillBe
  <2>6. Moves(x, "todo", "done")
    BY <1>3, <2>3, <2>4, <2>5, LevelMoves DEF Moves
  <2> QED BY <1>1, <1>4, <2>6, DeclaresQuietly DEF Announcing
<1> QED BY <1>5, <1>6

\* Every step of a handler, until the compiler stops in the middle.
LEMMA HandlerKeepsOrder ==
  ASSUME ScopeInv, WalkInv, HandlerStep, Alive', NEW x, x = This.name
  PROVE  Same \/ Opening(x) \/ Closing(x) \/ Announcing(x) \/ GivingUp(x)
<1>1. PICK n : n = Len(stack)
  OBVIOUS
<1>2. ~Collides /\ ~(ctl'.op = "return" /\ IsCrash(ctl'.val))
  BY DEF Collides, Alive
<1>3. Opens(n) \/ Closes(n) \/ Declares(n) \/ Leaves(n)
  BY <1>1, <1>2, MoveHolds, SymbolMoves DEF ScopeInv
<1>4. CASE Leaves(n)
  <2>1. Within(stack') = Within(stack)
    BY <1>1, <1>4, SameWithin DEF Leaves
  <2>2. Untouched(scopes', 0, x)
    BY <1>4 DEF Leaves
  <2>3. \A y \in GlobalNames : scopes'[1].sym[y].level = scopes[1].sym[y].level
    BY <2>2, OthersKeepLevel
  <2> QED BY <2>1, <2>3, SymbolsSame
<1> QED BY <1>1, <1>3, <1>4, OpensIs, ClosesIs, DeclaresIs

LEMMA VerdictIs ==
  /\ Alive => AbstractVerdict = "none"
  /\ status = "start" /\ ctl.op = "return" /\ ~IsCrash(ctl.val) => AbstractVerdict = "none"
  /\ status' = "running" /\ ~Alive' => AbstractVerdict' = "aborted"
  /\ Alive' => AbstractVerdict' = "none"
BY DEF Alive, AbstractVerdict

\* Neither the levels nor the pairs depend on anything else.
LEMMA AbstractStays ==
  ASSUME UNCHANGED <<prog, analyzed, stack, scopes>>
  PROVE  /\ AbstractLevel' = AbstractLevel
         /\ AbstractVerdict # "aborted" /\ AbstractVerdict' # "aborted"
              => AbstractInside' = AbstractInside
<1>1. AbstractLevel' = AbstractLevel
  BY DEF AbstractLevel, GlobalNames, GivenUp, SymbolAt, Node
<1>2. Within(stack') = Within(stack)
  OBVIOUS
<1> QED BY <1>1, <1>2, InsideIs

\* The compiler may stop anywhere.
LEMMA AbortIsOrder ==
  ASSUME prog' = prog, AbstractVerdict = "none", AbstractVerdict' = "aborted", hadError' \in BOOLEAN
  PROVE  Order!Next
<1>1. AbstractInside' = {}
  BY DEF AbstractInside
<1>2. AbstractLevel' \in [DOMAIN AbstractLevel -> {"todo", "open", "done", "given up"}]
  BY LevelsAre, LevelsWillBe
<1> QED BY <1>1, <1>2 DEF Order!Next, Order!Abort, Order!Names, Order!Levels

LEMMA HandlerIsOrder ==
  ASSUME ScopeInv, WalkInv, HandlerStep, Writes
  PROVE  [Order!Next]_(Order!vars)
<1>1. PICK n, x : n = Len(stack) /\ x = This.name
  OBVIOUS
<1>2. Alive /\ prog' = prog /\ AbstractVerdict = "none"
  BY <1>1, MoveHolds, VerdictIs
<1>3. hadError \in BOOLEAN /\ hadError' \in BOOLEAN /\ hadError' \in {hadError, TRUE}
  <2>1. hadError => hadError'
    BY <1>1, MoveHolds, StepBalanced DEF ScopeInv, Balanced
  <2>2. hadError \in BOOLEAN
    BY DEF WalkInv
  <2>3. hadError' \in BOOLEAN
    BY <2>2 DEF Writes
  <2> QED BY <2>1, <2>2, <2>3
<1>4. CASE ~Alive'
  <2>1. status' = "running" \/ status' = "sentinel"
    BY StatusStays DEF HandlerStep, Collides
  <2>2. AbstractVerdict' = "aborted"
    BY <1>4, <2>1, VerdictIs DEF AbstractVerdict
  <2> QED BY <1>2, <1>3, <2>2, AbortIsOrder
<1>5. CASE Alive'
  <2>1. AbstractVerdict' = "none" /\ AbstractInside = Within(stack) /\ AbstractInside' = Within(stack')
    BY <1>2, <1>5, VerdictIs, InsideIs
  <2>2. Same \/ Opening(x) \/ Closing(x) \/ Announcing(x) \/ GivingUp(x)
    BY <1>1, <1>5, HandlerKeepsOrder
  <2>3. CASE Same
    BY <1>2, <1>3, <2>1, <2>3 DEF Same, Order!Next, Order!Report, Order!vars
  <2>4. CASE Opening(x)
    <3>1. Order!Open(x) /\ x \in Order!Names
      BY <1>2, <1>3, <2>1, <2>4, LevelsAre
         DEF Opening, Moves, Order!Open, Order!Opened, Order!Names, Order!MayReport
    <3> QED BY <1>2, <3>1 DEF Order!Next
  <2>5. CASE Closing(x)
    <3>1. Order!Close(x) /\ x \in Order!Names
      BY <1>2, <1>3, <2>1, <2>5, LevelsAre
         DEF Closing, Moves, Order!Close, Order!Names, Order!MayReport
    <3> QED BY <1>2, <3>1 DEF Order!Next
  <2>6. CASE Announcing(x)
    <3>1. Order!Announce(x) /\ x \in Order!Names
      BY <1>2, <2>1, <2>6, LevelsAre DEF Announcing, Moves, Order!Announce, Order!Names
    <3> QED BY <1>2, <3>1 DEF Order!Next
  <2>7. CASE GivingUp(x)
    <3>1. Order!GiveUp(x) /\ x \in Order!Names
      BY <1>2, <1>3, <2>1, <2>7, LevelsAre
         DEF GivingUp, Moves, Order!GiveUp, Order!Names, Order!MayReport
    <3> QED BY <1>2, <3>1 DEF Order!Next
  <2> QED BY <2>2, <2>3, <2>4, <2>5, <2>6, <2>7
<1> QED BY <1>4, <1>5

\* At the end of the walk nothing is open and every declaration has had its
\* turn.
LEMMA EndOfWalk ==
  ASSUME ScopeInv, WalkInv, Finish
  PROVE  \A x \in GlobalNames : AbstractLevel[x] \in {"done", "given up"}
<1>1. Alive /\ stack = <<>> /\ ctl.op = "return" /\ next > Len(prog.decls)
  BY DEF Finish, Alive
<1>2. scopes # <<>>
  BY <1>1, ScopesAreOpen DEF ScopeInv, Alive
<1> SUFFICES ASSUME NEW x \in GlobalNames PROVE AbstractLevel[x] \in {"done", "given up"}
  OBVIOUS
<1>3. AbstractLevel[x] # "open"
  <2>1. x \notin {y \in GlobalNames : \E i \in DOMAIN stack : HeldBy(stack[i], 1, y)}
    BY <1>1
  <2> QED BY <1>1, <2>1, OpenNames
<1>4. GivenUp(x)
  <2>1. PICK d \in DOMAIN prog.decls : x = Node(prog.decls[d]).name
    BY DEF GlobalNames
  <2>2. prog.decls \in Seq(Nodes) /\ next \in Nat
    BY DEF ScopeInv, Shape, ProgramOK, Nodes
  <2>3. d < next
    BY <1>1, <2>2
  <2>4. prog.decls[d] \in analyzed
    BY <1>1, <2>3 DEF WalkInv, Passed
  <2> QED BY <1>1, <2>1, <2>4 DEF GivenUp
<1> QED BY <1>2, <1>3, <1>4, LevelIs

\* Before the walk every declaration is still to be evaluated.
LEMMA StartLevels ==
  ASSUME ScopeInv, WalkInv, Start
  PROVE  \A x \in GlobalNames : AbstractLevel[x] = "todo" /\ AbstractLevel'[x] = "todo"
<1>1. prog' = prog /\ scopes = <<>> /\ stack' = <<>> /\ analyzed' = {}
  BY DEF Start, ScopeInv, Counted, WalkInv, NotStarted
<1> SUFFICES ASSUME NEW x \in GlobalNames PROVE AbstractLevel[x] = "todo" /\ AbstractLevel'[x] = "todo"
  OBVIOUS
<1>2. ~GivenUp(x)'
  BY <1>1 DEF GivenUp
<1>3. scopes' # <<>> /\ scopes'[1].sym = Hoisted(prog.decls, Undefined)
  <2>1. Len(scopes') = 1 /\ scopes'[1].sym = Hoisted(prog.decls, Undefined)
    BY StartMakesScopes DEF ScopeInv
  <2> QED BY <2>1
<1>4. x \in DOMAIN Hoisted(prog.decls, Undefined)
  <2>1. \A d \in DOMAIN prog.decls : IsDeclaration(prog.decls[d])
    BY DEF ScopeInv, Shape, ProgramOK, IsDeclaration, Node
  <2> QED BY <2>1 DEF Hoisted, GlobalNames
<1>5. prog.decls \in Seq(Nodes)
  BY DEF ScopeInv, Shape, ProgramOK, Nodes
<1>6. scopes'[1].sym[x].level = Undefined
  BY <1>3, <1>4, <1>5, HoistedIs DEF Symbol
<1>7. Undefined # Defined /\ Undefined # Declared
  BY DEF Undefined, Defined, Declared
<1>8. AbstractLevel[x] = "todo"
  BY <1>1 DEF AbstractLevel
<1> QED BY <1>1, <1>2, <1>3, <1>6, <1>7, <1>8, LevelWillBe

LEMMA StartIsOrder ==
  ASSUME ScopeInv, WalkInv, Start
  PROVE  [Order!Next]_(Order!vars)
<1>1. /\ prog' = prog /\ stack = <<>> /\ hadError = FALSE
      /\ stack' = <<>> /\ ctl' = ctl /\ ctl.op = "return" /\ ~IsCrash(ctl.val)
  BY DEF Start, ScopeInv, Counted, WalkInv, NotStarted
<1>2. /\ status' = IF Redefines(prog.decls) THEN "error" ELSE "running"
      /\ hadError' = Redefines(prog.decls)
  BY DEF Start
<1>3. AbstractLevel' = AbstractLevel
  BY <1>1, StartLevels, LevelsStay
<1>4. AbstractVerdict = "none"
  BY <1>1, VerdictIs DEF Start
<1>5. AbstractVerdict' = IF Redefines(prog.decls) THEN "error" ELSE "none"
  BY <1>1, <1>2 DEF AbstractVerdict
<1>6. AbstractInside' = AbstractInside
  <2>1. Within(stack') = Within(stack)
    BY <1>1
  <2> QED BY <1>1, <1>4, <1>5, <2>1, InsideIs
<1>7. CASE Redefines(prog.decls)
  <2>1. Order!Opened = {}
    BY StartLevels, LevelsAre DEF Order!Opened, Order!Names
  <2>2. hadError' = TRUE
    BY <1>2, <1>7 DEF Redefines
  <2> QED BY <1>3, <1>4, <1>5, <1>6, <1>7, <2>1, <2>2 DEF Order!Next, Order!Reject
<1>8. CASE ~Redefines(prog.decls)
  <2>1. hadError' = hadError
    BY <1>1, <1>2, <1>8 DEF Redefines
  <2> QED BY <1>3, <1>4, <1>5, <1>6, <1>8, <2>1 DEF Order!vars
<1> QED BY <1>7, <1>8

\* Nor does an activation that has just been made change them.
LEMMA EnterLevels ==
  ASSUME ScopeInv, Enters
  PROVE  AbstractLevel' = AbstractLevel /\ Within(stack') = Within(stack)
<1>1. PICK n : n = Len(stack) + 1
  OBVIOUS
<1>2. /\ \A i \in DOMAIN stack : stack'[i] = stack[i]
      /\ DOMAIN stack' = DOMAIN stack \cup {n} /\ n \notin DOMAIN stack
      /\ stack'[n].pc = "enter" /\ stack'[n].node = ctl.node
  <2>1. PICK f : f = Frame(ctl.node, ctl.exp)
    OBVIOUS
  <2>2. f.node = ctl.node /\ f.pc = "enter"
    BY <2>1, FrameIsOK DEF ScopeInv, Shape, Enters
  <2> QED BY <1>1, <2>1, <2>2, Entered DEF ScopeInv, Shape, Enters
<1>3. /\ prog' = prog /\ scopes' = scopes
      /\ analyzed' = analyzed \cup {ctl.node} /\ ctl.node \notin analyzed
  BY DEF Enters
<1>4. scopes # <<>>
  BY ScopesAreOpen DEF ScopeInv, Enters
<1>5. ASSUME NEW x PROVE GivenUp(x)' <=> GivenUp(x)
  <2>1. GivenUp(x)' <=> \E d \in DOMAIN prog.decls :
                          /\ Node(prog.decls[d]).name = x /\ prog.decls[d] \in analyzed'
                          /\ \A i \in DOMAIN stack' : stack'[i].node # prog.decls[d]
    BY <1>3 DEF GivenUp, Node
  <2>2. ASSUME NEW m
        PROVE  (m \in analyzed' /\ \A i \in DOMAIN stack' : stack'[i].node # m)
                 <=> (m \in analyzed /\ \A i \in DOMAIN stack : stack[i].node # m)
    BY <1>2, <1>3
  <2> QED BY <2>1, <2>2 DEF GivenUp
<1>6. AbstractLevel' = AbstractLevel
  BY <1>3, <1>4, <1>5, LevelIs, LevelWillBe, LevelsStay
<1>7. Within(stack') = Within(stack)
  <2>1. ASSUME NEW i, NEW x
        PROVE  i \in DOMAIN stack' /\ HeldBy(stack'[i], 1, x)
                 <=> i \in DOMAIN stack /\ HeldBy(stack[i], 1, x)
    BY <1>2 DEF HeldBy
  <2>2. ASSUME NEW x, NEW y
        PROVE  (\E i, j \in DOMAIN stack' : i < j /\ HeldBy(stack'[i], 1, x) /\ HeldBy(stack'[j], 1, y))
           <=> (\E i, j \in DOMAIN stack : i < j /\ HeldBy(stack[i], 1, x) /\ HeldBy(stack[j], 1, y))
    BY <2>1
  <2> QED BY <2>2 DEF Within
<1> QED BY <1>6, <1>7

LEMMA EnterIsOrder ==
  ASSUME ScopeInv, Enters
  PROVE  [Order!Next]_(Order!vars)
<1>1. prog' = prog /\ hadError' = hadError /\ AbstractVerdict = "none" /\ AbstractVerdict' = "none"
  BY DEF Enters, AbstractVerdict
<1>2. AbstractInside' = AbstractInside
  BY <1>1, EnterLevels, InsideIs
<1> QED BY <1>1, <1>2, EnterLevels DEF Order!vars

LEMMA NextIsOrder ==
  ASSUME ScopeInv, WalkInv, WalkInv', [Next]_vars
  PROVE  [Order!Next]_(Order!vars)
<1>1. hadError \in BOOLEAN /\ hadError' \in BOOLEAN
  BY DEF WalkInv
<1>2. ASSUME UNCHANGED <<prog, analyzed, stack, scopes, hadError>>, AbstractVerdict = "none",
             AbstractVerdict' \in {"none", "aborted"}
      PROVE  [Order!Next]_(Order!vars)
  BY <1>1, <1>2, AbstractStays, AbortIsOrder DEF Order!vars
<1>3. CASE NextDeclaration
  BY <1>2, <1>3 DEF NextDeclaration, AbstractVerdict, Call, Control
<1>4. CASE ReuseNode
  <2>1. UNCHANGED <<prog, analyzed, stack, scopes, hadError>>
    BY <1>4 DEF ReuseNode, Driver
  <2>2. AbstractVerdict = "none"
    BY <1>4, VerdictIs DEF ReuseNode, Alive
  <2>3. AbstractVerdict' \in {"none", "aborted"}
    BY <1>4 DEF ReuseNode, Driver, AbstractVerdict
  <2> QED BY <1>2, <2>1, <2>2, <2>3
<1>5. CASE Unreachable \/ UNCHANGED vars
  <2>1. UNCHANGED <<prog, analyzed, stack, scopes, hadError>>
    BY <1>5 DEF Unreachable, vars
  <2>2. \/ AbstractVerdict = "none" /\ AbstractVerdict' = "aborted"
        \/ AbstractVerdict = "aborted" /\ AbstractVerdict' = "aborted"
        \/ UNCHANGED <<ctl, status>>
    BY <1>5 DEF Unreachable, AbstractVerdict, vars
  <2>3. CASE AbstractVerdict = "aborted" /\ AbstractVerdict' = "aborted"
    BY <2>1, <2>3, AbstractStays DEF AbstractInside, Order!vars
  <2>4. CASE UNCHANGED <<ctl, status>>
    <3>1. AbstractVerdict' = AbstractVerdict
      BY <2>4 DEF AbstractVerdict
    <3>2. AbstractInside' = AbstractInside
      BY <2>1, <3>1, AbstractStays DEF AbstractInside
    <3> QED BY <2>1, <3>1, <3>2, AbstractStays DEF Order!vars
  <2> QED BY <1>2, <2>1, <2>2, <2>3, <2>4
<1>6. CASE Finish
  <2>1. UNCHANGED <<prog, analyzed, stack, scopes, hadError, ctl>>
    BY <1>6 DEF Finish
  <2>2. AbstractVerdict = "none" /\ AbstractVerdict' = IF hadError THEN "error" ELSE "ok"
    BY <1>6 DEF Finish, AbstractVerdict
  <2>3. AbstractLevel' = AbstractLevel /\ AbstractInside' = AbstractInside
    BY <2>1, <2>2, AbstractStays
  <2>4. \A x \in GlobalNames : AbstractLevel[x] \in {"done", "given up"}
    BY <1>6, EndOfWalk
  <2>5. CASE hadError
    <3>1. Order!Opened = {}
      BY <2>4, LevelsAre DEF Order!Opened, Order!Names
    <3> QED BY <1>1, <2>1, <2>2, <2>3, <2>5, <3>1 DEF Order!Next, Order!Reject
  <2>6. CASE ~hadError
    BY <2>1, <2>2, <2>3, <2>4, <2>6, LevelsAre DEF Order!Next, Order!Accept, Order!Names
  <2> QED BY <2>5, <2>6
<1> QED BY <1>3, <1>4, <1>5, <1>6, CloserSteps, StartIsOrder, EnterIsOrder, HandlerIsOrder
        DEF ScopeInv, WalkInv

LEMMA InitIsOrder == Init => Order!Init
<1> SUFFICES ASSUME Init PROVE Order!Init
  OBVIOUS
<1>1. scopes = <<>> /\ stack = <<>> /\ hadError = FALSE /\ status = "start"
      /\ ctl.op = "return" /\ ~IsCrash(ctl.val)
  BY DEF Init, Returned, Control, Uninit, IsCrash, Val
<1>2. AbstractVerdict = "none"
  BY <1>1, VerdictIs
<1>3. AbstractInside = {}
  BY <1>1, <1>2, InsideIs DEF Within
<1>4. AbstractLevel = [x \in DOMAIN AbstractLevel |-> "todo"]
  BY <1>1 DEF AbstractLevel
<1> QED BY <1>1, <1>2, <1>3, <1>4 DEF Order!Init, Order!Names

\* The analyser keeps the order DeclOrder promises, whatever the programs are.
THEOREM AnalyserKeepsOrder == Spec => ImplementsDeclOrder
<1>1. ScopeInv /\ WalkInv /\ [Next]_vars => WalkInv'
  BY WalkInvKept
<1>2. ScopeInv /\ WalkInv /\ WalkInv' /\ [Next]_vars => [Order!Next]_(Order!vars)
  BY NextIsOrder
<1> QED BY <1>1, <1>2, WalkInvInitially, InitIsOrder, ScopeInvAlways, PTL
        DEF Spec, ImplementsDeclOrder, Order!Spec

(***************************************************************************)
(* Every value has the shape of its type.                                  *)
(***************************************************************************)
WalkOK ==
  /\ analyzed \subseteq Nodes
  /\ next \in 1 .. Len(prog.decls) + 1
  /\ status \in {"start", "running"} \cup Final

LEMMA WalkStaysOK == ASSUME Shape, WalkOK, [Next]_vars PROVE WalkOK'
<1>1. PICK n \in Nat : n = Len(prog.decls)
  BY DEF Shape, ProgramOK
<1>2. next \in 1 .. n + 1
  BY <1>1 DEF WalkOK
<1>3. CASE EnterNode
  BY <1>3 DEF EnterNode, WalkOK, Shape, Nodes
<1>4. CASE NextDeclaration
  <2>1. UNCHANGED <<prog, analyzed, status>> /\ next <= n /\ next' = next + 1
    BY <1>1, <1>4 DEF NextDeclaration
  <2>2. next' \in 1 .. n + 1
    BY <1>2, <2>1
  <2> QED BY <1>1, <2>1, <2>2 DEF WalkOK, Nodes
<1>5. CASE Start \/ Finish \/ Unreachable
  BY <1>5 DEF Start, Finish, Unreachable, WalkOK, Nodes, Final
<1>6. CASE ReuseNode \/ UNCHANGED vars
  BY <1>6 DEF ReuseNode, Driver, vars, WalkOK, Nodes
<1>7. CASE AnalyzeExpression \/ AnalyzeVarDecl \/ AnalyzeFuncDecl
  <2>1. Ready /\ HandlerMove
    BY <1>7, HandlerRuns, ReadyHolds, HandlerMoves
  <2>2. UNCHANGED <<prog, analyzed, next>>
    BY <2>1, MoveOfStack
  <2>3. status' = status \/ status' = "sentinel"
    BY <2>1, StatusStays DEF Collides
  <2> QED BY <2>2, <2>3 DEF WalkOK, Nodes, Final
<1> QED BY <1>3, <1>4, <1>5, <1>6, <1>7 DEF Next, AnalyzeNode, Finished

\* The symbol an identifier has had analysed is pointed to.
LEMMA LazyIsFound ==
  ASSUME Shape, Pointers, stack # <<>>, This.kind = "IDENT"
  PROVE  LazyFound
<1>1. PICK n : n = Len(stack)
  OBVIOUS
<1>2. n \in DOMAIN stack /\ stack[n] = Top
  BY <1>1, TopHolds
<1> QED BY <1>2 DEF Pointers, Pointing, Anchored, LazyFound, This

TypingInv == ScopeInv /\ ValueInv /\ WalkOK

LEMMA TypingInvAlways == Spec => []TypingInv
<1>1. Init => TypingInv
  <2> SUFFICES ASSUME Init PROVE TypingInv
    OBVIOUS
  <2>1. Shape
    BY ShapeInitially
  <2>2. PICK n \in Nat : n = Len(prog.decls)
    BY <2>1 DEF Shape, ProgramOK
  <2>3. 1 \in 1 .. n + 1
    OBVIOUS
  <2> QED BY <2>2, <2>3, ScopeInvInitially, ValuesInitially DEF Init, TypingInv, WalkOK
<1>2. TypingInv /\ [Next]_vars => TypingInv'
  <2> SUFFICES ASSUME TypingInv, [Next]_vars PROVE TypingInv'
    OBVIOUS
  <2>1. stack # <<>> /\ This.kind = "IDENT" => LazyFound
    BY LazyIsFound DEF TypingInv, ScopeInv
  <2> QED BY <2>1, ScopeInvKept, ValuesKept, WalkStaysOK DEF TypingInv, ScopeInv
<1> QED BY <1>1, <1>2, PTL DEF Spec

LEMMA MadeIsShaped == ASSUME NEW v, Made(types, v) PROVE ShapedFields(v)
<1>1. \A u : Made(types, u) => Shaped(u)
  BY MadeIs DEF Shaped, TypeIds, TypesIn
<1> QED BY <1>1, MadeIs DEF ShapedFields

\* The variables of the analyser hold what the C declarations say, in every
\* program: whatever is kept or passed on is a value of a type in the pool, an
\* object has the fields of its type, and the types of the fields of a struct
\* are older than the struct.
THEOREM TypeCorrect == Spec => []TypeOK
<1>1. TypingInv => TypeOK
  <2> SUFFICES ASSUME TypingInv PROVE TypeOK
    OBVIOUS
  <2>1. ValueInv /\ WalkOK /\ Shape
    BY DEF TypingInv, ScopeInv
  <2>2. TypesIn(types) = TypeIds
    BY DEF TypesIn, TypeIds
  <2>3. DOMAIN folded = Nodes /\ DOMAIN hint = Nodes
        /\ \A n \in Nodes : ShapedFields(folded[n]) /\ hint[n] \in TypeIds
    BY <2>1, <2>2, MadeIsShaped DEF ValueInv, NodesMade
  <2>4. \A i \in DOMAIN stack : stack[i].node \in Nodes /\ {stack[i].exp, stack[i].ty} \subseteq TypeIds
    BY <2>1, <2>2 DEF Shape, StackOK, FrameOK, ValueInv, FramesMade, FrameMade
  <2>5. /\ ctl.op \in {"call", "go", "return"} /\ ShapedFields(ctl.val)
        /\ ctl.op = "call" => ctl.node \in Nodes
    BY <2>1, MadeIsShaped DEF ValueInv, ControlMade, Shape
  <2>6. ASSUME NEW k \in DOMAIN scopes, NEW x \in DOMAIN scopes[k].sym, NEW s, s = SymbolAt(k, x)
        PROVE  s.level \in Levels /\ s.type \in TypeIds /\ ShapedFields(s.value)
    BY <2>1, <2>2, <2>6, MadeIsShaped DEF ValueInv, SymbolsMade, SymbolMade, SymbolAt
  <2>7. TypesAreOlder
    <3>1. ASSUME NEW t \in DOMAIN types, NEW i \in DOMAIN types[t].fields, NEW f, f = types[t].fields[i]
          PROVE  f.type \in 0 .. TyString + t - 1 /\ (f.hasDefault => ShapedFields(f.default))
      <4>1. FieldMade(types, TyString + t, f)
        BY <2>1, <3>1 DEF ValueInv, PoolMade, FieldsMade
      <4>2. t \in Nat
        BY <2>1, TypeIds0 DEF ValueInv
      <4>3. (TyString + t) - 1 = TyString + t - 1
        BY <4>2 DEF TyString
      <4>4. f.type \in 0 .. TyString + t - 1 /\ (f.hasDefault => Made(types, f.default))
        BY <4>1, <4>3 DEF FieldMade
      <4>5. f.hasDefault => ShapedFields(f.default)
        BY <4>4, MadeIsShaped
      <4> QED BY <4>4, <4>5
    <3> QED BY <3>1 DEF TypesAreOlder
  <2>8. threshold \in TyString .. LastTypeId(types) /\ retType \in TypeIds /\ hadError \in BOOLEAN
    BY <2>1, <2>2 DEF ValueInv, RestMade
  <2> QED BY <2>1, <2>3, <2>4, <2>5, <2>6, <2>7, <2>8 DEF TypeOK, WalkOK
<1> QED BY <1>1, TypingInvAlways, PTL

(***************************************************************************)
(* The global variables of an accepted program.                            *)
(***************************************************************************)
\* A variable's activation holds the symbol in the global scope if it is a
\* global, and is not given up then.
HoldsGlobals ==
  Unreported => \A i \in DOMAIN stack :
    Variable(stack[i]) /\ Global(stack[i].node) => stack[i].sym = 1

NoneGivenUp ==
  Unreported => \A m : Global(m) /\ Node(m).kind = "VAR_DECL" =>
                         AbstractLevel[Node(m).name] # "given up"

\* As long as nothing is reported, no local symbol hides a global from its
\* own declaration.
LEMMA FindsGlobal ==
  ASSUME ScopeInv, Unreported, stack # <<>>, ctl.op = "go", This.kind = "VAR_DECL", Top.pc = "enter",
         Global(Top.node), NEW k \in DOMAIN scopes, k = Lookup(This.name)
  PROVE  k = 1
<1>1. PICK n \in Nat \ {0} : n = Len(stack) /\ DOMAIN stack = 1 .. n /\ stack[n] = Top
  BY TopHolds, Zenon DEF ScopeInv
<1>2. PICK m \in Nat \ {0} : m = Len(scopes) /\ DOMAIN scopes = 1 .. m
  BY ScopesAreOpen, LastScope, Zenon DEF ScopeInv, Shape, Unreported, Alive
<1>3. This.name \in DOMAIN scopes[k].sym
  BY <1>2, LookupFinds DEF ScopeInv, Shape
<1>4. Called(stack, n, Top.node) /\ IsDeclaration(Top.node)
  BY <1>1 DEF ScopeInv, Callers, IsDeclaration, DeclarationKinds, This
<1>5. CASE n = 1
  <2>1. HoldersIn(stack, 0) = {}
    BY <1>1, <1>5 DEF HoldersIn, HoldsScope, OpenFunc, This
  <2>2. Cardinality(HoldersIn(stack, 0)) = 0
    BY <2>1, FS_EmptySet
  <2>3. m = 1 + Cardinality(HoldersIn(stack, 0))
    BY <1>2 DEF ScopeInv, Counted, Unreported, Alive
  <2> QED BY <1>2, <2>2, <2>3
<1>6. CASE n > 1 /\ FromUse(stack, n, Top.node)
  <2>1. Only(scopes, Top.node)
    BY <1>1, <1>6 DEF ScopeInv, OwnNodes, Pending
  <2> QED BY <1>3, <2>1 DEF Only, This
<1>7. CASE n > 1 /\ FromBlock(stack, n, Top.node)
  <2>1. stack[n - 1].node \in Nodes
    <3>1. n - 1 \in DOMAIN stack
      BY <1>1, <1>7
    <3> QED BY <3>1 DEF ScopeInv, Shape, StackOK, FrameOK
  <2>2. PICK p \in Nodes : p = stack[n - 1].node
    BY <2>1
  <2>3. \A j \in DOMAIN Node(p).kids, d \in DOMAIN prog.decls : Node(p).kids[j] # prog.decls[d]
    BY DEF ScopeInv, Shape, ProgramOK, Nodes, Node
  <2> QED BY <1>7, <2>2, <2>3 DEF FromBlock, Global
<1> QED BY <1>1, <1>4, <1>5, <1>6, <1>7 DEF Called

LEMMA HandlerIsUnreported ==
  ASSUME ScopeInv, HandlerStep, Unreported'
  PROVE  Unreported /\ Alive' /\ ~Collides /\ ~(ctl'.op = "return" /\ IsCrash(ctl'.val))
<1>1. Alive /\ scopes # <<>>
  BY ScopesAreOpen, Zenon DEF HandlerStep, Alive, ScopeInv
<1>2. hadError => hadError'
  BY <1>1, StepBalanced, Zenon DEF ScopeInv, Balanced
<1> QED BY <1>1, <1>2 DEF Unreported, Alive, Collides

LEMMA HoldsGlobalsHandled ==
  ASSUME ScopeInv, WalkInv, HoldsGlobals, HandlerStep
  PROVE  HoldsGlobals'
<1>1. PICK n : n = Len(stack)
  OBVIOUS
<1>2. prog' = prog /\ BelowStays(n) /\ scopes # <<>> /\ stack # <<>>
      /\ stack[n] = Top /\ n \in DOMAIN stack
  BY <1>1, MoveHolds
<1> SUFFICES ASSUME Unreported', NEW i \in DOMAIN stack', Variable(stack'[i]), Global(stack'[i].node)
             PROVE  stack'[i].sym = 1
  BY <1>2 DEF HoldsGlobals, Variable, Global, Node
<1>3. Unreported /\ ~Collides /\ ~(ctl'.op = "return" /\ IsCrash(ctl'.val))
  BY HandlerIsUnreported
<1>4. CASE i # n
  BY <1>2, <1>3, <1>4 DEF BelowStays, HoldsGlobals
<1>5. CASE i = n
  <2>1. stack'[n].node = Top.node
    BY <1>1, <1>5, SameNode DEF ScopeInv
  <2>2. HeldBy(stack'[n], stack'[n].sym, This.name)
    BY <1>5, <2>1 DEF Variable, HeldBy, This
  <2>3. CASE Opens(n)
    <3>1. PICK k : k = Lookup(This.name) /\ Changes(k, This.name, Defined)
                   /\ HeldBy(stack'[n], k, This.name)
      BY <2>3 DEF Opens
    <3>2. k = stack'[n].sym
      BY <2>2, <3>1, HeldIsOne
    <3>3. Top.pc = "enter" /\ This.kind = "VAR_DECL" /\ ctl.op = "go"
      BY <2>3 DEF Opens, HandlerStep
    <3>4. Global(Top.node)
      BY <1>5, <2>1
    <3>5. k \in DOMAIN scopes
      BY <3>1 DEF Changes
    <3> QED BY <1>2, <1>3, <1>5, <3>1, <3>2, <3>3, <3>4, <3>5, FindsGlobal
  <2>4. CASE Leaves(n)
    <3>1. HeldBy(Top, stack'[n].sym, This.name)
      BY <1>5, <2>2, <2>4 DEF Leaves
    <3> QED BY <1>2, <1>3, <1>5, <2>1, <3>1 DEF HoldsGlobals, HeldBy, Variable
  <2>5. CASE Closes(n)
    BY <1>5, <2>5 DEF Closes
  <2>6. CASE Declares(n)
    BY <1>5, <2>1, <2>6 DEF Declares, Variable, This
  <2> QED BY <1>1, <1>2, <1>3, <2>3, <2>4, <2>5, <2>6, SymbolMoves DEF ScopeInv
<1> QED BY <1>4, <1>5

LEMMA NoneGivenUpHandled ==
  ASSUME ScopeInv, WalkInv, HoldsGlobals, NoneGivenUp, HandlerStep
  PROVE  NoneGivenUp'
<1>1. PICK n : n = Len(stack)
  OBVIOUS
<1>2. prog' = prog /\ BelowStays(n) /\ scopes # <<>> /\ scopes' # <<>> /\ stack # <<>>
      /\ stack[n] = Top /\ n \in DOMAIN stack
  BY <1>1, MoveHolds
<1> SUFFICES ASSUME Unreported', NEW m, Global(m), Node(m).kind = "VAR_DECL"
             PROVE  AbstractLevel'[Node(m).name] # "given up"
  BY <1>2 DEF NoneGivenUp, Global, Node
<1>3. Unreported /\ Alive' /\ ~Collides /\ ~(ctl'.op = "return" /\ IsCrash(ctl'.val))
  BY HandlerIsUnreported
<1>4. PICK x : x = Node(m).name
  OBVIOUS
<1>5. x \in GlobalNames /\ AbstractLevel[x] # "given up"
  BY <1>3, <1>4 DEF Global, GlobalNames, NoneGivenUp
<1>6. PICK y : y = This.name
  OBVIOUS
<1>7. CASE Same \/ Opening(y) \/ Closing(y) \/ Announcing(y)
  BY <1>4, <1>5, <1>7, LevelsAre DEF Same, Opening, Closing, Announcing, Moves
<1>8. CASE GivingUp(y) /\ x # y
  BY <1>4, <1>5, <1>8, LevelsAre DEF GivingUp, Moves
<1>9. CASE GivingUp(y) /\ x = y
  <2>1. AbstractLevel[x] = "todo" /\ AbstractLevel'[x] = "given up"
    BY <1>5, <1>9, LevelsAre DEF GivingUp, Moves
  <2>2. GivenUp(x)' /\ ~GivenUp(x)
    BY <1>2, <1>5, <2>1, LevelIs, LevelWillBe
  <2>3. Global(Top.node) /\ n \notin DOMAIN stack'
    BY <1>1, <2>2, GivenUpMoves
  <2>4. m = Top.node /\ This.kind = "VAR_DECL"
    <3>1. m = Top.node
      BY <1>3, <1>4, <1>6, <1>9, <2>3, OneGlobal DEF ScopeInv, OneEach, Unreported, This
    <3> QED BY <3>1 DEF This
  <2>5. VarMove
    BY <2>4 DEF HandlerStep, HandlerMove, PlainMove, IdentMove, FuncMove, BlockMove
  <2>6. Top.pc # "enter"
    <3> SUFFICES ASSUME Top.pc = "enter" PROVE FALSE
      OBVIOUS
    <3>1. PICK k : OpensVar(k)
      BY <1>3, <2>5 DEF VarMove, ClosesVar, QuietReturn, Returns
    <3>2. PICK f : stack' = Append(Below, f)
      BY <3>1 DEF OpensVar, Evaluates, Stays, Calls
    <3> QED BY <1>1, <1>2, <2>3, <3>2, Replaced DEF ScopeInv, Shape
  <2>7. HeldBy(Top, 1, x)
    BY <1>2, <1>3, <1>6, <1>9, <2>3, <2>4, <2>6 DEF HoldsGlobals, Variable, HeldBy, This
  <2>8. Closes(n)
    BY <1>1, <1>2, <1>3, <2>3, <2>7, SymbolMoves DEF ScopeInv, Opens, Declares, Leaves
  <2>9. AbstractLevel'[x] = "done"
    <3>1. scopes'[1].sym[x].level = Declared
      BY <1>6, <1>9, <2>7, <2>8 DEF Closes, Changes, HeldBy
    <3>2. Declared # Defined
      BY DEF Declared, Defined
    <3> QED BY <1>2, <1>5, <3>1, <3>2, LevelWillBe
  <2> QED BY <2>1, <2>9
<1> QED BY <1>3, <1>6, <1>7, <1>8, <1>9, HandlerKeepsOrder

\* The value of a global variable fits: only the function of a name would
\* declare its symbol with another.
GlobalsFit ==
  Unreported => \A m : Global(m) /\ Node(m).kind = "VAR_DECL" => ValueFits(scopes[1].sym[Node(m).name])

LEMMA GlobalsFitStart ==
  ASSUME ScopeInv, Start
  PROVE  GlobalsFit'
<1> SUFFICES ASSUME NEW m, Global(m) PROVE ValueFits(scopes'[1].sym[Node(m).name])
  BY DEF GlobalsFit, Global, Node, Start, ValueFits
<1>1. PICK x : x = Node(m).name
  OBVIOUS
<1>2. x \in DOMAIN Hoisted(prog.decls, Undefined)
  <2>1. PICK d \in DOMAIN prog.decls : m = prog.decls[d]
    BY DEF Global
  <2>2. IsDeclaration(prog.decls[d])
    BY DEF ScopeInv, Shape, ProgramOK, IsDeclaration, Node
  <2> QED BY <1>1, <2>1, <2>2 DEF Hoisted
<1>3. prog.decls \in Seq(Nodes)
  BY DEF ScopeInv, Shape, ProgramOK, Nodes
<1>4. scopes'[1].sym = Hoisted(prog.decls, Undefined)
  BY StartMakesScopes DEF ScopeInv
<1>5. scopes'[1].sym[x].level = Undefined
  BY <1>2, <1>3, <1>4, HoistedIs DEF Symbol
<1> QED BY <1>1, <1>5 DEF ValueFits, Undefined, Declared

LEMMA GlobalsFitHandled ==
  ASSUME TypingInv, WalkInv, GlobalsFit, HandlerStep,
         AnalyzeExpression \/ AnalyzeVarDecl \/ AnalyzeFuncDecl
  PROVE  GlobalsFit'
<1>1. ScopeInv /\ Shape /\ ValueInv
  BY DEF TypingInv, ScopeInv
<1>2. PICK n : n = Len(stack)
  BY Zenon
<1>3. prog' = prog /\ scopes # <<>> /\ stack # <<>>
  BY <1>1, <1>2, MoveHolds
<1> SUFFICES ASSUME Unreported', NEW m, Global(m), Node(m).kind = "VAR_DECL"
             PROVE  ValueFits(scopes'[1].sym[Node(m).name])
  BY <1>3, Zenon DEF GlobalsFit, Global, Node, ValueFits
<1>4. Unreported /\ ~Collides /\ ~(ctl'.op = "return" /\ IsCrash(ctl'.val))
  BY <1>1, HandlerIsUnreported
<1>5. PICK x : x = Node(m).name
  OBVIOUS
<1> SUFFICES ValueFits(scopes'[1].sym[x])
  BY <1>5
<1>6. ValueFits(scopes[1].sym[x])
  BY <1>4, <1>5 DEF GlobalsFit
<1>7. 1 \in DOMAIN scopes /\ 1 \in DOMAIN scopes' /\ x \in DOMAIN scopes[1].sym
  <2>1. x \in GlobalNames
    BY <1>5 DEF Global, GlobalNames
  <2> QED BY <1>1, <2>1, GlobalScopeStays DEF WalkInv, Named, HandlerStep, ScopeInv
<1>8. ASSUME \A k, y : Untouched(scopes', k, y) PROVE ValueFits(scopes'[1].sym[x])
  <2>1. Untouched(scopes', 0, x)
    BY <1>8
  <2>2. scopes'[1].sym[x] = scopes[1].sym[x]
    BY <1>7, <2>1 DEF Untouched
  <2> QED BY <1>6, <2>2
<1>9. CASE This.kind = "VAR_DECL"
  <2>1. AnalyzeVarDecl
    BY <1>9 DEF AnalyzeExpression, AnalyzeLeaf, AnalyzeFuncDecl, At, TypeKeywords, TypeOfKeyword,
       AnalyzeIntegerLit, AnalyzeFloatLit, AnalyzeStringLit, AnalyzeIdent, AnalyzeBits, AnalyzeTypeKeyword,
       AnalyzeBinary, AnalyzeUnary, AnalyzeGrouping, AnalyzeDistinct, AnalyzeCast, AnalyzeAccess,
       AnalyzeStructType, AtLoop, AnalyzeStructLiteral, AnalyzeAutoLiteral, AnalyzeFuncCall,
       AnalyzeBlock, AnalyzeReturn
  <2>2. scopes'[1].sym[x] = scopes[1].sym[x] \/ ValueFits(scopes'[1].sym[x])
    BY <1>1, <1>7, <2>1, DeclaredFits
  <2>3. ValueFits(scopes'[1].sym[x])
    BY <1>6, <2>2
  <2> QED BY <1>5, <2>3
<1>10. CASE Declares(n)
  <2>1. This.kind = "FUNC_DECL" /\ Untouched(scopes', Len(scopes), This.name)
    BY <1>10 DEF Declares, Changes
  <2>2. CASE Len(scopes) = 1 /\ This.name = x
    <3>1. Global(Top.node)
      BY <1>1, <1>3, <2>1, <2>2, WorksOnGlobals DEF ScopeInv, IsDeclaration, DeclarationKinds, This
    <3>2. m = Top.node
      BY <1>1, <1>4, <1>5, <2>2, <3>1, OneGlobal DEF ScopeInv, OneEach, Unreported, This
    <3> QED BY <2>1, <3>2 DEF This
  <2>3. CASE ~(Len(scopes) = 1 /\ This.name = x)
    <3>1. scopes'[1].sym[x] = scopes[1].sym[x]
      BY <1>7, <2>1, <2>3 DEF Untouched
    <3> QED BY <1>6, <3>1
  <2> QED BY <2>2, <2>3
<1>11. CASE This.kind # "VAR_DECL" /\ ~Declares(n)
  <2>1. Leaves(n)
    BY <1>1, <1>2, <1>3, <1>4, <1>11, SymbolMoves DEF ScopeInv, Opens, Closes, HeldBy, This
  <2> QED BY <1>5, <1>8, <2>1 DEF Leaves
<1> QED BY <1>5, <1>9, <1>10, <1>11

EvalInv == HoldsGlobals /\ NoneGivenUp /\ GlobalsFit /\ VariablesAreEvaluated

LEMMA EvalInvInitially == Init => EvalInv
<1> SUFFICES ASSUME Init PROVE EvalInv
  OBVIOUS
<1>1. status = "start"
  BY DEF Init
<1> QED BY <1>1 DEF EvalInv, HoldsGlobals, NoneGivenUp, GlobalsFit, VariablesAreEvaluated, Unreported, Alive

LEMMA EvalInvKept ==
  ASSUME TypingInv, WalkInv, EvalInv, [Next]_vars
  PROVE  EvalInv'
<1>0. ScopeInv
  BY DEF TypingInv
<1>1. prog' = prog
  BY <1>0, Steps, MoveOfStack DEF ScopeInv, Start, Enters, Idles, HandlerStep
<1>2. CASE Start
  <2>1. stack' = <<>> /\ status' # "ok"
    BY <1>0, <1>2 DEF Start, ScopeInv, Counted
  <2>2. \A m : Global(m)' => Node(m)'.name \in GlobalNames
    BY <1>1 DEF Global, GlobalNames, Node
  <2>3. NoneGivenUp'
    BY <1>0, <1>1, <1>2, <2>2, StartLevels DEF NoneGivenUp
  <2> QED BY <1>0, <1>2, <2>1, <2>3, GlobalsFitStart DEF EvalInv, HoldsGlobals, VariablesAreEvaluated
<1>3. CASE Enters
  <2>1. Unreported' => Unreported
    BY <1>3 DEF Enters, Unreported, Alive
  <2>2. /\ \A i \in DOMAIN stack : stack'[i] = stack[i]
        /\ \A i \in DOMAIN stack' : i \in DOMAIN stack \/ stack'[i].pc = "enter"
    BY <1>0, <1>3, EnteringHoldsNothing DEF ScopeInv
  <2>3. HoldsGlobals'
    BY <1>1, <2>1, <2>2 DEF EvalInv, HoldsGlobals, Variable, Global, Node
  <2>4. NoneGivenUp'
    BY <1>0, <1>1, <1>3, <2>1, EnterLevels DEF EvalInv, NoneGivenUp, Global, Node
  <2>5. status' # "ok"
    BY <1>3 DEF Enters
  <2>6. GlobalsFit'
    BY <1>1, <1>3, <2>1 DEF EvalInv, GlobalsFit, Global, Node, Enters
  <2> QED BY <2>3, <2>4, <2>5, <2>6 DEF EvalInv, VariablesAreEvaluated
<1>4. CASE HandlerStep
  <2>1. status' # "ok"
    BY <1>4, StatusStays DEF HandlerStep, Collides
  <2>2. AnalyzeExpression \/ AnalyzeVarDecl \/ AnalyzeFuncDecl \/ UNCHANGED vars
    BY <1>4 DEF HandlerStep, Next, AnalyzeNode, Start, NextDeclaration, Finish, Unreachable, ReuseNode,
       EnterNode, Finished
  <2>3. GlobalsFit'
    <3>1. CASE UNCHANGED vars
      BY <3>1 DEF vars, EvalInv, GlobalsFit, Unreported, Alive, Global, Node
    <3>2. CASE ~UNCHANGED vars
      BY <1>4, <2>2, <3>2, GlobalsFitHandled DEF EvalInv
    <3> QED BY <3>1, <3>2
  <2> QED BY <1>0, <1>4, <2>1, <2>3, HoldsGlobalsHandled, NoneGivenUpHandled DEF EvalInv, VariablesAreEvaluated
<1>5. CASE Idles
  <2>1. UNCHANGED <<stack, scopes, analyzed, hadError>> /\ (Unreported' => Unreported)
    BY <1>5 DEF Idles, Unreported
  <2>2. HoldsGlobals'
    BY <1>1, <2>1 DEF EvalInv, HoldsGlobals, Variable, Global, Node
  <2>3. AbstractLevel' = AbstractLevel
    BY <1>1, <2>1, AbstractStays
  <2>4. NoneGivenUp'
    BY <1>1, <2>1, <2>3 DEF EvalInv, NoneGivenUp, Global, Node
  <2>5. VariablesAreEvaluated'
    <3>1. CASE status = "ok"
      BY <1>1, <2>1, <3>1, Zenon DEF EvalInv, VariablesAreEvaluated, Node, SymbolAt
    <3>2. CASE status # "ok" /\ status' = "ok"
      <4>1. Finish /\ ~hadError
        BY <1>0, <3>2, CloserSteps, StatusStays
           DEF WalkInv, ScopeInv, Start, NextDeclaration, Finish, Unreachable, ReuseNode, Driver,
               vars, Enters, HandlerStep, Collides
      <4>2. Unreported /\ scopes # <<>>
        BY <1>0, <4>1, ScopesAreOpen, Zenon DEF Finish, Unreported, Alive, ScopeInv
      <4> SUFFICES ASSUME NEW d \in DOMAIN prog.decls, Node(prog.decls[d]).kind = "VAR_DECL",
                          NEW x, x = Node(prog.decls[d]).name, NEW s, s = scopes[1].sym[x]
                   PROVE  s.level = Declared /\ (IsBad(s.value) \/ TypeOf(s.value) = s.type)
        BY <1>1, <2>1 DEF VariablesAreEvaluated, SymbolAt, Node
      <4>3. ValueFits(s)
        BY <4>2 DEF EvalInv, GlobalsFit, Global
      <4>4. x \in GlobalNames /\ AbstractLevel[x] # "given up"
        BY <4>2 DEF GlobalNames, EvalInv, NoneGivenUp, Global
      <4>5. AbstractLevel[x] = "done"
        BY <1>0, <4>1, <4>4, EndOfWalk
      <4>6. s.level = Declared
        BY <4>2, <4>4, <4>5, LevelIs
      <4> QED BY <4>3, <4>6 DEF ValueFits
    <3>3. CASE status' # "ok"
      BY <3>3 DEF VariablesAreEvaluated
    <3> QED BY <3>1, <3>2, <3>3, Zenon
  <2>6. GlobalsFit'
    BY <1>1, <2>1 DEF EvalInv, GlobalsFit, Global, Node
  <2> QED BY <2>2, <2>4, <2>5, <2>6 DEF EvalInv
<1> QED BY <1>0, <1>2, <1>3, <1>4, <1>5, Steps DEF ScopeInv

\* A program is accepted only when each of its global variables has been
\* evaluated, to an error value or to one of the type the variable has.
THEOREM AcceptedIsEvaluated == Spec => []VariablesAreEvaluated
<1>1. TypingInv /\ WalkInv /\ EvalInv /\ [Next]_vars => WalkInv' /\ EvalInv'
  BY WalkInvKept, EvalInvKept DEF TypingInv
<1>2. EvalInv => VariablesAreEvaluated
  BY DEF EvalInv
<1> QED BY <1>1, <1>2, WalkInvInitially, EvalInvInitially, TypingInvAlways, PTL DEF Spec

(***************************************************************************)
(* Where a call comes from, and why the node it is for was not analysed.   *)
(***************************************************************************)
\* The children of a node that was not entered, and those an activation may
\* still ask for, have not been analysed.
Unvisited ==
  /\ \A m \in Nodes \ analyzed : \A k \in DOMAIN Node(m).kids : Node(m).kids[k] \notin analyzed
  /\ \A i \in DOMAIN stack : \A k \in DOMAIN Node(stack[i].node).kids :
       Ahead(stack[i], k) => Node(stack[i].node).kids[k] \notin analyzed

\* A call is for a global, from the walk or from an identifier, or for a child
\* that has not been analysed and is not asked for again.
CallFrom ==
  ctl.op = "call" =>
    \/ Global(ctl.node) /\ (stack = <<>> \/ Top.pc = "lazy")
    \/ /\ stack # <<>> /\ Top.pc # "lazy" /\ ctl.node # 0 /\ ctl.node \notin analyzed
       /\ \E k \in DOMAIN This.kids : Kid(k) = ctl.node /\ ~Ahead(Top, k)

CleanState == CallFrom /\ Unvisited /\ NodesClean /\ SymbolsClean /\ FramesClean /\ ReturnClean

ErrInv == OneNameEach /\ ~hadError => CleanState

LEMMA ErrInvInitially == Init => ErrInv
<1> SUFFICES ASSUME Init PROVE ErrInv
  OBVIOUS
<1>1. stack = <<>> /\ scopes = <<>> /\ analyzed = {} /\ ctl.op = "return"
  BY DEF Init, Returned, Control
<1>2. NodesClean
  BY NotBad DEF Init, NodesClean
<1> QED BY <1>1, <1>2 DEF ErrInv, CleanState, CallFrom, Unvisited, SymbolsClean, FramesClean, ReturnClean

\* The stack and the tree stay.
LEMMA SameStackClean ==
  ASSUME UNCHANGED <<prog, stack, analyzed>>
  PROVE  /\ Unvisited => Unvisited'
         /\ FramesClean => FramesClean'
BY DEF Unvisited, FramesClean, FrameClean, Ahead, Nodes, Node

LEMMA UnvisitedLater ==
  ASSUME prog' = prog
  PROVE  Unvisited' <=>
    /\ \A m \in Nodes \ analyzed' : \A k \in DOMAIN Node(m).kids : Node(m).kids[k] \notin analyzed'
    /\ \A i \in DOMAIN stack' : \A k \in DOMAIN Node(stack'[i].node).kids :
         Ahead(stack'[i], k) => Node(stack'[i].node).kids[k] \notin analyzed'
BY DEF Unvisited, Ahead, Nodes, Node

LEMMA FramesLater ==
  ASSUME prog' = prog
  PROVE  FramesClean' <=> \A i \in DOMAIN stack' : FrameClean(stack'[i])
BY DEF FramesClean, FrameClean, Node

LEMMA HandlerKeepsClean ==
  ASSUME TypingInv, CleanState, OneNameEach, ~hadError, ~hadError',
         HandlerStep, AnalyzeExpression \/ AnalyzeVarDecl \/ AnalyzeFuncDecl
  PROVE  CleanState'
<1>1. Shape /\ StackOK /\ stack # <<>> /\ Sound
  BY DEF TypingInv, ScopeInv, Shape, HandlerStep, Sound
<1>2. Clear
  BY <1>1 DEF CleanState, Clear
<1>3. CleanStep
  BY <1>1, <1>2, HandlersClean, LazyIsFound DEF TypingInv, ScopeInv
<1>4. UNCHANGED <<prog, analyzed>>
  BY MoveOfStack DEF HandlerStep
<1>5. PICK n : n = Len(stack)
  OBVIOUS
<1>6. n \in DOMAIN stack /\ stack[n] = Top
  BY <1>1, <1>5, TopHolds
<1>7. CASE stack' = Below /\ ctl'.op = "return" /\ ~IsBad(ctl'.val)
  <2>1. DOMAIN stack' \subseteq DOMAIN stack /\ \A i \in DOMAIN stack' : stack'[i] = stack[i]
    BY <1>1, <1>7, Dropped
  <2>2. Unvisited'
    BY <1>4, <2>1, UnvisitedLater DEF CleanState, Unvisited
  <2>3. FramesClean'
    BY <1>4, <2>1, FramesLater DEF CleanState, FramesClean
  <2> QED BY <1>3, <1>7, <2>2, <2>3 DEF CleanStep, CleanState, CallFrom, ReturnClean
<1>8. ASSUME NEW f, Onward(f), stack' = Append(Below, f),
             \/ ctl'.op = "go"
             \/ f.pc # "lazy" /\ ctl'.op = "call" /\ Asks(f, ctl'.node)
             \/ f.pc = "lazy" /\ ctl'.op = "call" /\ Global(ctl'.node)
      PROVE  CleanState'
  <2>1. /\ DOMAIN stack' = DOMAIN stack /\ Len(stack') = n /\ stack'[n] = f
        /\ \A i \in DOMAIN stack : i # n => stack'[i] = stack[i]
    BY <1>1, <1>5, <1>8, Replaced
  <2>2. /\ f.node = Top.node /\ FrameClean(f) /\ Node(f.node) = This
        /\ \A k \in DOMAIN This.kids : Ahead(f, k) => Ahead(Top, k)
    BY <1>8 DEF Onward, This
  <2>3. FramesClean'
    BY <1>4, <2>1, <2>2, FramesLater DEF CleanState, FramesClean
  <2>4. \A k \in DOMAIN This.kids : Ahead(Top, k) => Kid(k) \notin analyzed
    BY <1>6 DEF CleanState, Unvisited, This, Kid
  <2>5. Unvisited'
    <3>1. ASSUME NEW i \in DOMAIN stack', NEW k \in DOMAIN Node(stack'[i].node).kids, Ahead(stack'[i], k)
          PROVE  Node(stack'[i].node).kids[k] \notin analyzed
      <4>1. CASE i = n
        BY <2>1, <2>2, <2>4, <3>1, <4>1 DEF Kid
      <4>2. CASE i # n
        BY <2>1, <3>1, <4>2 DEF CleanState, Unvisited
      <4> QED BY <4>1, <4>2
    <3>2. \A m \in Nodes \ analyzed : \A k \in DOMAIN Node(m).kids : Node(m).kids[k] \notin analyzed
      BY DEF CleanState, Unvisited
    <3> QED BY <1>4, <3>1, <3>2, UnvisitedLater
  <2>6. ReturnClean'
    BY <1>8 DEF ReturnClean
  <2>7. stack' # <<>> /\ Top' = f /\ This' = This
    <3>1. stack' # <<>>
      BY <1>6, <2>1
    <3> QED BY <1>4, <2>1, <2>2, <3>1 DEF Top, This, Node
  <2>8. CallFrom'
    <3>1. CASE ctl'.op = "go"
      BY <3>1 DEF CallFrom
    <3>2. CASE f.pc # "lazy" /\ ctl'.op = "call" /\ Asks(f, ctl'.node)
      <4>1. PICK k \in DOMAIN This.kids : Kid(k) = ctl'.node /\ ctl'.node # 0 /\ Ahead(Top, k) /\ ~Ahead(f, k)
        BY <3>2 DEF Asks
      <4>2. ctl'.node \notin analyzed'
        BY <1>4, <2>4, <4>1
      <4>3. Kid(k)' = Kid(k) /\ k \in DOMAIN This'.kids
        BY <2>7 DEF Kid
      <4>4. Ahead(Top, k)' <=> Ahead(f, k)
        BY <1>4, <2>7 DEF Ahead, Node
      <4> QED BY <2>7, <3>2, <4>1, <4>2, <4>3, <4>4 DEF CallFrom
    <3>3. CASE f.pc = "lazy" /\ ctl'.op = "call" /\ Global(ctl'.node)
      BY <1>4, <2>7, <3>3 DEF CallFrom, Global
    <3> QED BY <1>8, <3>1, <3>2, <3>3
  <2> QED BY <1>3, <2>3, <2>5, <2>6, <2>8 DEF CleanStep, CleanState
<1> QED BY <1>3, <1>7, <1>8 DEF CleanStep, CleanMove

\* A node that is entered is nobody's child that may still be asked for.
LEMMA OnlyAsked ==
  ASSUME ScopeInv, CallFrom, ctl.op = "call", ctl.node \notin analyzed,
         NEW m \in Nodes, NEW k \in DOMAIN Node(m).kids, Node(m).kids[k] = ctl.node
  PROVE  stack # <<>> /\ m = Top.node /\ ~Ahead(Top, k)
<1>1. ctl.node # 0 /\ Shape
  BY DEF ScopeInv, Shape, ProgramOK, Nodes
<1>2. ~Global(ctl.node)
  BY <1>1 DEF Shape, ProgramOK, Global, Nodes, Node
<1>3. PICK j \in DOMAIN This.kids : stack # <<>> /\ Kid(j) = ctl.node /\ ~Ahead(Top, j)
  BY <1>2 DEF CallFrom
<1>4. Top.node \in Nodes
  BY <1>1, <1>3, TopHolds DEF FrameOK
<1>5. prog.node[m].kids[k] = prog.node[Top.node].kids[j]
  BY <1>3 DEF Kid, This, Node
<1>6. m = Top.node /\ k = j
  BY <1>1, <1>3, <1>4, <1>5 DEF Shape, ProgramOK, Nodes, Kid, This, Node
<1> QED BY <1>3, <1>6

LEMMA EnterKeepsClean ==
  ASSUME TypingInv, CleanState, EnterNode
  PROVE  CleanState'
<1>1. ScopeInv /\ Shape /\ StackOK /\ NoReentry
  BY DEF TypingInv, ScopeInv, Shape
<1>2. PICK f : f = Frame(ctl.node, ctl.exp)
  OBVIOUS
<1>3. /\ stack' = Append(stack, f) /\ analyzed' = analyzed \cup {ctl.node}
      /\ UNCHANGED <<prog, folded, scopes>> /\ ctl'.op = "go"
      /\ ctl.op = "call" /\ ctl.node \notin analyzed
  BY <1>2 DEF EnterNode, Go, Control
<1>4. f.node = ctl.node /\ FrameClean(f) /\ ctl.node \in Nodes
  <2>1. f.node = ctl.node /\ f.bad = FALSE /\ f.val = None /\ f.j = 1 /\ f.pc = "enter"
    BY <1>2 DEF Frame
  <2> QED BY <1>1, <1>3, <2>1, NotBad DEF FrameClean, Shape
<1>5. PICK n : n = Len(stack) + 1
  OBVIOUS
<1>6. /\ DOMAIN stack' = DOMAIN stack \cup {n} /\ stack'[n] = f
      /\ \A i \in DOMAIN stack : stack'[i] = stack[i]
  BY <1>1, <1>3, <1>5, Entered
<1>7. FramesClean'
  BY <1>3, <1>4, <1>6, FramesLater DEF CleanState, FramesClean
<1>8. NodesClean' /\ SymbolsClean'
  BY <1>3 DEF CleanState, NodesClean, SymbolsClean
<1>9. CallFrom' /\ ReturnClean'
  BY <1>3 DEF CallFrom, ReturnClean
<1>10. stack # <<>> => Top.node \in analyzed
  BY <1>1, TopHolds DEF NoReentry
<1>11. CallFrom /\ Unvisited
  BY DEF CleanState
<1>12. ASSUME NEW m \in Nodes \ analyzed, NEW k \in DOMAIN Node(m).kids
       PROVE  Node(m).kids[k] \notin analyzed'
  <2>1. Node(m).kids[k] \notin analyzed
    BY <1>11 DEF Unvisited
  <2>2. Node(m).kids[k] # ctl.node
    BY <1>1, <1>3, <1>10, <1>11, OnlyAsked
  <2> QED BY <1>3, <2>1, <2>2
<1>13. ASSUME NEW i \in DOMAIN stack, NEW k \in DOMAIN Node(stack[i].node).kids, Ahead(stack[i], k)
       PROVE  Node(stack[i].node).kids[k] \notin analyzed'
  <2>1. Node(stack[i].node).kids[k] \notin analyzed
    BY <1>11, <1>13 DEF Unvisited
  <2>2. Node(stack[i].node).kids[k] # ctl.node
    <3> SUFFICES ASSUME Node(stack[i].node).kids[k] = ctl.node PROVE FALSE
      OBVIOUS
    <3>1. stack[i].node \in Nodes
      BY <1>1 DEF StackOK, FrameOK
    <3>2. stack # <<>> /\ stack[i].node = Top.node /\ ~Ahead(Top, k)
      BY <1>1, <1>3, <1>11, <3>1, OnlyAsked
    <3>3. PICK l : l = Len(stack)
      OBVIOUS
    <3>4. l \in DOMAIN stack /\ stack[l] = Top
      BY <1>1, <3>2, <3>3, TopHolds
    <3>5. i = l
      BY <1>1, <3>2, <3>4 DEF NoReentry
    <3> QED BY <1>13, <3>2, <3>4, <3>5
  <2> QED BY <1>3, <2>1, <2>2
<1>14. ASSUME NEW i \in DOMAIN stack', NEW k \in DOMAIN Node(stack'[i].node).kids, Ahead(stack'[i], k)
       PROVE  Node(stack'[i].node).kids[k] \notin analyzed'
  <2>1. CASE i = n
    BY <1>3, <1>4, <1>6, <1>12, <2>1
  <2>2. CASE i # n
    BY <1>6, <1>13, <1>14, <2>2
  <2> QED BY <2>1, <2>2
<1>15. Unvisited'
  BY <1>3, <1>12, <1>14, UnvisitedLater
<1> QED BY <1>7, <1>8, <1>9, <1>15 DEF CleanState

LEMMA ReuseKeepsClean ==
  ASSUME TypingInv, CleanState, ReuseNode
  PROVE  CleanState'
<1>1. /\ UNCHANGED <<prog, stack, analyzed, folded, scopes>> /\ ctl.op = "call"
      /\ ctl.node \in analyzed \/ folded[ctl.node] # None
      /\ ctl'.op = "return"
      /\ ctl'.val = IF folded[ctl.node] # None THEN folded[ctl.node] ELSE Bad
  BY DEF ReuseNode, Driver, Returned, Control
<1>2. Unvisited' /\ FramesClean'
  BY <1>1, SameStackClean DEF CleanState
<1>3. NodesClean' /\ SymbolsClean' /\ CallFrom'
  BY <1>1 DEF CleanState, NodesClean, SymbolsClean, CallFrom
<1>4. ctl.node \in DOMAIN folded
  BY <1>1 DEF TypingInv, ValueInv, NodesMade, ScopeInv, Shape
<1>5. ReturnClean'
  <2> SUFFICES ASSUME stack # <<>>, Top.pc # "lazy" PROVE ~IsBad(ctl'.val)
    BY <1>1 DEF ReturnClean, Top
  <2>1. ctl.node \notin analyzed
    BY <1>1 DEF CleanState, CallFrom
  <2>2. ctl'.val = folded[ctl.node]
    BY <1>1, <2>1
  <2> QED BY <1>4, <2>2 DEF CleanState, NodesClean
<1> QED BY <1>2, <1>3, <1>5 DEF CleanState

LEMMA StartIsClean ==
  ASSUME TypingInv, WalkInv, CleanState, Start
  PROVE  CleanState'
<1>1. UNCHANGED <<prog, stack, analyzed, folded, ctl>> /\ status = "start"
  BY DEF Start
<1>2. stack = <<>> /\ ctl.op = "return"
  BY <1>1 DEF TypingInv, ScopeInv, Counted, WalkInv, NotStarted
<1>3. Unvisited' /\ FramesClean'
  BY <1>1, SameStackClean DEF CleanState
<1>4. NodesClean' /\ CallFrom' /\ ReturnClean'
  BY <1>1, <1>2 DEF CleanState, NodesClean, CallFrom, ReturnClean
<1>5. SymbolsClean'
  <2>1. DOMAIN scopes' = {1} /\ scopes'[1].sym = Hoisted(prog.decls, Undefined)
    BY StartMakesScopes DEF TypingInv, ScopeInv
  <2>2. prog.decls \in Seq(Nodes)
    BY DEF TypingInv, ScopeInv, Shape, ProgramOK, Nodes
  <2>3. \A x \in DOMAIN Hoisted(prog.decls, Undefined) :
           ~IsBad(Hoisted(prog.decls, Undefined)[x].value)
    BY <2>2, HoistedIs, NewSymbolClean, NotBad
  <2> QED BY <2>1, <2>3 DEF SymbolsClean
<1> QED BY <1>3, <1>4, <1>5 DEF CleanState

LEMMA ErrInvKept ==
  ASSUME TypingInv, WalkInv, ErrInv, [Next]_vars
  PROVE  ErrInv'
<1>0. Shape /\ Arguments
  BY DEF TypingInv, ScopeInv, WalkInv
<1> SUFFICES ASSUME OneNameEach', ~hadError' PROVE CleanState'
  BY DEF ErrInv
<1>1. prog' = prog
  BY <1>0, Steps, MoveOfStack DEF Start, Enters, Idles, HandlerStep
<1>2. OneNameEach
  BY <1>1 DEF OneNameEach, Nodes, Node
<1>3. CASE Start
  <2>1. ~hadError
    BY <1>3 DEF Start, WalkInv, NotStarted
  <2> QED BY <1>2, <1>3, <2>1, StartIsClean DEF ErrInv
<1>4. ASSUME UNCHANGED <<folded, scopes, stack, analyzed, hadError>>,
             ctl'.op = "call" => ctl' = ctl \/ (stack = <<>> /\ Global(ctl'.node)),
             ctl'.op = "return" => ctl' = ctl
      PROVE  CleanState'
  <2>1. CleanState
    BY <1>2, <1>4 DEF ErrInv
  <2>2. Unvisited' /\ FramesClean'
    BY <1>1, <1>4, <2>1, SameStackClean DEF CleanState
  <2>3. NodesClean' /\ SymbolsClean'
    BY <1>4, <2>1 DEF CleanState, NodesClean, SymbolsClean
  <2>4. ReturnClean'
    BY <1>4, <2>1 DEF CleanState, ReturnClean, Top
  <2>5. CallFrom'
    <3>1. CASE ctl' = ctl
      <4>1. Top' = Top /\ This' = This
        BY <1>1, <1>4 DEF Top, This, Node
      <4>2. \A k : Kid(k)' = Kid(k) /\ (Ahead(Top, k)' <=> Ahead(Top, k))
        BY <1>1, <4>1 DEF Kid, Ahead, Node
      <4>3. Global(ctl.node)' <=> Global(ctl.node)
        BY <1>1, <3>1 DEF Global
      <4> QED BY <1>4, <2>1, <3>1, <4>1, <4>2, <4>3 DEF CleanState, CallFrom
    <3>2. CASE ctl'.op = "call" /\ stack = <<>> /\ Global(ctl'.node)
      BY <1>1, <1>4, <3>2 DEF CallFrom, Global
    <3> QED BY <1>4, <3>1, <3>2 DEF CallFrom
  <2> QED BY <2>2, <2>3, <2>4, <2>5 DEF CleanState
<1>5. CASE NextDeclaration
  <2>1. Idles
    <3>1. next \in DOMAIN prog.decls
      BY <1>0, <1>5 DEF NextDeclaration, Shape, ProgramOK
    <3> QED BY <1>0, <1>5, <3>1 DEF NextDeclaration, Idles, Call, Control, Global, Alive, Shape
  <2>2. ctl'.op = "call" /\ UNCHANGED folded
    BY <1>5 DEF NextDeclaration, Call, Control
  <2> QED BY <1>4, <2>1, <2>2 DEF Idles
<1>6. CASE Finish \/ Unreachable \/ UNCHANGED vars
  BY <1>4, <1>6 DEF Finish, Unreachable, vars
<1>7. CASE ReuseNode
  BY <1>2, <1>7, ReuseKeepsClean DEF ErrInv, ReuseNode
<1>8. CASE EnterNode
  BY <1>2, <1>8, EnterKeepsClean DEF ErrInv, EnterNode
<1>9. CASE HandlerStep /\ (AnalyzeExpression \/ AnalyzeVarDecl \/ AnalyzeFuncDecl)
  <2>1. ~hadError
    <3>1. scopes # <<>>
      BY <1>9, ScopesAreOpen DEF TypingInv, ScopeInv, HandlerStep
    <3> QED BY <1>0, <1>9, <3>1, StepBalanced, Zenon DEF Balanced
  <2> QED BY <1>2, <1>9, <2>1, HandlerKeepsClean, Zenon DEF ErrInv
<1> QED BY <1>0, <1>3, <1>5, <1>6, <1>7, <1>8, <1>9, CloserSteps

\* A handler never acts on a VAL_BAD that nobody has reported, in any program
\* whose struct types name one field at a time: what is kept in a node or in a
\* symbol is no error value as long as nothing is reported, and a node is asked
\* for a second time only by an identifier, which does not look at the answer.
THEOREM ErrorsAreReported == Spec => [](OneNameEach => BadIsReported)
<1>1. TypingInv /\ WalkInv /\ ErrInv /\ [Next]_vars => WalkInv' /\ ErrInv'
  BY WalkInvKept, ErrInvKept DEF TypingInv
<1>2. ErrInv => (OneNameEach => BadIsReported)
  BY DEF ErrInv, CleanState, ReturnClean, BadIsReported
<1> QED BY <1>1, <1>2, WalkInvInitially, ErrInvInitially, TypingInvAlways, PTL DEF Spec
=============================================================================
