--------------------------- MODULE Interner_proofs ---------------------------
(***************************************************************************)
(* The interner is correct for every set of strings, every hash function   *)
(* and every size of the first table: its types, that a search meets no    *)
(* gap and each string has one entry, and that the table implements        *)
(* Interning.                                                              *)
(***************************************************************************)
EXTENDS Interner, TLAPS

(***************************************************************************)
(* Facts about the table.                                                  *)
(***************************************************************************)
LEMMA CopyIsNotNull == ASSUME NEW e \in Copy PROVE e # Null
BY DEF Copy, Null

LEMMA EntryIsCopy == ASSUME NEW e \in Entry, e # Null PROVE e \in Copy
BY DEF Entry

LEMMA ModInRange == ASSUME NEW a \in Nat, NEW c \in Nat \ {0} PROVE a % c \in 0 .. c - 1
OBVIOUS

\* Every turn of a search looks at a slot of the table.
LEMMA SlotInTable ==
  ASSUME TypeOK, NEW s \in Strings, NEW n \in Nat
  PROVE  Slot(s, n) \in Slots(cap)
<1>1. hash[s] \in Nat /\ cap \in Nat \ {0}
  BY DEF TypeOK
<1>2. hash[s] + n \in Nat
  BY <1>1
<1> QED BY <1>1, <1>2, ModInRange DEF Slot, Slots

LEMMA NewTableType == ASSUME NEW c PROVE NewTable(c) \in [Slots(c) -> Entry]
BY DEF NewTable, Entry

\* Putting a copy into a slot keeps the table a table.
LEMMA PutType ==
  ASSUME TypeOK, NEW p \in Slots(cap), NEW e \in Entry
  PROVE  [entries EXCEPT ![p] = e] \in [Slots(cap) -> Entry]
BY DEF TypeOK

(***************************************************************************)
(* Types.                                                                  *)
(***************************************************************************)
LEMMA InsertKeepsType == ASSUME TypeOK, Insert PROVE TypeOK'
<1> DEFINE e == [str |-> arg, ptr |-> copies + 1]
<1>1. arg \in Strings /\ copies \in Nat /\ len \in Nat /\ d \in Nat
  BY DEF TypeOK, Insert
<1>2. e \in Copy
  BY <1>1 DEF Copy
<1>3. Here \in Slots(cap)
  BY <1>1, SlotInTable DEF Here
<1>4. entries' \in [Slots(cap) -> Entry]
  <2>1. [entries EXCEPT ![Here] = e] \in [Slots(cap) -> Entry]
    BY <1>2, <1>3, PutType DEF Entry
  <2> QED BY <2>1 DEF Insert
<1>5. copies' \in Nat /\ len' \in Nat
  BY <1>1 DEF Insert
<1> QED BY <1>4, <1>5 DEF TypeOK, Insert, Answer, Slots

LEMMA MoveKeepsType == ASSUME TypeOK, Move PROVE TypeOK'
<1>1. i \in Slots(oldCap) /\ old[i] \in Copy
  BY EntryIsCopy DEF TypeOK, Move, Moving, Slots
<1>2. Target \in Slots(cap)
  BY <1>1, SlotInTable DEF Target, Copy, TypeOK
<1>3. entries' \in [Slots(cap) -> Entry]
  <2>1. [entries EXCEPT ![Target] = old[i]] \in [Slots(cap) -> Entry]
    BY <1>1, <1>2, PutType DEF Entry
  <2> QED BY <2>1 DEF Move
<1>4. i' \in 0 .. oldCap
  BY <1>1 DEF Move, Moving, TypeOK, Slots
<1> QED BY <1>3, <1>4 DEF TypeOK, Move, Moving, Slots

LEMMA GrowKeepsType == ASSUME TypeOK, NEW s \in Strings, Grow(s) PROVE TypeOK'
<1>1. cap' \in Nat \ {0}
  BY DEF TypeOK, Grow
<1>2. entries' \in [Slots(cap') -> Entry]
  BY NewTableType DEF Grow
<1>3. oldCap' \in Nat /\ old' \in [Slots(oldCap') -> Entry] /\ i' \in 0 .. oldCap'
  BY DEF TypeOK, Grow, Slots
<1> QED BY <1>1, <1>2, <1>3 DEF TypeOK, Grow

LEMMA MovedKeepsType == ASSUME TypeOK, Moved PROVE TypeOK'
<1>1. old' \in [Slots(oldCap') -> Entry] /\ oldCap' = 0
  BY NewTableType DEF Moved
<1> QED BY <1>1 DEF TypeOK, Moved, Slots

LEMMA NextKeepsType == ASSUME TypeOK, [Next]_vars PROVE TypeOK'
<1>1. CASE \E s \in Strings : Intern(s)
  BY <1>1 DEF TypeOK, Intern, Slots
<1>2. CASE \E s \in Strings : Grow(s)
  BY <1>2, GrowKeepsType
<1>3. CASE SkipUnused
  BY <1>3 DEF TypeOK, SkipUnused, Moving, Slots
<1>4. CASE Move
  BY <1>4, MoveKeepsType
<1>5. CASE MoveWalk
  BY <1>5 DEF TypeOK, MoveWalk, Slots
<1>6. CASE Moved
  BY <1>6, MovedKeepsType
<1>7. CASE Insert
  BY <1>7, InsertKeepsType
<1>8. CASE Found
  BY <1>8 DEF TypeOK, Found, Answer, Slots
<1>9. CASE Walk
  BY <1>9 DEF TypeOK, Walk, Slots
<1>10. CASE UNCHANGED vars
  BY <1>10 DEF TypeOK, vars, Slots
<1> QED BY <1>1, <1>2, <1>3, <1>4, <1>5, <1>6, <1>7, <1>8, <1>9, <1>10
        DEF Next, Step, Rehash, Probe

LEMMA InitType == Init => TypeOK
<1> SUFFICES ASSUME Init PROVE TypeOK
  OBVIOUS
<1>1. hash \in [Strings -> Nat] /\ cap \in Nat \ {0}
  BY HashesAssumption, CapacityAssumption DEF Init
<1>2. entries \in [Slots(cap) -> Entry] /\ old \in [Slots(oldCap) -> Entry]
  BY NewTableType DEF Init
<1> QED BY <1>1, <1>2 DEF Init, TypeOK

\* The variables keep their types: TypeOK, for all strings, hashes and sizes.
THEOREM TypeCorrect == Spec => []TypeOK
<1>1. Init => TypeOK
  BY InitType
<1>2. TypeOK /\ [Next]_vars => TypeOK'
  BY NextKeepsType
<1> QED BY <1>1, <1>2, PTL DEF Spec

(***************************************************************************)
(* The invariant.  NoGaps and OneEntryEach are not inductive alone: what   *)
(* makes it right to insert where a search ends is what the search has     *)
(* seen on its way there.                                                  *)
(***************************************************************************)
\* The slots a search has passed are used, and by other strings.
Searching ==
  /\ pc = "probe" => \A m \in 0 .. d - 1 :
       Slot(arg, m) \in Used /\ entries[Slot(arg, m)].str # arg
  /\ Moving => IF old[i] = Null THEN d = 0
               ELSE \A m \in 0 .. d - 1 : Slot(old[i].str, m) \in Used

\* No two entries have one pointer, and none has the next copy's.
PointersDiffer ==
  \A e, f \in Held : e.ptr <= copies /\ (e.ptr = f.ptr => e = f)

IInv == TypeOK /\ NoGaps /\ OneEntryEach /\ Searching /\ PointersDiffer

(***************************************************************************)
(* Searches.                                                               *)
(***************************************************************************)
LEMMA ModTurn ==
  ASSUME NEW a \in Nat, NEW c \in Nat \ {0}, a >= c
  PROVE  (a - c) % c = a % c
<1> DEFINE b == a - c
           x == a % c
           y == b % c
           p == a \div c
           q == b \div c
<1>1. b \in Nat
  OBVIOUS
<1>2. /\ a = c * p + x /\ p \in Int /\ x \in 0 .. c - 1
      /\ b = c * q + y /\ q \in Int /\ y \in 0 .. c - 1
  BY <1>1
<1>3. c * p + x = c * q + y + c
  BY <1>2
<1>4. c * (p - q - 1) = y - x
  BY <1>2, <1>3
<1> HIDE DEF p, q, x, y, b
<1>5. p - q - 1 = 0
  <2> DEFINE k == p - q - 1
  <2>1. k \in Int /\ c * k = y - x
    BY <1>2, <1>4
  <2> HIDE DEF k
  <2>2. ASSUME k >= 1 PROVE FALSE
    <3>1. c * k >= c
      BY <2>1, <2>2
    <3> QED BY <3>1, <2>1, <1>2
  <2>3. ASSUME k <= -1 PROVE FALSE
    <3>1. c * k <= -c
      BY <2>1, <2>3
    <3> QED BY <3>1, <2>1, <1>2
  <2>4. k = 0
    BY <2>1, <2>2, <2>3
  <2> QED BY <2>4 DEF k
<1>6. x = y
  BY <1>2, <1>4, <1>5
<1> QED BY <1>6 DEF x, y, b

\* A search that ends at a slot it has not seen ends within one turn.
LEMMA SearchIsShort ==
  ASSUME TypeOK, NEW s \in Strings, NEW n \in Nat, Slot(s, n) \notin Used,
         \A m \in 0 .. n - 1 : Slot(s, m) \in Used
  PROVE  n \in Slots(cap)
<1>1. hash[s] \in Nat /\ cap \in Nat \ {0}
  BY DEF TypeOK
<1>2. ASSUME n >= cap PROVE FALSE
  <2>1. n - cap \in 0 .. n - 1
    BY <1>1, <1>2
  <2>2. hash[s] + n \in Nat /\ hash[s] + n >= cap
    BY <1>1, <1>2
  <2>3. ((hash[s] + n) - cap) % cap = (hash[s] + n) % cap
    BY <1>1, <2>2, ModTurn
  <2>4. (hash[s] + n) - cap = hash[s] + (n - cap)
    BY <1>1
  <2>5. Slot(s, n - cap) = Slot(s, n)
    BY <2>3, <2>4 DEF Slot
  <2> QED BY <2>1, <2>5
<1> QED BY <1>1, <1>2 DEF Slots

\* A search for s that has met a gap and not met s proves that s is not there.
LEMMA NotThere ==
  ASSUME TypeOK, NoGaps, NEW s \in Strings, NEW n \in Nat, Slot(s, n) \notin Used,
         \A m \in 0 .. n - 1 : entries[Slot(s, m)].str # s
  PROVE  \A p \in Used : entries[p].str # s
<1> SUFFICES ASSUME NEW p \in Used, entries[p].str = s PROVE FALSE
  OBVIOUS
<1>1. PICK k \in Slots(cap) : p = Slot(s, k) /\ \A m \in 0 .. k - 1 : Slot(s, m) \in Used
  BY DEF NoGaps
<1>2. cap \in Nat /\ k \in Nat
  BY DEF TypeOK, Slots
<1>3. k >= n
  BY <1>1, <1>2
<1>4. k # n
  BY <1>1
<1>5. n \in 0 .. k - 1
  BY <1>2, <1>3, <1>4
<1> QED BY <1>1, <1>5

(***************************************************************************)
(* A slot is filled.                                                       *)
(***************************************************************************)
\* e goes to the slot where the search for its string met a gap.
Fills(e, n) ==
  /\ Slot(e.str, n) \notin Used
  /\ \A m \in 0 .. n - 1 : Slot(e.str, m) \in Used
  /\ entries' = [entries EXCEPT ![Slot(e.str, n)] = e]
  /\ UNCHANGED <<hash, cap>>

LEMMA FillAdds ==
  ASSUME TypeOK, NEW e \in Copy, NEW n \in Nat, Fills(e, n)
  PROVE  /\ Used' = Used \cup {Slot(e.str, n)}
         /\ entries'[Slot(e.str, n)] = e
         /\ \A p \in Used : entries'[p] = entries[p]
<1> DEFINE q == Slot(e.str, n)
<1>1. e.str \in Strings
  BY DEF Copy
<1>2. q \in Slots(cap)
  BY <1>1, SlotInTable
<1>3. entries \in [Slots(cap) -> Entry] /\ e # Null
  BY CopyIsNotNull DEF TypeOK
<1>4. entries' = [entries EXCEPT ![q] = e] /\ cap' = cap
  BY DEF Fills
<1>5. entries'[q] = e /\ \A p \in Slots(cap) : p # q => entries'[p] = entries[p]
  BY <1>2, <1>3, <1>4
<1>6. q \notin Used
  BY DEF Fills
<1> HIDE DEF q
<1>7. Used' = Used \cup {q}
  BY <1>2, <1>3, <1>4, <1>5 DEF Used
<1>8. \A p \in Used : entries'[p] = entries[p]
  BY <1>5, <1>6 DEF Used
<1> QED BY <1>5, <1>7, <1>8 DEF q

LEMMA FillKeepsNoGaps ==
  ASSUME TypeOK, NoGaps, NEW e \in Copy, NEW n \in Nat, Fills(e, n)
  PROVE  NoGaps'
<1>1. \A t, m : Slot(t, m)' = Slot(t, m)
  BY DEF Slot, Fills
<1>2. Used \subseteq Used' /\ cap' = cap
  BY FillAdds DEF Fills
<1> SUFFICES ASSUME NEW p \in Used'
             PROVE  \E k \in Slots(cap) :
                      /\ p = Slot(entries'[p].str, k)
                      /\ \A m \in 0 .. k - 1 : Slot(entries'[p].str, m) \in Used'
  BY <1>1, <1>2 DEF NoGaps, Slots
<1>3. CASE p \in Used
  <2>1. entries'[p] = entries[p]
    BY <1>3, FillAdds
  <2>2. PICK k \in Slots(cap) : /\ p = Slot(entries[p].str, k)
                                /\ \A m \in 0 .. k - 1 : Slot(entries[p].str, m) \in Used
    BY <1>3 DEF NoGaps
  <2> QED BY <1>2, <2>1, <2>2
<1>4. CASE p = Slot(e.str, n)
  <2>1. entries'[p] = e
    BY <1>4, FillAdds
  <2>2. n \in Slots(cap)
    BY SearchIsShort DEF Fills, Copy
  <2>3. \A m \in 0 .. n - 1 : Slot(e.str, m) \in Used'
    BY <1>2 DEF Fills
  <2> QED BY <1>4, <2>1, <2>2, <2>3
<1> QED BY <1>3, <1>4, FillAdds

(***************************************************************************)
(* What is held.                                                           *)
(***************************************************************************)
\* One string, one entry.
LEMMA HeldOnce ==
  ASSUME OneEntryEach, NEW e \in Held, NEW f \in Held, e.str = f.str
  PROVE  e = f
BY DEF Held, OneEntryEach

LEMMA HeldAreCopies == ASSUME TypeOK PROVE Held \subseteq Copy
<1>1. \A p \in Used : entries[p] \in Copy
  BY EntryIsCopy DEF Used, TypeOK
<1>2. \A q \in Waiting : old[q] \in Copy
  BY EntryIsCopy DEF Waiting, TypeOK
<1> QED BY <1>1, <1>2 DEF Held

\* When no table is being doubled there is only one.
LEMMA NoneWaiting == ASSUME TypeOK, pc # "rehash" PROVE Waiting = {}
BY DEF Waiting, TypeOK, Slots

LEMMA NoneLeft == ASSUME TypeOK, i = oldCap PROVE Waiting = {}
BY DEF Waiting, TypeOK, Slots

(***************************************************************************)
(* The steps.                                                              *)
(***************************************************************************)
\* Steps that leave the tables alone.
LEMMA TablesStay ==
  ASSUME UNCHANGED <<hash, cap, entries, old, oldCap, i, copies>>
  PROVE  /\ NoGaps => NoGaps'
         /\ OneEntryEach => OneEntryEach'
         /\ PointersDiffer => PointersDiffer'
         /\ Held' = Held /\ Used' = Used
         /\ \A s, n : Slot(s, n)' = Slot(s, n)
<1>1. Used' = Used /\ Waiting' = Waiting
  BY DEF Used, Waiting
<1>2. \A s, n : Slot(s, n)' = Slot(s, n)
  BY DEF Slot
<1>3. Held' = Held
  BY <1>1 DEF Held
<1>4. NoGaps => NoGaps'
  BY <1>1, <1>2 DEF NoGaps
<1>5. OneEntryEach => OneEntryEach'
  BY <1>1 DEF OneEntryEach
<1>6. PointersDiffer => PointersDiffer'
  BY <1>3 DEF PointersDiffer
<1> QED BY <1>1, <1>2, <1>3, <1>4, <1>5, <1>6

LEMMA InsertIsFill ==
  ASSUME IInv, Insert
  PROVE  \E e \in Copy : e = [str |-> arg, ptr |-> copies + 1] /\ Fills(e, d)
<1> DEFINE e == [str |-> arg, ptr |-> copies + 1]
<1>1. arg \in Strings /\ copies \in Nat /\ d \in Nat
  BY DEF IInv, TypeOK, Insert
<1>2. e \in Copy /\ e.str = arg
  BY <1>1 DEF Copy
<1>3. Slot(arg, d) \notin Used
  BY DEF Insert, Here, Used
<1>4. \A m \in 0 .. d - 1 : Slot(arg, m) \in Used
  BY DEF IInv, Searching, Insert
<1>5. entries' = [entries EXCEPT ![Slot(arg, d)] = e] /\ UNCHANGED <<hash, cap>>
  BY DEF Insert, Here
<1> HIDE DEF e
<1>6. Fills(e, d)
  BY <1>2, <1>3, <1>4, <1>5 DEF Fills
<1> QED BY <1>2, <1>6 DEF e

LEMMA InsertAdds ==
  ASSUME IInv, Insert
  PROVE  /\ \A f \in Held : f.str # arg
         /\ Held' = Held \cup {[str |-> arg, ptr |-> copies + 1]}
         /\ NoGaps' /\ OneEntryEach'
<1>1. PICK e \in Copy : e = [str |-> arg, ptr |-> copies + 1] /\ Fills(e, d)
  BY InsertIsFill
<1>2. arg \in Strings /\ d \in Nat /\ e.str = arg
  BY <1>1 DEF IInv, TypeOK, Insert
<1>3. Waiting = {} /\ Waiting' = {}
  <2>1. Waiting = {}
    BY NoneWaiting DEF IInv, Insert
  <2> QED BY <2>1 DEF Waiting, Insert
<1>4. \A p \in Used : entries[p].str # arg
  <2>1. \A m \in 0 .. d - 1 : entries[Slot(arg, m)].str # arg
    BY DEF IInv, Searching, Insert
  <2>2. Slot(arg, d) \notin Used
    BY <1>1, <1>2 DEF Fills
  <2> QED BY <1>2, <2>1, <2>2, NotThere DEF IInv
<1>5. /\ Used' = Used \cup {Slot(arg, d)}
      /\ entries'[Slot(arg, d)] = e
      /\ \A p \in Used : entries'[p] = entries[p]
  BY <1>1, <1>2, FillAdds DEF IInv
<1>6. Held' = Held \cup {e}
  BY <1>3, <1>5 DEF Held
<1>7. NoGaps'
  BY <1>1, <1>2, FillKeepsNoGaps DEF IInv
<1>8. OneEntryEach'
  BY <1>2, <1>3, <1>4, <1>5 DEF IInv, OneEntryEach
<1>9. \A f \in Held : f.str # arg
  BY <1>3, <1>4 DEF Held
<1> QED BY <1>1, <1>6, <1>7, <1>8, <1>9

LEMMA MoveMoves ==
  ASSUME IInv, Move
  PROVE  Held' = Held /\ NoGaps' /\ OneEntryEach'
<1> DEFINE e == old[i]
<1>1. i \in Slots(oldCap) /\ e \in Copy /\ d \in Nat /\ oldCap \in Nat
  BY EntryIsCopy DEF IInv, TypeOK, Move, Moving, Slots
<1>2. Fills(e, d)
  BY DEF Fills, Move, Target, Used, IInv, Searching, Moving
<1>3. i \in Waiting /\ Waiting' = Waiting \ {i}
  <2>1. i \in Waiting
    BY <1>1 DEF Waiting, Move, Slots
  <2>2. i' = i + 1 /\ UNCHANGED <<old, oldCap>>
    BY DEF Move
  <2>3. Waiting' = Waiting \ {i}
    BY <1>1, <2>2 DEF Waiting, Slots
  <2> QED BY <2>1, <2>3
<1>4. /\ Used' = Used \cup {Slot(e.str, d)}
      /\ entries'[Slot(e.str, d)] = e
      /\ \A p \in Used : entries'[p] = entries[p]
  BY <1>1, <1>2, FillAdds DEF IInv
<1>5. old' = old
  BY DEF Move
<1>6. Held' = Held
  BY <1>3, <1>4, <1>5 DEF Held
<1>7. NoGaps'
  BY <1>1, <1>2, FillKeepsNoGaps DEF IInv
<1>8. OneEntryEach'
  BY <1>3, <1>4, <1>5 DEF IInv, OneEntryEach
<1> QED BY <1>6, <1>7, <1>8

LEMMA GrowMoves ==
  ASSUME IInv, NEW s \in Strings, Grow(s)
  PROVE  Held' = Held /\ NoGaps' /\ OneEntryEach'
<1>1. Used' = {}
  BY DEF Grow, Used, NewTable
<1>2. Waiting = {}
  BY NoneWaiting DEF IInv, Grow
<1>3. Waiting' = Used /\ old' = entries
  BY DEF Grow, Waiting, Used, Slots
<1>4. Held' = Held
  BY <1>1, <1>2, <1>3 DEF Held
<1>5. NoGaps'
  BY <1>1 DEF NoGaps
<1>6. OneEntryEach'
  BY <1>1, <1>3 DEF IInv, OneEntryEach
<1> QED BY <1>4, <1>5, <1>6

LEMMA SkipMoves ==
  ASSUME IInv, SkipUnused
  PROVE  Held' = Held /\ NoGaps' /\ OneEntryEach'
<1>1. Used' = Used /\ entries' = entries /\ old' = old
  BY DEF Used, SkipUnused
<1>2. Waiting' = Waiting
  BY DEF Waiting, SkipUnused, IInv, TypeOK, Slots
<1>3. \A t, n : Slot(t, n)' = Slot(t, n)
  BY DEF Slot, SkipUnused
<1>4. NoGaps'
  BY <1>1, <1>3 DEF IInv, NoGaps, SkipUnused
<1> QED BY <1>1, <1>2, <1>4 DEF Held, IInv, OneEntryEach

LEMMA MovedMoves ==
  ASSUME IInv, Moved
  PROVE  Held' = Held /\ NoGaps' /\ OneEntryEach'
<1>1. Used' = Used /\ entries' = entries
  BY DEF Used, Moved
<1>2. Waiting = {} /\ Waiting' = {}
  BY NoneLeft DEF Waiting, Moved, IInv, Slots
<1>3. \A t, n : Slot(t, n)' = Slot(t, n)
  BY DEF Slot, Moved
<1>4. NoGaps'
  BY <1>1, <1>3 DEF IInv, NoGaps, Moved
<1> QED BY <1>1, <1>2, <1>4 DEF Held, IInv, OneEntryEach

\* Steps that add nothing keep the pointers apart.
LEMMA SameHeldSamePointers ==
  ASSUME PointersDiffer, Held' = Held, copies' = copies
  PROVE  PointersDiffer'
BY DEF PointersDiffer

LEMMA InsertKeepsPointers == ASSUME IInv, Insert PROVE PointersDiffer'
<1> DEFINE new == [str |-> arg, ptr |-> copies + 1]
<1>1. copies \in Nat /\ copies' = copies + 1
  BY DEF IInv, TypeOK, Insert
<1>2. Held' = Held \cup {new} /\ new.ptr = copies + 1
  BY InsertAdds
<1>3. \A e \in Held : e.ptr \in Nat /\ e.ptr <= copies
  BY HeldAreCopies DEF IInv, PointersDiffer, Copy
<1>4. \A e, f \in Held : e.ptr = f.ptr => e = f
  BY DEF IInv, PointersDiffer
<1> HIDE DEF new
<1>5. \A e \in Held : e.ptr # new.ptr
  BY <1>1, <1>2, <1>3
<1> QED BY <1>1, <1>2, <1>3, <1>4, <1>5 DEF PointersDiffer

(***************************************************************************)
(* The invariant holds.                                                    *)
(***************************************************************************)
LEMMA WalkKeepsSearching == ASSUME IInv, Walk PROVE Searching'
<1>1. d \in Nat /\ arg \in Strings /\ pc = "probe" /\ pc' = "probe" /\ d' = d + 1
  BY DEF IInv, TypeOK, Walk
<1>2. Used' = Used /\ \A s, n : Slot(s, n)' = Slot(s, n)
  BY DEF Walk, Used, Slot
<1>3. UNCHANGED <<arg, entries>>
  BY DEF Walk
<1>4. Slot(arg, d) \in Used /\ entries[Slot(arg, d)].str # arg
  BY <1>1, SlotInTable DEF IInv, Walk, Here, Used, Matches
<1>5. \A m \in 0 .. d' - 1 : Slot(arg, m) \in Used /\ entries[Slot(arg, m)].str # arg
  BY <1>1, <1>4 DEF IInv, Searching
<1> QED BY <1>1, <1>2, <1>3, <1>5 DEF Searching, Moving

LEMMA MoveWalkKeepsSearching == ASSUME IInv, MoveWalk PROVE Searching'
<1> DEFINE s == old[i].str
<1>1. d \in Nat /\ i \in Slots(oldCap) /\ old[i] \in Copy /\ d' = d + 1 /\ pc' = "rehash"
  BY EntryIsCopy DEF IInv, TypeOK, MoveWalk, Moving, Slots
<1>2. Used' = Used /\ \A t, n : Slot(t, n)' = Slot(t, n)
  BY DEF MoveWalk, Used, Slot
<1>3. UNCHANGED <<old, i, oldCap>>
  BY DEF MoveWalk
<1>4. Slot(s, d) \in Used
  BY <1>1, SlotInTable DEF IInv, MoveWalk, Target, Used, Copy
<1>5. \A m \in 0 .. d' - 1 : Slot(s, m) \in Used
  BY <1>1, <1>4 DEF IInv, Searching, MoveWalk
<1> QED BY <1>1, <1>2, <1>3, <1>5 DEF Searching, MoveWalk

\* A search that has not begun has passed nothing.
LEMMA FreshSearch ==
  ASSUME d' = 0
  PROVE  Searching'
BY DEF Searching

LEMMA NextKeepsIInv == ASSUME IInv, [Next]_vars PROVE IInv'
<1>1. TypeOK'
  BY NextKeepsType DEF IInv
<1>2. CASE \E s \in Strings : Intern(s)
  <2>1. UNCHANGED <<hash, cap, entries, old, oldCap, i, copies>> /\ d' = 0
    BY <1>2 DEF Intern
  <2> QED BY <1>1, <2>1, TablesStay, FreshSearch DEF IInv
<1>3. CASE \E s \in Strings : Grow(s)
  <2>1. d' = 0 /\ copies' = copies
    BY <1>3 DEF Grow
  <2> QED BY <1>1, <1>3, <2>1, GrowMoves, FreshSearch, SameHeldSamePointers DEF IInv
<1>4. CASE SkipUnused
  <2>1. d' = 0 /\ copies' = copies
    BY <1>4 DEF SkipUnused, IInv, Searching
  <2> QED BY <1>1, <1>4, <2>1, SkipMoves, FreshSearch, SameHeldSamePointers DEF IInv
<1>5. CASE Move
  <2>1. d' = 0 /\ copies' = copies
    BY <1>5 DEF Move
  <2> QED BY <1>1, <1>5, <2>1, MoveMoves, FreshSearch, SameHeldSamePointers DEF IInv
<1>6. CASE MoveWalk
  <2>1. UNCHANGED <<hash, cap, entries, old, oldCap, i, copies>>
    BY <1>6 DEF MoveWalk
  <2> QED BY <1>1, <1>6, <2>1, TablesStay, MoveWalkKeepsSearching DEF IInv
<1>7. CASE Moved
  <2>1. d' = 0 /\ copies' = copies
    BY <1>7 DEF Moved
  <2> QED BY <1>1, <1>7, <2>1, MovedMoves, FreshSearch, SameHeldSamePointers DEF IInv
<1>8. CASE Insert
  <2>1. d' = 0
    BY <1>8 DEF Insert, Answer
  <2> QED BY <1>1, <1>8, <2>1, InsertAdds, InsertKeepsPointers, FreshSearch DEF IInv
<1>9. CASE Found
  <2>1. UNCHANGED <<hash, cap, entries, old, oldCap, i, copies>> /\ d' = 0
    BY <1>9 DEF Found, Answer
  <2> QED BY <1>1, <2>1, TablesStay, FreshSearch DEF IInv
<1>10. CASE Walk
  <2>1. UNCHANGED <<hash, cap, entries, old, oldCap, i, copies>>
    BY <1>10 DEF Walk
  <2> QED BY <1>1, <1>10, <2>1, TablesStay, WalkKeepsSearching DEF IInv
<1>11. CASE UNCHANGED vars
  <2>1. UNCHANGED <<hash, cap, entries, old, oldCap, i, copies>> /\ UNCHANGED <<pc, arg, d>>
    BY <1>11 DEF vars
  <2>2. Searching'
    BY <2>1, TablesStay DEF IInv, Searching, Moving
  <2> QED BY <1>1, <2>1, <2>2, TablesStay DEF IInv
<1> QED BY <1>2, <1>3, <1>4, <1>5, <1>6, <1>7, <1>8, <1>9, <1>10, <1>11
        DEF Next, Step, Rehash, Probe

LEMMA InitIInv == ASSUME Init PROVE IInv /\ Held = {}
<1>1. Used = {} /\ Waiting = {}
  BY DEF Init, Used, Waiting, NewTable, Slots
<1>2. Held = {}
  BY <1>1 DEF Held
<1>3. Searching
  BY DEF Init, Searching, Moving
<1> QED BY <1>1, <1>2, <1>3, InitType DEF IInv, NoGaps, OneEntryEach, PointersDiffer

THEOREM Invariance == Spec => []IInv
<1>1. Init => IInv
  BY InitIInv
<1>2. IInv /\ [Next]_vars => IInv'
  BY NextKeepsIInv
<1> QED BY <1>1, <1>2, PTL DEF Spec

\* A search meets no gap before the entry it looks for: intern_str finds what
\* it has interned, also while grow_and_rehash is under way.
THEOREM SearchesFind == Spec => []NoGaps
<1>1. IInv => NoGaps
  BY DEF IInv
<1> QED BY <1>1, Invariance, PTL

\* intern_str never makes a second entry for a string.
THEOREM OneEntry == Spec => []OneEntryEach
<1>1. IInv => OneEntryEach
  BY DEF IInv
<1> QED BY <1>1, Invariance, PTL

(***************************************************************************)
(* The table implements Interning: the calls' answers are New or Known,    *)
(* every other step stutters, and growing is invisible.                    *)
(***************************************************************************)
LEMMA PointerIs ==
  ASSUME OneEntryEach, NEW e \in Held
  PROVE  e.str \in DOMAIN PointerOf /\ PointerOf[e.str] = e.ptr
<1>1. \A f \in Held : f.str = e.str => f = e
  BY HeldOnce
<1>2. (CHOOSE f \in Held : f.str = e.str) = e
  BY <1>1
<1> QED BY <1>2 DEF PointerOf

LEMMA SamePointers == ASSUME Held' = Held PROVE PointerOf' = PointerOf
BY DEF PointerOf

LEMMA FoundIsKnown == ASSUME IInv, Found PROVE \E s \in Strings : Names!Known(s)
<1> DEFINE e == entries[Here]
<1>1. arg \in Strings /\ d \in Nat
  BY DEF IInv, TypeOK, Found
<1>2. e \in Held /\ e.str = arg
  BY <1>1, SlotInTable DEF Held, Used, Found, Matches, Here, IInv
<1>3. arg \in DOMAIN PointerOf /\ PointerOf[arg] = e.ptr
  BY <1>2, PointerIs DEF IInv
<1>4. reply' = <<arg, e.ptr>>
  BY DEF Found, Answer
<1>5. PointerOf' = PointerOf
  <2>1. UNCHANGED <<hash, cap, entries, old, oldCap, i, copies>>
    BY DEF Found
  <2> QED BY <2>1, TablesStay, SamePointers
<1> QED BY <1>1, <1>3, <1>4, <1>5 DEF Names!Known

LEMMA InsertIsNew == ASSUME IInv, Insert PROVE \E s \in Strings : Names!New(s)
<1> DEFINE new == [str |-> arg, ptr |-> copies + 1]
<1>1. arg \in Strings /\ copies \in Nat
  BY DEF IInv, TypeOK, Insert
<1>2. new.str = arg /\ new.ptr = copies + 1
  OBVIOUS
<1>3. Held' = Held \cup {new} /\ (\A f \in Held : f.str # arg)
  BY InsertAdds
<1>4. reply' = <<arg, copies + 1>>
  BY DEF Insert, Answer
<1> HIDE DEF new
<1>5. arg \notin DOMAIN PointerOf
  BY <1>3 DEF PointerOf
<1>6. \A t \in DOMAIN PointerOf : \E e \in Held : t = e.str /\ PointerOf[t] = e.ptr
  <2> SUFFICES ASSUME NEW t \in DOMAIN PointerOf
               PROVE  \E e \in Held : t = e.str /\ PointerOf[t] = e.ptr
    OBVIOUS
  <2>1. PICK e \in Held : t = e.str
    BY DEF PointerOf
  <2> QED BY <2>1, PointerIs DEF IInv
<1>7. \A t \in DOMAIN PointerOf : PointerOf[t] # copies + 1
  <2>1. \A e \in Held : e.ptr \in Nat /\ e.ptr <= copies
    BY HeldAreCopies DEF IInv, PointersDiffer, Copy
  <2> QED BY <1>1, <1>6, <2>1
<1>8. PointerOf' = [t \in DOMAIN PointerOf \cup {arg} |->
                      IF t = arg THEN copies + 1 ELSE PointerOf[t]]
  <2>1. DOMAIN PointerOf = {e.str : e \in Held}
    BY DEF PointerOf
  <2>2. DOMAIN PointerOf' = {e.str : e \in Held'}
    BY DEF PointerOf
  <2>3. DOMAIN PointerOf' = DOMAIN PointerOf \cup {arg}
    BY <1>2, <1>3, <2>1, <2>2
  <2>4. \A e \in Held' : PointerOf'[e.str] = e.ptr
    <3>1. \A e, f \in Held' : e.str = f.str => e = f
      BY <1>2, <1>3, HeldOnce DEF IInv
    <3> SUFFICES ASSUME NEW e \in Held' PROVE PointerOf'[e.str] = e.ptr
      OBVIOUS
    <3>2. (CHOOSE f \in Held' : f.str = e.str) = e
      BY <3>1
    <3> QED BY <3>2 DEF PointerOf
  <2>5. PointerOf'[arg] = copies + 1
    BY <1>2, <1>3, <2>4
  <2>6. \A t \in DOMAIN PointerOf : PointerOf'[t] = PointerOf[t]
    BY <1>3, <1>6, <2>4
  <2>7. PointerOf' = [t \in DOMAIN PointerOf' |-> PointerOf'[t]]
    BY DEF PointerOf
  <2> QED BY <1>5, <2>3, <2>5, <2>6, <2>7
<1>9. reply'[2] = copies + 1 /\ copies + 1 \in Nat \ {0}
  BY <1>1, <1>4
<1> QED BY <1>1, <1>4, <1>5, <1>7, <1>8, <1>9 DEF Names!New

LEMMA OthersStutter ==
  ASSUME Held' = Held, reply' = reply
  PROVE  UNCHANGED Names!vars
BY SamePointers DEF Names!vars

LEMMA StepsAllowed == ASSUME IInv, [Next]_vars PROVE [Names!Next]_(Names!vars)
<1>1. CASE Insert
  BY <1>1, InsertIsNew DEF Names!Next
<1>2. CASE Found
  BY <1>2, FoundIsKnown DEF Names!Next
<1>3. CASE \E s \in Strings : Grow(s)
  BY <1>3, GrowMoves, OthersStutter DEF Grow
<1>4. CASE SkipUnused
  BY <1>4, SkipMoves, OthersStutter DEF SkipUnused
<1>5. CASE Move
  BY <1>5, MoveMoves, OthersStutter DEF Move
<1>6. CASE Moved
  BY <1>6, MovedMoves, OthersStutter DEF Moved
<1>7. CASE (\E s \in Strings : Intern(s)) \/ MoveWalk \/ Walk \/ UNCHANGED vars
  <2>1. UNCHANGED <<hash, cap, entries, old, oldCap, i, copies>> /\ reply' = reply
    BY <1>7 DEF Intern, MoveWalk, Walk, vars
  <2> QED BY <2>1, TablesStay, OthersStutter
<1> QED BY <1>1, <1>2, <1>3, <1>4, <1>5, <1>6, <1>7
        DEF Next, Step, Rehash, Probe

LEMMA InitAllowed == ASSUME Init PROVE Names!Init
<1>1. Held = {}
  BY InitIInv
<1>2. PointerOf = [s \in {} |-> 0]
  BY <1>1 DEF PointerOf
<1> QED BY <1>2 DEF Names!Init, Init

\* intern_str answers one pointer for each string for good, and different ones
\* for different strings: whether two names are one may be decided by
\* comparing their pointers.
THEOREM Implements == Spec => ImplementsInterning
<1>1. Init => Names!Init
  BY InitAllowed
<1>2. IInv /\ [Next]_vars => [Names!Next]_(Names!vars)
  BY StepsAllowed
<1> QED BY <1>1, <1>2, Invariance, PTL DEF Spec, ImplementsInterning, Names!Spec
=============================================================================
