------------------------------ MODULE Interner ------------------------------
(***************************************************************************)
(* The interner (source/intern.c): open addressing with linear probing in  *)
(* a table of `cap` entries, doubled when seven tenths are used.  Nothing  *)
(* is ever removed.  One turn of a loop is one action.                     *)
(*                                                                         *)
(* The code's idx starts at hash & (cap - 1) and is stepped by one, with   *)
(* the same mask; cap is a power of two, so after d turns it is            *)
(* (hash + d) % cap, and d is what the module keeps.  A pointer is the     *)
(* number of the copy it points to, 0 is NULL.  The shortcut for a string  *)
(* that is its own entry's copy (e->str == start) finds what the           *)
(* comparison of the bytes finds and is left out.                          *)
(***************************************************************************)
EXTENDS Integers, FiniteSets

CONSTANTS
  Strings,    \* what the program interns
  NoString,
  Capacity,   \* INTERN_DEFAULT_CAP
  Hashes      \* what hash_bytes may make of the strings

ASSUME CapacityAssumption == Capacity \in Nat \ {0}
ASSUME HashesAssumption == Hashes \subseteq [Strings -> Nat]
ASSUME NoStringAssumption == NoString \notin Strings

VARIABLES
  hash,      \* hash_bytes
  cap,       \* the size of the table
  entries,   \* the table
  len,       \* how many entries are used
  old,       \* old_entries, while the table is being doubled
  oldCap,    \* its size, 0 when there is none
  i,         \* the old entry to be moved next
  d,         \* turns of the loop that looks for a slot
  pc,        \* "idle", "rehash" or "probe"
  arg,       \* the string intern_str was called with
  copies,    \* copies made so far
  reply      \* the last call's argument and answer

vars == <<hash, cap, entries, len, old, oldCap, i, d, pc, arg, copies, reply>>

Null == [str |-> NoString, ptr |-> 0]
Slots(c)   == 0 .. c - 1
NewTable(c) == [p \in Slots(c) |-> Null]

\* Where the d-th turn of the loop looks for s.
Slot(s, n) == (hash[s] + n) % cap

Limit == (cap * 7) \div 10

(***************************************************************************)
(* intern_str.                                                             *)
(***************************************************************************)
Intern(s) ==
  /\ pc = "idle" /\ len < Limit
  /\ arg' = s /\ d' = 0 /\ pc' = "probe"
  /\ UNCHANGED <<hash, cap, entries, len, old, oldCap, i, copies, reply>>

\* grow_and_rehash.  The code writes the new size when the loop is over; until
\* then it has it in new_cap, and nothing else reads it.
Grow(s) ==
  /\ pc = "idle" /\ len >= Limit
  /\ arg' = s /\ d' = 0 /\ pc' = "rehash"
  /\ old' = entries /\ oldCap' = cap /\ i' = 0
  /\ cap' = 2 * cap /\ entries' = NewTable(2 * cap)
  /\ UNCHANGED <<hash, len, copies, reply>>

Here == Slot(arg, d)

Answer(p) ==
  /\ reply' = <<arg, p>>
  /\ pc' = "idle" /\ arg' = NoString /\ d' = 0

Insert ==
  /\ pc = "probe" /\ entries[Here] = Null
  /\ entries' = [entries EXCEPT ![Here] = [str |-> arg, ptr |-> copies + 1]]
  /\ len' = len + 1 /\ copies' = copies + 1
  /\ Answer(copies + 1)
  /\ UNCHANGED <<hash, cap, old, oldCap, i>>

\* Mutant: strings with one hash are taken for one string.
HashMatches(e) == e # Null /\ hash[e.str] = hash[arg]

\* Hash, length and bytes are compared.
Matches(e) == e # Null /\ e.str = arg

Found ==
  /\ pc = "probe" /\ Matches(entries[Here])
  /\ Answer(entries[Here].ptr)
  /\ UNCHANGED <<hash, cap, entries, len, old, oldCap, i, copies>>

Walk ==
  /\ pc = "probe" /\ entries[Here] # Null /\ ~Matches(entries[Here])
  /\ d' = d + 1
  /\ UNCHANGED <<hash, cap, entries, len, old, oldCap, i, pc, arg, copies, reply>>

(***************************************************************************)
(* The loop of grow_and_rehash over the old entries.                       *)
(***************************************************************************)
Moving == pc = "rehash" /\ i < oldCap
Target == Slot(old[i].str, d)

SkipUnused ==
  /\ Moving /\ old[i] = Null
  /\ i' = i + 1
  /\ UNCHANGED <<hash, cap, entries, len, old, oldCap, d, pc, arg, copies, reply>>

\* Mutant: the search for the next entry's slot starts where this one ended.
MoveOn ==
  /\ Moving /\ old[i] # Null /\ entries[Target] = Null
  /\ entries' = [entries EXCEPT ![Target] = old[i]]
  /\ i' = i + 1
  /\ UNCHANGED <<hash, cap, len, old, oldCap, d, pc, arg, copies, reply>>

\* Mutant: the mask of the old table is used.
MoveWithOldMask ==
  /\ Moving /\ old[i] # Null /\ entries[((hash[old[i].str] % oldCap) + d) % cap] = Null
  /\ entries' = [entries EXCEPT ![((hash[old[i].str] % oldCap) + d) % cap] = old[i]]
  /\ i' = i + 1 /\ d' = 0
  /\ UNCHANGED <<hash, cap, len, old, oldCap, pc, arg, copies, reply>>

Move ==
  /\ Moving /\ old[i] # Null /\ entries[Target] = Null
  /\ entries' = [entries EXCEPT ![Target] = old[i]]
  /\ i' = i + 1 /\ d' = 0
  /\ UNCHANGED <<hash, cap, len, old, oldCap, pc, arg, copies, reply>>

\* Mutant: the slot that is taken is looked at for ever.
MoveStandStill ==
  /\ Moving /\ old[i] # Null /\ entries[Target] # Null
  /\ UNCHANGED vars

MoveWalk ==
  /\ Moving /\ old[i] # Null /\ entries[Target] # Null
  /\ d' = d + 1
  /\ UNCHANGED <<hash, cap, entries, len, old, oldCap, i, pc, arg, copies, reply>>

Moved ==
  /\ pc = "rehash" /\ i = oldCap
  /\ pc' = "probe" /\ d' = 0
  /\ old' = NewTable(0) /\ oldCap' = 0 /\ i' = 0
  /\ UNCHANGED <<hash, cap, entries, len, arg, copies, reply>>

(***************************************************************************)
(* The specification.                                                      *)
(***************************************************************************)
Init ==
  /\ hash \in Hashes
  /\ cap = Capacity /\ entries = NewTable(Capacity) /\ len = 0
  /\ old = NewTable(0) /\ oldCap = 0 /\ i = 0 /\ d = 0
  /\ pc = "idle" /\ arg = NoString
  /\ copies = 0
  /\ reply = <<NoString, 0>>

Rehash == SkipUnused \/ Move \/ MoveWalk \/ Moved
Probe  == Insert \/ Found \/ Walk
Step   == Rehash \/ Probe

Next == Step \/ \E s \in Strings : Intern(s) \/ Grow(s)

\* A call that has begun runs to its end; callers call when they please.
Spec == Init /\ [][Next]_vars /\ WF_vars(Step)

(***************************************************************************)
(* Properties.                                                             *)
(***************************************************************************)
Copy  == [str : Strings, ptr : Nat \ {0}]
Entry == {Null} \cup Copy

\* The variables hold what the C declarations say they hold.
TypeOK ==
  /\ hash \in [Strings -> Nat]
  /\ cap \in Nat \ {0} /\ entries \in [Slots(cap) -> Entry]
  /\ oldCap \in Nat /\ old \in [Slots(oldCap) -> Entry]
  /\ i \in 0 .. oldCap /\ d \in Nat
  /\ pc \in {"idle", "rehash", "probe"}
  /\ arg \in Strings \cup {NoString} /\ (pc # "idle" => arg \in Strings)
  /\ pc # "rehash" => oldCap = 0
  /\ len \in Nat /\ copies \in Nat

\* The entries in force: those of the table and, while it is being doubled,
\* the old ones that have not moved yet.
Used    == {p \in Slots(cap) : entries[p] # Null}
Waiting == {q \in Slots(oldCap) : q >= i /\ old[q] # Null}

\* A search that starts where the hash says meets no gap before the entry, so
\* it finds it; this holds while entries are still being moved.
NoGaps ==
  \A p \in Used : \E n \in Slots(cap) :
    /\ p = Slot(entries[p].str, n)
    /\ \A m \in 0 .. n - 1 : Slot(entries[p].str, m) \in Used

\* Each string has one entry, in the table or in what is left of the old one.
OneEntryEach ==
  /\ \A p, q \in Used : entries[p].str = entries[q].str => p = q
  /\ \A p, q \in Waiting : old[p].str = old[q].str => p = q
  /\ \A p \in Used, q \in Waiting : entries[p].str # old[q].str

\* Every call returns.
CallsEnd == pc # "idle" ~> pc = "idle"

Held == {entries[p] : p \in Used} \cup {old[q] : q \in Waiting}

PointerOf ==
  [s \in {e.str : e \in Held} |-> (CHOOSE e \in Held : e.str = s).ptr]

Names == INSTANCE Interning WITH pointer <- PointerOf

\* intern_str answers one pointer for each string, for good, and another for
\* every other string, however the table is filled and doubled meanwhile.
ImplementsInterning == Names!Spec
=============================================================================
