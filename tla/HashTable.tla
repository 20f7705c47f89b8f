------------------------------ MODULE HashTable ------------------------------
(***************************************************************************)
(* The hash table (include/my_hashtable.h): the items lie densely in an    *)
(* array, in no order, and a Robin Hood index of `cap` slots points at     *)
(* them.  A slot holds the position of an item and how far it lies from    *)
(* the slot the item's hash asks for; an item that has come further takes  *)
(* the slot of one that has come less far, which goes on in its place.     *)
(*                                                                         *)
(* One turn of a loop is one action.  A table that is too full is doubled: *)
(* `todo` is the list of the items still to be put into the new one, the   *)
(* item that was to be put in the first place last.                        *)
(***************************************************************************)
EXTENDS Integers, Sequences, FiniteSets

CONSTANTS
  Items,        \* the items a program puts: a key and what goes with it
  Missing,      \* what get answers when it finds nothing
  Capacity,     \* MY_HASHTABLE_CAPACITY
  Hashes        \* the hash functions the keys may have

Keys == {x.key : x \in Items}

ASSUME CapacityAssumption == Capacity \in Nat /\ Capacity >= 3
ASSUME HashesAssumption == Hashes \subseteq [Keys -> Nat]

VARIABLES
  hash,      \* _hash_str
  cap,       \* index_cap, 0 before the first put
  items,     \* the items, `len` of them
  index,     \* slot -> position in items, Empty if none
  dist,      \* slot -> how far its item lies from its first choice
  pc,        \* the loop that is running, or "idle"
  op,        \* the call and its key
  item,      \* the item put is placing
  pos, d,    \* the slot looked at and its distance from the first choice
  carry,     \* new_idx: the displaced position put is carrying, Empty if none
  hole,      \* the slot del empties
  todo,      \* the items a doubled table still has to take in
  reply,     \* the last call and its answer
  before     \* history: the contents when the running call began

vars == <<hash, cap, items, index, dist, pc, op, item, pos, d, carry, hole,
          todo, reply, before>>

table  == <<cap, items, index, dist>>
locals == <<item, pos, d, carry, hole>>

Empty   == 0
NoItem  == [key |-> Missing, value |-> Missing]
NoCall  == [name |-> "none", key |-> Missing]

(***************************************************************************)
(* The table.                                                              *)
(***************************************************************************)
Slots(c)     == 0 .. c - 1
FirstSlot(k, c) == hash[k] % c
NextSlot(p)  == (p + 1) % cap

Limit(c)     == (c * 7) \div 10
Full         == Len(items) >= Limit(cap)

Contents ==
  [k \in {items[i].key : i \in DOMAIN items} |->
     items[CHOOSE i \in DOMAIN items : items[i].key = k].value]

\* _hm_init_impl
Fresh(c) ==
  /\ cap' = c /\ items' = <<>>
  /\ index' = [p \in Slots(c) |-> Empty]
  /\ dist' = [p \in Slots(c) |-> 0]

UsedSlots == {p \in Slots(cap) : index[p] # Empty}

\* The items in the order of the index, as _hm_resize reads them.
InIndexOrder ==
  LET upTo(p) == {q \in UsedSlots : q <= p}
      nth(n) == CHOOSE p \in UsedSlots : Cardinality(upTo(p)) = n
  IN  [n \in 1 .. Cardinality(UsedSlots) |-> items[index[nth(n)]]]

At(loop) == pc = loop

\* A call of the table.
Begin(name, k) ==
  /\ pc = "idle"
  /\ op' = [name |-> name, key |-> k]
  /\ before' = Contents
  /\ UNCHANGED <<hash, hole, reply>>

\* The call returns, and its locals are gone.
End(answer) ==
  /\ pc' = "idle" /\ op' = NoCall
  /\ reply' = <<op.name, op.key, answer>>
  /\ item' = NoItem /\ pos' = 0 /\ d' = 0 /\ carry' = Empty /\ hole' = 0
  /\ before' = <<>>
  /\ UNCHANGED <<hash, todo>>

(***************************************************************************)
(* hmput.                                                                  *)
(***************************************************************************)
\* The head of put's loop, for the item x in a table of capacity c.
Seek(x, c) ==
  /\ pc' = "put"
  /\ item' = x /\ pos' = FirstSlot(x.key, c) /\ d' = 0 /\ carry' = Empty

PutFirst(x) ==
  /\ Begin("put", x.key) /\ cap = 0
  /\ Fresh(Capacity)
  /\ Seek(x, Capacity)
  /\ UNCHANGED todo

Put(x) ==
  /\ Begin("put", x.key) /\ cap # 0 /\ ~Full
  /\ Seek(x, cap)
  /\ UNCHANGED <<table, todo>>

\* _hm_resize
Grow(x) ==
  /\ Begin("put", x.key) /\ cap # 0 /\ Full
  /\ Fresh(2 * cap)
  /\ todo' = Append(InIndexOrder, x)
  /\ pc' = "rehash"
  /\ UNCHANGED <<item, pos, d, carry>>

\* Mutant: the cursor over the old items stands still.
RehashSame ==
  /\ At("rehash")
  /\ Seek(Head(todo), cap)
  /\ UNCHANGED <<hash, table, op, hole, todo, reply, before>>

\* The next item of a doubled table.  put looks at the load here again, in
\* vain: the table has just been doubled (RoomToRehash).
Rehash ==
  /\ At("rehash")
  /\ Seek(Head(todo), cap)
  /\ todo' = Tail(todo)
  /\ UNCHANGED <<hash, table, op, hole, reply, before>>

\* The item is in its place: the call is over unless a rehash goes on.
Placed ==
  IF todo = <<>> THEN End(Missing)
  ELSE /\ pc' = "rehash"
       /\ UNCHANGED <<hash, op, locals, todo, reply, before>>

\* The item goes to the end of the array, if it is not there yet.
Store == items' = IF carry = Empty THEN Append(items, item) ELSE items
Carried == IF carry = Empty THEN Len(items) + 1 ELSE carry

PutIntoEmpty ==
  /\ At("put") /\ index[pos] = Empty
  /\ Store
  /\ index' = [index EXCEPT ![pos] = Carried]
  /\ dist' = [dist EXCEPT ![pos] = d]
  /\ UNCHANGED cap
  /\ Placed

\* The key at the slot is compared with the key of the item being put, also
\* when it is a displaced item that looks for a slot.
SameKey(k) == index[pos] # Empty /\ items[index[pos]].key = k

PutOver ==
  /\ At("put") /\ SameKey(item.key)
  /\ items' = [items EXCEPT ![index[pos]] = item]
  /\ UNCHANGED <<cap, index, dist>>
  /\ Placed

\* Mutant: the displaced item keeps the distance of the one that took its slot.
DisplaceKeepingDistance ==
  /\ At("put") /\ index[pos] # Empty /\ ~SameKey(item.key) /\ dist[pos] < d
  /\ Store
  /\ index' = [index EXCEPT ![pos] = Carried]
  /\ dist' = [dist EXCEPT ![pos] = d]
  /\ carry' = index[pos] /\ d' = d + 1
  /\ pos' = NextSlot(pos)
  /\ UNCHANGED <<hash, cap, pc, op, item, hole, todo, reply, before>>

Displace ==
  /\ At("put") /\ index[pos] # Empty /\ ~SameKey(item.key) /\ dist[pos] < d
  /\ Store
  /\ index' = [index EXCEPT ![pos] = Carried]
  /\ dist' = [dist EXCEPT ![pos] = d]
  /\ carry' = index[pos] /\ d' = dist[pos] + 1
  /\ pos' = NextSlot(pos)
  /\ UNCHANGED <<hash, cap, pc, op, item, hole, todo, reply, before>>

Walk ==
  /\ pos' = NextSlot(pos) /\ d' = d + 1
  /\ UNCHANGED <<hash, table, pc, op, item, carry, hole, todo, reply, before>>

PutWalk ==
  At("put") /\ index[pos] # Empty /\ ~SameKey(item.key) /\ dist[pos] >= d /\ Walk

(***************************************************************************)
(* hmget.                                                                  *)
(***************************************************************************)
\* The head of the loop that looks for k.
Find(loop, k) ==
  /\ pc' = loop
  /\ pos' = FirstSlot(k, cap) /\ d' = 0
  /\ UNCHANGED <<table, item, carry, todo>>

\* A call on a table that never had an item is answered at once.
OnNothing(name, k) ==
  /\ pc = "idle" /\ cap = 0
  /\ reply' = <<name, k, Missing>>
  /\ UNCHANGED <<hash, table, pc, op, locals, todo, before>>

Get(k) == OnNothing("get", k) \/ (Begin("get", k) /\ cap # 0 /\ Find("get", k))

\* Mutant: an item that has come as far ends the search.
NotHereTooSoon == index[pos] = Empty \/ dist[pos] <= d

\* No item with the key further on: it would have taken this slot.
NotHere == index[pos] = Empty \/ dist[pos] < d

GetMiss == At("get") /\ NotHere /\ End(Missing) /\ UNCHANGED table
GetHit ==
  /\ At("get") /\ ~NotHere /\ SameKey(op.key)
  /\ End(items[index[pos]].value)
  /\ UNCHANGED table
GetWalk == At("get") /\ ~NotHere /\ ~SameKey(op.key) /\ Walk

(***************************************************************************)
(* hmdel.                                                                  *)
(***************************************************************************)
Del(k) == OnNothing("del", k) \/ (Begin("del", k) /\ cap # 0 /\ Find("del", k))

DelMiss == At("del") /\ NotHere /\ End(Missing) /\ UNCHANGED table
DelWalk == At("del") /\ ~NotHere /\ ~SameKey(op.key) /\ Walk

Last == Len(items)
ButLast(s) == SubSeq(s, 1, Len(s) - 1)

\* The item is the last of the array.
DelLast ==
  /\ At("del") /\ ~NotHere /\ SameKey(op.key) /\ index[pos] = Last
  /\ items' = ButLast(items)
  /\ pc' = "shift" /\ hole' = pos
  /\ UNCHANGED <<hash, cap, index, dist, op, item, pos, d, carry, todo, reply, before>>

\* The last item moves to its place; its slot is looked for next.
DelMove ==
  /\ At("del") /\ ~NotHere /\ SameKey(op.key) /\ index[pos] # Last
  /\ items' = [items EXCEPT ![index[pos]] = items[Last]]
  /\ pc' = "move" /\ hole' = pos
  /\ pos' = FirstSlot(items[Last].key, cap)
  /\ UNCHANGED <<hash, cap, index, dist, op, item, d, carry, todo, reply, before>>

MoveWalk ==
  /\ At("move") /\ index[pos] # Last
  /\ pos' = NextSlot(pos)
  /\ UNCHANGED <<hash, table, pc, op, item, d, carry, hole, todo, reply, before>>

\* Mutant: the slot goes on pointing past the end of the array.
MoveForgotten ==
  /\ At("move") /\ index[pos] = Last
  /\ items' = ButLast(items)
  /\ pc' = "shift"
  /\ UNCHANGED <<hash, cap, index, dist, op, locals, todo, reply, before>>

MoveDone ==
  /\ At("move") /\ index[pos] = Last
  /\ index' = [index EXCEPT ![pos] = index[hole]]
  /\ items' = ButLast(items)
  /\ pc' = "shift"
  /\ UNCHANGED <<hash, cap, dist, op, locals, todo, reply, before>>

\* The items behind the hole that are not at their first choice move up.
Follows == index[NextSlot(hole)] # Empty /\ dist[NextSlot(hole)] > 0

Shift ==
  /\ At("shift") /\ Follows
  /\ index' = [index EXCEPT ![hole] = index[NextSlot(hole)]]
  /\ dist' = [dist EXCEPT ![hole] = dist[NextSlot(hole)] - 1]
  /\ hole' = NextSlot(hole)
  /\ UNCHANGED <<hash, cap, items, pc, op, item, pos, d, carry, todo, reply, before>>

ShiftDone ==
  /\ At("shift") /\ ~Follows
  /\ index' = [index EXCEPT ![hole] = Empty]
  /\ dist' = [dist EXCEPT ![hole] = 0]
  /\ UNCHANGED <<cap, items>>
  /\ End(Missing)

(***************************************************************************)
(* The specification.                                                      *)
(***************************************************************************)
Init ==
  /\ hash \in Hashes
  /\ cap = 0 /\ items = <<>> /\ index = <<>> /\ dist = <<>>
  /\ pc = "idle" /\ op = NoCall
  /\ item = NoItem /\ pos = 0 /\ d = 0 /\ carry = Empty /\ hole = 0
  /\ todo = <<>>
  /\ reply = <<"none", Missing, Missing>>
  /\ before = <<>>

PutStep == Rehash \/ PutIntoEmpty \/ PutOver \/ Displace \/ PutWalk
GetStep == GetMiss \/ GetHit \/ GetWalk
DelStep == DelMiss \/ DelWalk \/ DelLast \/ DelMove \/ MoveWalk \/ MoveDone \/ Shift \/ ShiftDone

Step == PutStep \/ GetStep \/ DelStep

Call ==
  \/ \E k \in Keys : Get(k) \/ Del(k)
  \/ \E x \in Items : PutFirst(x) \/ Put(x) \/ Grow(x)

Next == Call \/ Step

\* A call that has begun runs to its end; callers call when they please.
Spec == Init /\ [][Next]_vars /\ WF_vars(Step)

(***************************************************************************)
(* Properties.                                                             *)
(***************************************************************************)
Loops == {"idle", "rehash", "put", "get", "del", "move", "shift"}

\* The variables hold what the C declarations say they hold; a slot points
\* into the array, but for the one del has not emptied yet.
TypeOK ==
  /\ cap \in Nat
  /\ \A i \in DOMAIN items : items[i] \in Items
  /\ DOMAIN index = Slots(cap) /\ dist \in [Slots(cap) -> Slots(cap)]
  /\ \A p \in Slots(cap) : index[p] \in 0 .. Len(items) \/ (pc = "shift" /\ p = hole)
  /\ pc \in Loops
  /\ pc # "idle" => pos \in Slots(cap) /\ hole \in Slots(cap)
  /\ carry \in 0 .. Len(items)

Settled == pc \in {"idle", "rehash", "put", "get"}

\* The array and the index agree while items are displaced, moved and
\* rehashed: each key has one item and each item one slot, but for the
\* displaced one that put is carrying, which has none.
OneSlotEach ==
  Settled =>
    /\ \A i, j \in DOMAIN items : items[i].key = items[j].key => i = j
    /\ \A i \in DOMAIN items :
         Cardinality({p \in Slots(cap) : index[p] = i}) = (IF pc = "put" /\ i = carry THEN 0 ELSE 1)

\* What lets a search stop early: every item lies as far from its first
\* choice as dist says, and one that lies far has before it another that lies
\* no less far than one slot nearer, all the way to its first choice.
RobinHood ==
  Settled => \A p \in Slots(cap) : index[p] # Empty =>
    /\ (FirstSlot(items[index[p]].key, cap) + dist[p]) % cap = p
    /\ dist[p] > 0 =>
         LET q == (p + cap - 1) % cap IN index[q] # Empty /\ dist[q] >= dist[p] - 1

\* Every call ends, also one that doubles the table or closes a gap.
CallsEnd == pc # "idle" ~> pc = "idle"

Dict == INSTANCE Dictionary WITH map <- IF pc = "idle" THEN Contents ELSE before

\* The table answers every sequence of calls as a map would.
ImplementsDictionary == Dict!Spec
=============================================================================
