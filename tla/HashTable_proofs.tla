-------------------------- MODULE HashTable_proofs --------------------------
(***************************************************************************)
(* The hash table is correct for every set of items, every hash function   *)
(* and every first capacity: the array and the index agree, the Robin Hood *)
(* order lets a search stop early, and the table answers as a map does.    *)
(***************************************************************************)
EXTENDS HashTable, FiniteSetTheorems, SequenceTheorems, WellFoundedInduction, TLAPS

(***************************************************************************)
(* Going round the index.                                                  *)
(***************************************************************************)
\* A set of naturals that is not empty has a least element.
LEMMA LeastElement ==
  ASSUME NEW S, S \subseteq Nat, S # {}
  PROVE  \E x \in S : \A y \in S : x <= y
<1> DEFINE R == OpToRel(<, Nat)
<1>1. \E x \in S : \A y \in S : ~(<<y, x>> \in R)
  <2>1. IsWellFoundedOn(R, Nat)
    BY NatLessThanWellFounded
  <2> HIDE DEF R
  <2> QED BY <2>1, WFMin
<1>2. \A x, y \in Nat : ~(<<y, x>> \in R) => x <= y
  BY DEF OpToRel
<1> QED BY <1>1, <1>2

\* One turn is taken off a sum that has gone past the end.
LEMMA OneTurn ==
  ASSUME NEW c \in Nat, c > 0, NEW n \in 0 .. 2 * c - 1
  PROVE  n % c = IF n < c THEN n ELSE n - c
<1>1. CASE n < c
  BY <1>1
<1>2. CASE n >= c
  <2>1. n = c * (n \div c) + (n % c) /\ n \div c \in Int /\ n % c \in 0 .. c - 1
    OBVIOUS
  <2> DEFINE k == n \div c
  <2>2. n = c * k + (n % c) /\ k \in Int
    BY <2>1
  <2> HIDE DEF k
  <2>3. k >= 1
    <3>1. ASSUME k <= 0 PROVE FALSE
      <4>1. c * k <= 0
        BY <2>2, <3>1
      <4> QED BY <1>2, <2>1, <2>2, <4>1
    <3> QED BY <2>2, <3>1
  <2>4. k <= 1
    <3>1. ASSUME k >= 2 PROVE FALSE
      <4>1. c * k >= 2 * c
        BY <2>2, <3>1
      <4> QED BY <2>1, <2>2, <4>1
    <3> QED BY <2>2, <3>1
  <2>5. k = 1
    BY <2>2, <2>3, <2>4
  <2> QED BY <1>2, <2>2, <2>5
<1> QED BY <1>1, <1>2

\* The slot m steps on from a.
Around(a, m) == (a + m) % cap
Prev(p) == (p + cap - 1) % cap

LEMMA AroundIs ==
  ASSUME cap \in Nat, cap > 0, NEW a \in Slots(cap), NEW m \in 0 .. cap
  PROVE  /\ Around(a, m) = IF a + m < cap THEN a + m ELSE a + m - cap
         /\ Around(a, m) \in Slots(cap)
<1>1. a \in 0 .. cap - 1 /\ a + m \in 0 .. 2 * cap - 1
  BY DEF Slots
<1>2. (a + m) % cap = IF a + m < cap THEN a + m ELSE a + m - cap
  BY <1>1, OneTurn
<1> QED BY <1>1, <1>2 DEF Around, Slots

LEMMA NextIs ==
  ASSUME cap \in Nat, cap > 0, NEW p \in Slots(cap)
  PROVE  /\ NextSlot(p) = IF p + 1 < cap THEN p + 1 ELSE 0
         /\ NextSlot(p) \in Slots(cap)
<1>1. p \in 0 .. cap - 1 /\ p + 1 \in 0 .. 2 * cap - 1
  BY DEF Slots
<1>2. (p + 1) % cap = IF p + 1 < cap THEN p + 1 ELSE p + 1 - cap
  BY <1>1, OneTurn
<1> QED BY <1>1, <1>2 DEF NextSlot, Slots

LEMMA PrevIs ==
  ASSUME cap \in Nat, cap > 0, NEW p \in Slots(cap)
  PROVE  /\ Prev(p) = IF p = 0 THEN cap - 1 ELSE p - 1
         /\ Prev(p) \in Slots(cap)
<1>1. p \in 0 .. cap - 1 /\ p + cap - 1 \in 0 .. 2 * cap - 1
  BY DEF Slots
<1>2. (p + cap - 1) % cap = IF p + cap - 1 < cap THEN p + cap - 1 ELSE p + cap - 1 - cap
  BY <1>1, OneTurn
<1> QED BY <1>1, <1>2 DEF Prev, Slots

\* Every slot is some way on, and one way only.
LEMMA RoundTrip ==
  ASSUME cap \in Nat, cap > 0, NEW a \in Slots(cap)
  PROVE  /\ Around(a, 0) = a
         /\ \A p \in Slots(cap) : \E m \in Slots(cap) : p = Around(a, m)
         /\ \A m, n \in Slots(cap) : Around(a, m) = Around(a, n) => m = n
         /\ \A m \in Slots(cap) : NextSlot(Around(a, m)) = Around(a, m + 1)
         /\ \A m \in Slots(cap) : m > 0 => Prev(Around(a, m)) = Around(a, m - 1)
<1>1. /\ a \in 0 .. cap - 1
      /\ \A m \in Slots(cap) : m \in Nat /\ m < cap /\ m \in 0 .. cap /\ m + 1 \in 0 .. cap
  BY DEF Slots
<1>2. \A m \in 0 .. cap : Around(a, m) = IF a + m < cap THEN a + m ELSE a + m - cap
  BY AroundIs
<1>3. Around(a, 0) = a
  BY <1>1, <1>2
<1>4. ASSUME NEW p \in Slots(cap) PROVE \E m \in Slots(cap) : p = Around(a, m)
  <2>1. p \in 0 .. cap - 1
    BY DEF Slots
  <2>2. CASE p >= a
    <3>1. p - a \in Slots(cap) /\ a + (p - a) = p /\ p - a \in 0 .. cap
      BY <1>1, <2>1, <2>2 DEF Slots
    <3>2. Around(a, p - a) = p
      BY <1>2, <2>1, <3>1
    <3> QED BY <3>1, <3>2
  <2>3. CASE p < a
    <3>1. p - a + cap \in Slots(cap) /\ a + (p - a + cap) = p + cap /\ p - a + cap \in 0 .. cap
      BY <1>1, <2>1, <2>3 DEF Slots
    <3>2. Around(a, p - a + cap) = p
      BY <1>2, <2>1, <3>1
    <3> QED BY <3>1, <3>2
  <2> QED BY <1>1, <2>1, <2>2, <2>3
<1>5. \A m, n \in Slots(cap) : Around(a, m) = Around(a, n) => m = n
  BY <1>1, <1>2
<1>6. ASSUME NEW m \in Slots(cap) PROVE NextSlot(Around(a, m)) = Around(a, m + 1)
  <2>1. m \in 0 .. cap /\ m + 1 \in 0 .. cap /\ m < cap
    BY <1>1
  <2>2. Around(a, m) \in Slots(cap) /\ Around(a, m) = IF a + m < cap THEN a + m ELSE a + m - cap
    BY <2>1, AroundIs
  <2>3. Around(a, m + 1) = IF a + (m + 1) < cap THEN a + (m + 1) ELSE a + (m + 1) - cap
    BY <1>2, <2>1
  <2>4. NextSlot(Around(a, m)) = IF Around(a, m) + 1 < cap THEN Around(a, m) + 1 ELSE 0
    BY <2>2, NextIs
  <2> QED BY <1>1, <2>1, <2>2, <2>3, <2>4
<1>7. ASSUME NEW m \in Slots(cap), m > 0 PROVE Prev(Around(a, m)) = Around(a, m - 1)
  <2>1. m \in 0 .. cap /\ m - 1 \in 0 .. cap /\ m < cap
    BY <1>1, <1>7
  <2>2. Around(a, m) \in Slots(cap) /\ Around(a, m) = IF a + m < cap THEN a + m ELSE a + m - cap
    BY <2>1, AroundIs
  <2>3. Around(a, m - 1) = IF a + (m - 1) < cap THEN a + (m - 1) ELSE a + (m - 1) - cap
    BY <1>2, <2>1
  <2>4. Prev(Around(a, m)) = IF Around(a, m) = 0 THEN cap - 1 ELSE Around(a, m) - 1
    BY <2>2, PrevIs
  <2> QED BY <1>1, <1>7, <2>1, <2>2, <2>3, <2>4
<1> QED BY <1>3, <1>4, <1>5, <1>6, <1>7

\* Next and Prev undo one another.
LEMMA NextAndPrev ==
  ASSUME cap \in Nat, cap > 1, NEW p \in Slots(cap)
  PROVE  /\ Prev(NextSlot(p)) = p /\ NextSlot(Prev(p)) = p
         /\ NextSlot(p) # p /\ Prev(p) # p
<1>1. p \in 0 .. cap - 1
  BY DEF Slots
<1>2. NextSlot(p) \in Slots(cap) /\ NextSlot(p) = IF p + 1 < cap THEN p + 1 ELSE 0
  BY NextIs
<1>3. Prev(p) \in Slots(cap) /\ Prev(p) = IF p = 0 THEN cap - 1 ELSE p - 1
  BY PrevIs
<1>4. Prev(NextSlot(p)) = IF NextSlot(p) = 0 THEN cap - 1 ELSE NextSlot(p) - 1
  BY <1>2, PrevIs
<1>5. NextSlot(Prev(p)) = IF Prev(p) + 1 < cap THEN Prev(p) + 1 ELSE 0
  BY <1>3, NextIs
<1> QED BY <1>1, <1>2, <1>3, <1>4, <1>5

\* The load limit, before and after a table is doubled.
LEMMA Limits ==
  ASSUME NEW c \in Nat, c >= 3
  PROVE  Limit(c) \in Nat /\ 0 < Limit(c) /\ Limit(c) < c /\ Limit(c) + 1 <= Limit(2 * c)
BY DEF Limit

(***************************************************************************)
(* The invariant.                                                          *)
(***************************************************************************)
SlotAt(k, m) == Around(FirstSlot(k, cap), m)
KeyAt(p)     == items[index[p]].key

\* What the running loop needs of the variables.
Shape ==
  /\ hash \in [Keys -> Nat]
  /\ cap = 0 \/ cap >= 3
  /\ items \in Seq(Items) /\ todo \in Seq(Items) /\ d \in Nat
  /\ cap = 0 => items = <<>>
  /\ pc = "idle" => pos = 0 /\ carry = Empty /\ hole = 0 /\ todo = <<>>
  /\ pc # "idle" => cap # 0 /\ op.key \in Keys
  /\ pc = "rehash" => todo # <<>>
  /\ pc = "put" => item \in Items
  /\ pc \in {"get", "del", "move", "shift"} => todo = <<>> /\ carry = Empty

\* The items there are and the items to come are few enough for the index.
HasRoom ==
  cap # 0 =>
    Len(items) + Len(todo) + (IF pc = "put" /\ carry = Empty THEN 1 ELSE 0) <= Limit(cap)

\* But for the slot h and the item c, each item has one slot, and lies as far
\* from its first choice as its distance says.
InPlace(h, c) ==
  /\ \A p \in Slots(cap) : p # h /\ index[p] # Empty =>
       /\ index[p] \in DOMAIN items /\ index[p] # c
       /\ dist[p] \in Slots(cap) /\ SlotAt(KeyAt(p), dist[p]) = p
  /\ \A p, q \in Slots(cap) :
       p # h /\ q # h /\ index[p] # Empty /\ index[p] = index[q] => p = q
  /\ \A i \in DOMAIN items : i # c => \E p \in Slots(cap) : p # h /\ index[p] = i

NoSlot == -1

Placement ==
  InPlace(IF pc \in {"move", "shift"} THEN hole ELSE NoSlot,
         IF pc = "put" THEN carry ELSE IF pc = "move" THEN index[hole] ELSE Empty)

\* The last item is twice in the array while del looks for its slot.
Distinct ==
  LET last == IF pc = "move" THEN Len(items) - 1 ELSE Len(items)
  IN  \A i, j \in 1 .. last : items[i].key = items[j].key => i = j

Moving ==
  /\ pc = "move" => /\ index[hole] \in 1 .. Len(items) - 1
                    /\ items[index[hole]] = items[Len(items)]
  /\ pc = "shift" => index[hole] # Empty

\* The slots before a slot, back to the first choice of its item, are used, and
\* by items that have come as far.
Chain ==
  \A p \in Slots(cap) : index[p] # Empty /\ dist[p] > 0 =>
    index[Prev(p)] # Empty /\ dist[Prev(p)] >= dist[p] - 1

\* The key the loop looks for, or looks for a slot for.
Sought == IF pc # "put" THEN op.key ELSE IF carry = Empty THEN item.key ELSE items[carry].key

\* What a search has passed is used by other items that have come as far.
PassedBy(k, n) ==
  \A m \in 0 .. n - 1 :
    LET s == SlotAt(k, m) IN index[s] # Empty /\ dist[s] >= m /\ KeyAt(s) # k

Searching ==
  pc \in {"put", "get", "del"} =>
    d \in Slots(cap) /\ pos = SlotAt(Sought, d) /\ PassedBy(Sought, d)

\* The slots passed since the new item took one are used: put does not come
\* round to the new item again.
Carrying ==
  pc = "put" /\ carry # Empty =>
    /\ items[Len(items)] = item /\ carry # Len(items)
    /\ \E s \in Slots(cap), e \in 1 .. cap - 1 :
         /\ index[s] = Len(items) /\ pos = Around(s, e)
         /\ \A m \in 0 .. e - 1 : index[Around(s, m)] # Empty

IInv ==
  /\ TypeOK /\ Shape /\ HasRoom
  /\ Placement /\ Distinct /\ Moving /\ Chain
  /\ Searching /\ Carrying

(***************************************************************************)
(* What the order of the index is good for.                                *)
(***************************************************************************)
LEMMA FirstInTable ==
  ASSUME Shape, cap \in Nat, cap # 0, NEW k \in Keys
  PROVE  FirstSlot(k, cap) \in Slots(cap)
<1>1. hash[k] \in Nat /\ cap > 0
  BY DEF Shape
<1>2. \A a \in Nat : a % cap \in 0 .. cap - 1
  BY <1>1
<1> QED BY <1>1, <1>2 DEF FirstSlot, Slots

LEMMA KeyInKeys ==
  ASSUME items \in Seq(Items), NEW i \in DOMAIN items
  PROVE  items[i] \in Items /\ items[i].key \in Keys
BY DEF Keys

\* With fewer items than slots one slot is free.
LEMMA OneIsFree ==
  ASSUME cap \in Nat, items \in Seq(Items), NEW c, InPlace(NoSlot, c), Len(items) < cap
  PROVE  \E p \in Slots(cap) : index[p] = Empty
<1> SUFFICES ASSUME \A p \in Slots(cap) : index[p] # Empty PROVE FALSE
  OBVIOUS
<1> DEFINE f == [p \in Slots(cap) |-> index[p]]
           T == 1 .. Len(items)
<1>1. \A p \in Slots(cap) : p # NoSlot
  BY DEF Slots, NoSlot
<1>2. f \in [Slots(cap) -> T]
  BY <1>1 DEF InPlace
<1>3. /\ IsFiniteSet(Slots(cap)) /\ Cardinality(Slots(cap)) = cap
      /\ IsFiniteSet(T) /\ Cardinality(T) = Len(items)
  <2>1. Len(items) \in Nat /\ 0 \in Int /\ 1 \in Int /\ cap - 1 \in Int
    OBVIOUS
  <2>2. IsFiniteSet(0 .. cap - 1) /\ Cardinality(0 .. cap - 1) = IF 0 > cap - 1 THEN 0 ELSE cap - 1 - 0 + 1
    BY <2>1, FS_Interval
  <2>3. IsFiniteSet(1 .. Len(items)) /\ Cardinality(1 .. Len(items)) = IF 1 > Len(items) THEN 0 ELSE Len(items) - 1 + 1
    <3> DEFINE n == Len(items)
    <3>1. n \in Int
      BY <2>1
    <3> HIDE DEF n
    <3>2. IsFiniteSet(1 .. n) /\ Cardinality(1 .. n) = IF 1 > n THEN 0 ELSE n - 1 + 1
      BY <2>1, <3>1, FS_Interval
    <3> QED BY <3>2 DEF n
  <2> QED BY <2>1, <2>2, <2>3 DEF Slots
<1>4. \E p, q \in Slots(cap) : p # q /\ f[p] = f[q]
  <2> HIDE DEF f, T
  <2> QED BY <1>2, <1>3, FS_PigeonHole
<1> QED BY <1>1, <1>4 DEF InPlace

\* Slots that are used, one after the other, are less than a turn.
LEMMA LessThanATurn ==
  ASSUME cap \in Nat, cap > 0, NEW a \in Slots(cap), NEW n \in Nat,
         \A m \in 0 .. n - 1 : index[Around(a, m)] # Empty,
         \E p \in Slots(cap) : index[p] = Empty
  PROVE  n \in Slots(cap)
<1>1. PICK p \in Slots(cap) : index[p] = Empty
  OBVIOUS
<1>2. PICK m \in Slots(cap) : p = Around(a, m)
  BY RoundTrip
<1>3. m \in 0 .. cap - 1 /\ ~(m \in 0 .. n - 1)
  BY <1>1, <1>2 DEF Slots
<1> QED BY <1>3 DEF Slots

\* From an item back to its first choice the slots are used, by items that
\* have come as far.
LEMMA ChainMeets ==
  ASSUME cap \in Nat, cap > 0, Chain, NEW a \in Slots(cap), NEW p \in Slots(cap),
         index[p] # Empty, dist \in [Slots(cap) -> Slots(cap)], p = Around(a, dist[p])
  PROVE  \A m \in 0 .. dist[p] : index[Around(a, m)] # Empty /\ dist[Around(a, m)] >= m
<1> DEFINE Good(m) == index[Around(a, m)] # Empty /\ dist[Around(a, m)] >= m
           Bad == {n \in 0 .. dist[p] : ~Good(dist[p] - n)}
<1>1. dist[p] \in Slots(cap) /\ dist[p] \in Nat
  BY DEF Slots
<1>2. Bad \subseteq Nat
  BY <1>1
<1>3. SUFFICES ASSUME Bad # {} PROVE FALSE
  <2>1. ASSUME Bad = {}, NEW m \in 0 .. dist[p] PROVE Good(m)
    <3>1. dist[p] - m \in 0 .. dist[p] /\ dist[p] - (dist[p] - m) = m
      BY <1>1
    <3> QED BY <2>1, <3>1
  <2> QED BY <2>1
<1>4. PICK n \in Bad : \A y \in Bad : n <= y
  BY <1>2, <1>3, LeastElement
<1>5. n # 0
  <2>1. Good(dist[p])
    BY <1>1
  <2> QED BY <1>1, <1>4, <2>1
<1> DEFINE m == dist[p] - n
<1>6. /\ m \in Nat /\ m + 1 \in Slots(cap) /\ m + 1 > 0 /\ m \in 0 .. cap /\ m + 1 \in 0 .. cap
      /\ n - 1 \in 0 .. dist[p] /\ dist[p] - (n - 1) = m + 1 /\ m + 1 - 1 = m
  <2>1. n \in 0 .. dist[p] /\ dist[p] \in 0 .. cap - 1
    BY <1>1, <1>4 DEF Slots
  <2> DEFINE last == dist[p]
  <2>2. n \in 0 .. last /\ last \in 0 .. cap - 1 /\ m = last - n
    BY <2>1
  <2> HIDE DEF last, m
  <2>3. /\ m \in Nat /\ m + 1 \in Slots(cap) /\ m + 1 > 0 /\ m \in 0 .. cap /\ m + 1 \in 0 .. cap
        /\ n - 1 \in 0 .. last /\ last - (n - 1) = m + 1 /\ m + 1 - 1 = m
    BY <1>5, <2>2 DEF Slots
  <2> QED BY <2>3 DEF last
<1>7. Good(m + 1)
  <2>1. n - 1 \notin Bad
    BY <1>2, <1>4, <1>6
  <2> QED BY <1>6, <2>1
<1>8. Around(a, m + 1) \in Slots(cap) /\ Around(a, m) \in Slots(cap)
  BY <1>6, AroundIs
<1>9. Prev(Around(a, m + 1)) = Around(a, m)
  BY <1>6, RoundTrip
<1>10. dist[Around(a, m + 1)] \in Nat /\ dist[Around(a, m)] \in Nat
  BY <1>8 DEF Slots
<1>11. dist[Around(a, m + 1)] > 0 /\ dist[Around(a, m + 1)] - 1 >= m
  BY <1>6, <1>7, <1>10
<1>12. Good(m)
  BY <1>6, <1>7, <1>8, <1>9, <1>10, <1>11 DEF Chain
<1> QED BY <1>4, <1>12

\* A search that ends at a free slot or at an item that has come less far
\* would have met the key.
LEMMA NotInTable ==
  ASSUME TypeOK, Shape, cap # 0, NEW c, InPlace(NoSlot, c), Chain,
         NEW k \in Keys, NEW n \in Slots(cap), PassedBy(k, n),
         index[SlotAt(k, n)] = Empty \/ dist[SlotAt(k, n)] < n
  PROVE  \A i \in DOMAIN items : i # c => items[i].key # k
<1> SUFFICES ASSUME NEW i \in DOMAIN items, i # c, items[i].key = k PROVE FALSE
  OBVIOUS
<1>1. PICK p \in Slots(cap) : p # NoSlot /\ index[p] = i
  BY DEF InPlace
<1>2. i # Empty
  BY DEF Shape, Empty
<1>3. dist[p] \in Slots(cap) /\ SlotAt(k, dist[p]) = p
  BY <1>1, <1>2 DEF InPlace, KeyAt
<1>4. cap \in Nat /\ cap > 0 /\ FirstSlot(k, cap) \in Slots(cap)
  BY FirstInTable DEF TypeOK, Shape
<1>5. n \in Nat /\ dist[p] \in Nat /\ dist \in [Slots(cap) -> Slots(cap)]
  <2>1. dist \in [Slots(cap) -> Slots(cap)]
    BY DEF TypeOK
  <2>2. \A m \in Slots(cap) : m \in Nat
    BY <1>4 DEF Slots
  <2> QED BY <1>3, <2>1, <2>2
<1>6. CASE dist[p] < n
  <2>1. dist[p] \in 0 .. n - 1
    BY <1>5, <1>6
  <2> QED BY <1>1, <1>3, <2>1 DEF PassedBy, KeyAt
<1>7. CASE ~(dist[p] < n)
  <2>1. n \in 0 .. dist[p]
    BY <1>5, <1>7
  <2>2. index[SlotAt(k, n)] # Empty /\ dist[SlotAt(k, n)] >= n
    BY <1>1, <1>2, <1>3, <1>4, <1>5, <2>1, ChainMeets DEF SlotAt
  <2>3. SlotAt(k, n) \in Slots(cap)
    BY <1>4, AroundIs DEF SlotAt, Slots
  <2>4. dist[SlotAt(k, n)] \in Nat
    BY <1>5, <2>3 DEF Slots
  <2> QED BY <1>5, <2>2, <2>4
<1> QED BY <1>6, <1>7

(***************************************************************************)
(* A slot is filled: the item i0 takes the slot looked at.                 *)
(***************************************************************************)
Fills(i0, k) ==
  /\ items' \in Seq(Items)
  /\ DOMAIN items' = DOMAIN items \cup {i0}
  /\ \A i \in DOMAIN items : items'[i] = items[i]
  /\ i0 # Empty /\ items'[i0].key = k
  /\ index' = [index EXCEPT ![pos] = i0]
  /\ dist' = [dist EXCEPT ![pos] = d]
  /\ UNCHANGED <<cap, hash>>

LEMMA FilledSlots ==
  ASSUME TypeOK, pos \in Slots(cap), d \in Slots(cap), NEW i0, NEW k, Fills(i0, k)
  PROVE  /\ Slots(cap)' = Slots(cap)
         /\ index'[pos] = i0 /\ dist'[pos] = d
         /\ \A p \in Slots(cap) : p # pos => index'[p] = index[p] /\ dist'[p] = dist[p]
         /\ \A a, m : Around(a, m)' = Around(a, m)
         /\ \A a, m : SlotAt(a, m)' = SlotAt(a, m)
         /\ \A p : Prev(p)' = Prev(p)
         /\ \A p : NextSlot(p)' = NextSlot(p)
<1>1. DOMAIN index = Slots(cap) /\ DOMAIN dist = Slots(cap)
  BY DEF TypeOK
<1>2. cap' = cap /\ hash' = hash
  BY DEF Fills
<1>3. /\ index'[pos] = i0 /\ dist'[pos] = d
      /\ \A p \in Slots(cap) : p # pos => index'[p] = index[p] /\ dist'[p] = dist[p]
  BY <1>1 DEF Fills
<1>4. Slots(cap)' = Slots(cap)
  BY <1>2
<1>5. \A a, m : Around(a, m)' = Around(a, m)
  BY <1>2 DEF Around
<1>6. \A a, m : SlotAt(a, m)' = SlotAt(a, m)
  BY <1>2 DEF SlotAt, Around, FirstSlot
<1>7. \A p : Prev(p)' = Prev(p)
  BY <1>2 DEF Prev
<1>8. \A p : NextSlot(p)' = NextSlot(p)
  BY <1>2 DEF NextSlot
<1> QED BY <1>3, <1>4, <1>5, <1>6, <1>7, <1>8

\* The item that lay there, if any, is the one without a slot.
LEMMA FillPlaces ==
  ASSUME TypeOK, Shape, pos \in Slots(cap), d \in Slots(cap),
         NEW c, InPlace(NoSlot, c), NEW i0, NEW k, Fills(i0, k), pos = SlotAt(k, d),
         i0 \notin DOMAIN items \/ i0 = c, c \in DOMAIN items => i0 = c,
         NEW c2, c2 = index[pos]
  PROVE  InPlace(NoSlot, c2)'
<1>1. /\ Slots(cap)' = Slots(cap)
      /\ index'[pos] = i0 /\ dist'[pos] = d
      /\ \A p \in Slots(cap) : p # pos => index'[p] = index[p] /\ dist'[p] = dist[p]
      /\ \A a, m : SlotAt(a, m)' = SlotAt(a, m)
  BY FilledSlots
<1>2. \A p \in Slots(cap) : p # NoSlot
  BY DEF Slots, NoSlot
<1>3. /\ DOMAIN items' = DOMAIN items \cup {i0}
      /\ \A i \in DOMAIN items : items'[i] = items[i]
      /\ i0 # Empty /\ items'[i0].key = k
  BY DEF Fills
<1>4. /\ \A p \in Slots(cap) : index[p] # Empty =>
           /\ index[p] \in DOMAIN items /\ index[p] # c
           /\ dist[p] \in Slots(cap) /\ SlotAt(items[index[p]].key, dist[p]) = p
      /\ \A p, q \in Slots(cap) : index[p] # Empty /\ index[p] = index[q] => p = q
      /\ \A i \in DOMAIN items : i # c => \E p \in Slots(cap) : index[p] = i
  BY <1>2 DEF InPlace, KeyAt
<1>5. ASSUME NEW p \in Slots(cap), index'[p] # Empty
      PROVE  /\ index'[p] \in DOMAIN items' /\ index'[p] # c2
             /\ dist'[p] \in Slots(cap) /\ SlotAt(items'[index'[p]].key, dist'[p]) = p
  <2>1. CASE p = pos
    BY <1>1, <1>3, <1>4, <2>1
  <2>2. CASE p # pos
    BY <1>1, <1>3, <1>4, <1>5, <2>2
  <2> QED BY <2>1, <2>2
<1>6. ASSUME NEW p \in Slots(cap), NEW q \in Slots(cap), index'[p] # Empty, index'[p] = index'[q]
      PROVE  p = q
  BY <1>1, <1>4, <1>6
<1>7. ASSUME NEW i \in DOMAIN items', i # c2
      PROVE  \E p \in Slots(cap) : index'[p] = i
  <2>1. CASE i = i0
    BY <1>1, <2>1
  <2>2. CASE i # i0
    <3>1. i \in DOMAIN items /\ i # c
      BY <1>3, <2>2
    <3>2. PICK p \in Slots(cap) : index[p] = i
      BY <1>4, <3>1
    <3>3. p # pos
      BY <1>7, <3>2
    <3> QED BY <1>1, <3>2, <3>3
  <2> QED BY <2>1, <2>2
<1> QED BY <1>1, <1>2, <1>5, <1>6, <1>7 DEF InPlace, KeyAt

\* A slot is taken from an item that has come less far, behind one that has
\* come at least as far less one.
LEMMA FillKeepsChain ==
  ASSUME TypeOK, Shape, cap # 0, Chain, pos \in Slots(cap), d \in Slots(cap),
         NEW i0, NEW k, Fills(i0, k),
         index[pos] = Empty \/ dist[pos] < d,
         d > 0 => index[Prev(pos)] # Empty /\ dist[Prev(pos)] >= d - 1
  PROVE  Chain'
<1>1. /\ Slots(cap)' = Slots(cap)
      /\ index'[pos] = i0 /\ dist'[pos] = d
      /\ \A p \in Slots(cap) : p # pos => index'[p] = index[p] /\ dist'[p] = dist[p]
      /\ \A p : Prev(p)' = Prev(p)
  BY FilledSlots
<1>2. i0 # Empty /\ cap \in Nat /\ cap > 1
  BY DEF Fills, TypeOK, Shape
<1>3. \A p \in Slots(cap) : dist[p] \in Nat
  <2>1. dist \in [Slots(cap) -> Slots(cap)]
    BY DEF TypeOK
  <2>2. Slots(cap) \subseteq Nat
    BY <1>2 DEF Slots
  <2> QED BY <2>1, <2>2
<1>4. d \in Nat
  BY <1>2 DEF Slots
<1> SUFFICES ASSUME NEW p \in Slots(cap), index'[p] # Empty, dist'[p] > 0
             PROVE  index'[Prev(p)] # Empty /\ dist'[Prev(p)] >= dist'[p] - 1
  BY <1>1 DEF Chain
<1>5. Prev(p) # p /\ Prev(p) \in Slots(cap)
  BY <1>2, NextAndPrev, PrevIs
<1>6. CASE p = pos
  BY <1>1, <1>5, <1>6
<1>7. CASE p # pos /\ Prev(p) = pos
  <2>1. index[pos] # Empty /\ dist[pos] >= dist[p] - 1
    BY <1>1, <1>7 DEF Chain
  <2> QED BY <1>1, <1>2, <1>3, <1>4, <1>7, <2>1
<1>8. CASE p # pos /\ Prev(p) # pos
  BY <1>1, <1>5, <1>8 DEF Chain
<1> QED BY <1>6, <1>7, <1>8

(***************************************************************************)
(* hmput keeps the invariant.                                              *)
(***************************************************************************)
LEMMA RoomLeft ==
  ASSUME IInv, pc \in {"put", "get", "del"}
  PROVE  /\ cap \in Nat /\ cap >= 3 /\ cap # 0 /\ cap > 0
         /\ items \in Seq(Items) /\ Len(items) \in Nat /\ Len(items) < cap
         /\ InPlace(NoSlot, IF pc = "put" THEN carry ELSE Empty)
         /\ \E p \in Slots(cap) : index[p] = Empty
<1>1. cap \in Nat /\ cap >= 3 /\ items \in Seq(Items) /\ Len(items) \in Nat /\ Len(todo) \in Nat
  BY DEF IInv, TypeOK, Shape
<1>2. Len(items) <= Limit(cap)
  <2>1. Limit(cap) \in Nat
    BY <1>1, Limits
  <2> QED BY <1>1, <2>1 DEF IInv, HasRoom
<1>3. Len(items) < cap
  BY <1>1, <1>2, Limits
<1>4. InPlace(NoSlot, IF pc = "put" THEN carry ELSE Empty)
  BY DEF IInv, Placement
<1> QED BY <1>1, <1>3, <1>4, OneIsFree

LEMMA SearchIsAt ==
  ASSUME IInv, pc \in {"put", "get", "del"}
  PROVE  /\ pos \in Slots(cap) /\ d \in Slots(cap) /\ d \in Nat
         /\ Sought \in Keys /\ FirstSlot(Sought, cap) \in Slots(cap)
         /\ pos = SlotAt(Sought, d) /\ PassedBy(Sought, d)
         /\ d > 0 => index[Prev(pos)] # Empty /\ dist[Prev(pos)] >= d - 1
<1>1. cap \in Nat /\ cap >= 3 /\ cap # 0 /\ cap > 0
  BY RoomLeft
<1>2. Sought \in Keys
  <2>1. pc # "put" => op.key \in Keys
    BY DEF IInv, Shape
  <2>2. pc = "put" => item.key \in Keys
    BY DEF IInv, Shape, Keys
  <2>3. carry # Empty => carry \in DOMAIN items
    BY DEF IInv, TypeOK, Shape, Empty
  <2>4. carry # Empty => items[carry].key \in Keys
    BY <2>3, KeyInKeys DEF IInv, Shape
  <2> QED BY <2>1, <2>2, <2>4 DEF Sought
<1>3. FirstSlot(Sought, cap) \in Slots(cap)
  BY <1>1, <1>2, FirstInTable DEF IInv
<1>4. d \in Slots(cap) /\ pos = SlotAt(Sought, d) /\ PassedBy(Sought, d)
  BY DEF IInv, Searching
<1>5. d \in Nat /\ pos \in Slots(cap)
  BY DEF IInv, TypeOK, Shape
<1>6. ASSUME d > 0
      PROVE  index[Prev(pos)] # Empty /\ dist[Prev(pos)] >= d - 1
  <2>1. Prev(pos) = SlotAt(Sought, d - 1)
    BY <1>1, <1>3, <1>4, <1>6, RoundTrip DEF SlotAt
  <2>2. d - 1 \in 0 .. d - 1
    BY <1>5, <1>6
  <2> QED BY <1>4, <2>1, <2>2 DEF PassedBy
<1> QED BY <1>2, <1>3, <1>4, <1>5, <1>6

\* What is stored at the slot is an item, of the key looked for.
LEMMA StoreFills ==
  ASSUME IInv, pc = "put", Store, UNCHANGED <<cap, hash>>,
         index' = [index EXCEPT ![pos] = Carried],
         dist' = [dist EXCEPT ![pos] = d]
  PROVE  /\ Fills(Carried, Sought)
         /\ Carried \in 1 .. Len(items')
         /\ Carried \notin DOMAIN items \/ Carried = carry
         /\ carry \in DOMAIN items => Carried = carry
         /\ Len(items') = IF carry = Empty THEN Len(items) + 1 ELSE Len(items)
         /\ carry = Empty => items'[Len(items')] = item
<1>1. /\ items \in Seq(Items) /\ item \in Items /\ Len(items) \in Nat
      /\ carry \in 0 .. Len(items)
  BY DEF IInv, Shape, TypeOK
<1>2. CASE carry = Empty
  <2>1. items' = Append(items, item) /\ Carried = Len(items) + 1 /\ Sought = item.key
    BY <1>2 DEF Store, Carried, Sought
  <2>2. /\ items' \in Seq(Items) /\ Len(items') = Len(items) + 1
        /\ DOMAIN items = 1 .. Len(items) /\ DOMAIN items' = 1 .. Len(items) + 1
        /\ \A i \in DOMAIN items : items'[i] = items[i]
        /\ items'[Len(items) + 1] = item
    BY <1>1, <2>1
  <2>3. DOMAIN items' = DOMAIN items \cup {Carried} /\ Carried # Empty /\ Carried \in 1 .. Len(items')
    BY <1>1, <2>1, <2>2 DEF Empty
  <2>4. Fills(Carried, Sought)
    BY <2>1, <2>2, <2>3 DEF Fills
  <2>5. Carried \notin DOMAIN items /\ carry \notin DOMAIN items
    BY <1>1, <1>2, <2>1, <2>2 DEF Empty
  <2> QED BY <1>2, <2>1, <2>2, <2>3, <2>4, <2>5
<1>3. CASE carry # Empty
  <2>1. items' = items /\ Carried = carry /\ Sought = items[carry].key
    BY <1>3 DEF Store, Carried, Sought
  <2>2. carry \in 1 .. Len(items) /\ DOMAIN items = 1 .. Len(items)
    BY <1>1, <1>3 DEF Empty
  <2>3. Fills(Carried, Sought)
    BY <1>1, <1>3, <2>1, <2>2 DEF Fills
  <2> QED BY <1>3, <2>1, <2>2, <2>3
<1> QED BY <1>2, <1>3

\* The key looked for is not stored twice.
LEMMA StoreKeepsDistinct ==
  ASSUME IInv, pc = "put", Store, index[pos] = Empty \/ dist[pos] < d
  PROVE  \A i, j \in 1 .. Len(items') : items'[i].key = items'[j].key => i = j
<1>1. \A i, j \in 1 .. Len(items) : items[i].key = items[j].key => i = j
  BY DEF IInv, Distinct
<1>2. CASE carry = Empty
  <2>1. items' = Append(items, item) /\ Sought = item.key
    BY <1>2 DEF Store, Sought
  <2>2. InPlace(NoSlot, Empty) /\ items \in Seq(Items) /\ item \in Items
    BY <1>2, RoomLeft DEF IInv, Shape
  <2>3. \A i \in DOMAIN items : i # Empty => items[i].key # item.key
    <3>1. Sought \in Keys /\ d \in Slots(cap) /\ PassedBy(Sought, d) /\ pos = SlotAt(Sought, d)
      BY SearchIsAt
    <3>2. cap # 0
      BY RoomLeft
    <3> QED BY <2>1, <2>2, <3>1, <3>2, NotInTable DEF IInv
  <2>4. \A i \in 1 .. Len(items) : items[i].key # item.key
    BY <2>2, <2>3 DEF Empty
  <2>5. /\ Len(items') = Len(items) + 1 /\ items'[Len(items) + 1] = item
        /\ \A i \in 1 .. Len(items) : items'[i] = items[i]
        /\ Len(items) \in Nat
    BY <2>1, <2>2
  <2>6. \A i \in 1 .. Len(items') : i \in 1 .. Len(items) \/ i = Len(items) + 1
    BY <2>5
  <2> QED BY <1>1, <2>4, <2>5, <2>6
<1>3. CASE carry # Empty
  BY <1>1, <1>3 DEF Store
<1> QED BY <1>2, <1>3

\* The item is in its place, and the table still in order.
LEMMA PlacedKeepsIInv ==
  ASSUME IInv, pc = "put", Placed, cap' = cap,
         items' \in Seq(Items), Len(items') >= Len(items),
         Len(items') <= Len(items) + (IF carry = Empty THEN 1 ELSE 0),
         DOMAIN index' = Slots(cap), dist' \in [Slots(cap) -> Slots(cap)],
         \A p \in Slots(cap) : index'[p] \in 0 .. Len(items'),
         InPlace(NoSlot, Empty)', Chain',
         \A i, j \in 1 .. Len(items') : items'[i].key = items'[j].key => i = j
  PROVE  IInv'
<1>1. /\ cap \in Nat /\ cap >= 3 /\ Len(items) \in Nat /\ Len(items') \in Nat /\ Len(todo) \in Nat
      /\ carry \in 0 .. Len(items) /\ todo \in Seq(Items)
  BY RoomLeft DEF IInv, TypeOK, Shape
<1>2. /\ todo' = todo /\ hash' = hash /\ pc' \in {"idle", "rehash"}
      /\ pc' = "idle" => pos' = 0 /\ carry' = Empty /\ hole' = 0 /\ todo = <<>> /\ d' = 0
      /\ pc' = "rehash" => UNCHANGED locals /\ op' = op /\ todo # <<>>
  BY DEF Placed, End
<1>3. Slots(cap)' = Slots(cap)
  BY DEF Slots
<1>4. carry' \in 0 .. Len(items') /\ d' \in Nat
  <2>1. d \in Nat
    BY DEF IInv, Shape
  <2> QED BY <1>1, <1>2, <2>1 DEF locals, Empty
<1>5. TypeOK'
  <2>1. \A i \in DOMAIN items' : items'[i] \in Items
    OBVIOUS
  <2>2. pc' # "idle" => pos' \in Slots(cap) /\ hole' \in Slots(cap)
    BY <1>2 DEF locals, IInv, TypeOK
  <2>3. pc' \in Loops
    BY <1>2 DEF Loops
  <2> QED BY <1>1, <1>3, <1>4, <2>1, <2>2, <2>3 DEF TypeOK
<1>6. Shape'
  <2>1. cap # 0
    BY <1>1
  <2> QED BY <1>1, <1>2, <1>4, <2>1 DEF Shape, IInv
<1>7. HasRoom'
  <2>1. Limit(cap)' = Limit(cap) /\ Limit(cap) \in Nat
    BY <1>1, Limits DEF Limit
  <2>2. Len(items) + Len(todo) + (IF carry = Empty THEN 1 ELSE 0) <= Limit(cap)
    BY <1>1 DEF IInv, HasRoom
  <2>3. Len(items') + Len(todo) <= Limit(cap)
    BY <1>1, <2>1, <2>2
  <2> QED BY <1>1, <1>2, <2>1, <2>3 DEF HasRoom
<1>8. Placement' /\ Distinct' /\ Moving' /\ Searching' /\ Carrying'
  <2>1. Placement'
    BY <1>2 DEF Placement
  <2> QED BY <1>2, <2>1 DEF Distinct, Moving, Searching, Carrying
<1> QED BY <1>5, <1>6, <1>7, <1>8 DEF IInv

LEMMA PutIntoEmptyKeepsIInv == ASSUME IInv, PutIntoEmpty PROVE IInv'
<1>1. /\ pc = "put" /\ index[pos] = Empty /\ Store /\ cap' = cap /\ Placed
      /\ index' = [index EXCEPT ![pos] = Carried]
      /\ dist' = [dist EXCEPT ![pos] = d]
  BY DEF PutIntoEmpty, At
<1>2. hash' = hash
  BY <1>1 DEF Placed, End
<1>3. /\ Fills(Carried, Sought) /\ Carried \in 1 .. Len(items')
      /\ Carried \notin DOMAIN items \/ Carried = carry
      /\ carry \in DOMAIN items => Carried = carry
      /\ Len(items') = IF carry = Empty THEN Len(items) + 1 ELSE Len(items)
  BY <1>1, <1>2, StoreFills
<1>4. /\ pos \in Slots(cap) /\ d \in Slots(cap) /\ pos = SlotAt(Sought, d)
      /\ d > 0 => index[Prev(pos)] # Empty /\ dist[Prev(pos)] >= d - 1
  BY <1>1, SearchIsAt
<1>5. InPlace(NoSlot, carry) /\ cap # 0 /\ Len(items) \in Nat
  BY <1>1, RoomLeft
<1>6. InPlace(NoSlot, Empty)'
  BY <1>1, <1>3, <1>4, <1>5, FillPlaces DEF IInv
<1>7. Chain'
  BY <1>1, <1>3, <1>4, <1>5, FillKeepsChain DEF IInv
<1>8. \A i, j \in 1 .. Len(items') : items'[i].key = items'[j].key => i = j
  BY <1>1, StoreKeepsDistinct
<1>9. items' \in Seq(Items) /\ Len(items') \in Nat
  BY <1>3 DEF Fills
<1>10. /\ DOMAIN index' = Slots(cap) /\ dist' \in [Slots(cap) -> Slots(cap)]
       /\ \A p \in Slots(cap) : index'[p] \in 0 .. Len(items')
  <2>1. DOMAIN index = Slots(cap) /\ dist \in [Slots(cap) -> Slots(cap)]
    BY DEF IInv, TypeOK
  <2>2. \A p \in Slots(cap) : index[p] \in 0 .. Len(items)
    BY <1>1 DEF IInv, TypeOK
  <2>3. \A p \in Slots(cap) : index[p] \in 0 .. Len(items')
    BY <1>3, <1>5, <1>9, <2>2
  <2>4. DOMAIN index' = Slots(cap) /\ dist' \in [Slots(cap) -> Slots(cap)]
    BY <1>1, <1>4, <2>1
  <2>5. \A p \in Slots(cap) : index'[p] = IF p = pos THEN Carried ELSE index[p]
    BY <1>1, <2>1
  <2>6. Carried \in 0 .. Len(items')
    BY <1>3, <1>9
  <2> QED BY <2>3, <2>4, <2>5, <2>6
<1>11. Len(items') >= Len(items) /\ Len(items') <= Len(items) + (IF carry = Empty THEN 1 ELSE 0)
  BY <1>3, <1>5
<1> QED BY <1>1, <1>6, <1>7, <1>8, <1>9, <1>10, <1>11, PlacedKeepsIInv

\* put does not meet the item it has just stored.
LEMMA NotTheNewItem ==
  ASSUME IInv, pc = "put", carry # Empty, index[pos] # Empty
  PROVE  index[pos] # Len(items) /\ ~SameKey(item.key)
<1>1. cap \in Nat /\ cap > 0 /\ Len(items) \in Nat /\ items \in Seq(Items)
  BY RoomLeft
<1>2. pos \in Slots(cap) /\ index[pos] \in 1 .. Len(items)
  BY SearchIsAt DEF IInv, TypeOK, Empty
<1>3. PICK s \in Slots(cap), e \in 1 .. cap - 1 :
        index[s] = Len(items) /\ pos = Around(s, e)
  BY DEF IInv, Carrying
<1>4. pos # s
  <2>1. e \in Slots(cap) /\ 0 \in Slots(cap) /\ e # 0
    BY <1>1, <1>3 DEF Slots
  <2> QED BY <1>1, <1>3, <2>1, RoundTrip
<1>5. index[pos] # Len(items)
  <2>1. InPlace(NoSlot, carry) /\ pos # NoSlot /\ s # NoSlot
    BY <1>2, RoomLeft DEF Slots, NoSlot
  <2> QED BY <1>2, <1>3, <1>4, <2>1 DEF InPlace
<1>6. ~SameKey(item.key)
  <2>1. items[Len(items)].key = item.key
    BY DEF IInv, Carrying
  <2>2. \A i, j \in 1 .. Len(items) : items[i].key = items[j].key => i = j
    BY DEF IInv, Distinct
  <2>3. Len(items) \in 1 .. Len(items)
    BY <1>1, <1>2
  <2> QED BY <1>2, <1>5, <2>1, <2>2, <2>3 DEF SameKey
<1> QED BY <1>5, <1>6

LEMMA PutOverKeepsIInv == ASSUME IInv, PutOver PROVE IInv'
<1>1. /\ pc = "put" /\ index[pos] # Empty /\ items[index[pos]].key = item.key
      /\ items' = [items EXCEPT ![index[pos]] = item]
      /\ cap' = cap /\ index' = index /\ dist' = dist /\ Placed
  BY DEF PutOver, At, SameKey
<1>2. hash' = hash
  BY <1>1 DEF Placed, End
<1>3. carry = Empty
  BY <1>1, NotTheNewItem DEF SameKey
<1>4. /\ items \in Seq(Items) /\ item \in Items /\ Len(items) \in Nat /\ pos \in Slots(cap)
      /\ index[pos] \in 1 .. Len(items) /\ InPlace(NoSlot, Empty)
  BY <1>1, <1>3, RoomLeft, SearchIsAt DEF IInv, TypeOK, Shape, Empty
<1>5. /\ items' \in Seq(Items) /\ Len(items') = Len(items) /\ DOMAIN items' = DOMAIN items
      /\ \A i \in DOMAIN items : items'[i].key = items[i].key
  BY <1>1, <1>4
<1>6. /\ Slots(cap)' = Slots(cap) /\ \A p : Prev(p)' = Prev(p)
      /\ \A k, m : SlotAt(k, m)' = SlotAt(k, m)
  BY <1>1, <1>2 DEF Slots, Prev, SlotAt, Around, FirstSlot
<1>7. InPlace(NoSlot, Empty)'
  <2>1. \A p \in Slots(cap) : index[p] # Empty => p # NoSlot /\ index[p] \in DOMAIN items
    BY <1>4 DEF Slots, NoSlot, InPlace
  <2>2. \A p \in Slots(cap) : index[p] # Empty => items'[index'[p]].key = items[index[p]].key
    BY <1>1, <1>5, <2>1
  <2> QED BY <1>1, <1>4, <1>5, <1>6, <2>2 DEF InPlace, KeyAt
<1>8. Chain'
  BY <1>1, <1>6 DEF IInv, Chain
<1>9. \A i, j \in 1 .. Len(items') : items'[i].key = items'[j].key => i = j
  BY <1>1, <1>4, <1>5 DEF IInv, Distinct
<1>10. /\ DOMAIN index' = Slots(cap) /\ dist' \in [Slots(cap) -> Slots(cap)]
       /\ \A p \in Slots(cap) : index'[p] \in 0 .. Len(items')
  BY <1>1, <1>5 DEF IInv, TypeOK
<1>11. Len(items') >= Len(items) /\ Len(items') <= Len(items) + (IF carry = Empty THEN 1 ELSE 0)
  BY <1>3, <1>4, <1>5
<1> QED BY <1>1, <1>5, <1>7, <1>8, <1>9, <1>10, <1>11, PlacedKeepsIInv

\* One slot on: there is room for it, and a slot more has been passed.
LEMMA OneSlotOn ==
  ASSUME IInv, pc \in {"put", "get", "del"}, NEW k \in Keys, NEW n \in Slots(cap),
         \A m \in 0 .. n : index[SlotAt(k, m)] # Empty
  PROVE  /\ n + 1 \in Slots(cap)
         /\ NextSlot(SlotAt(k, n)) = SlotAt(k, n + 1)
<1>1. cap \in Nat /\ cap > 0 /\ cap # 0 /\ \E p \in Slots(cap) : index[p] = Empty
  BY RoomLeft
<1>2. FirstSlot(k, cap) \in Slots(cap)
  BY <1>1, FirstInTable DEF IInv
<1>3. n + 1 \in Nat /\ \A m \in 0 .. (n + 1) - 1 : m \in 0 .. n
  BY DEF Slots
<1>4. n + 1 \in Slots(cap)
  BY <1>1, <1>2, <1>3, LessThanATurn DEF SlotAt
<1>5. NextSlot(SlotAt(k, n)) = SlotAt(k, n + 1)
  BY <1>1, <1>2, RoundTrip DEF SlotAt
<1> QED BY <1>4, <1>5

\* The same for the slots since the new item took one.
LEMMA CarriedOn ==
  ASSUME IInv, pc = "put", carry # Empty, index[pos] # Empty
  PROVE  \E s \in Slots(cap), e \in 1 .. cap - 1 :
           /\ index[s] = Len(items) /\ s # pos /\ NextSlot(pos) = Around(s, e)
           /\ \A m \in 0 .. e - 1 : index[Around(s, m)] # Empty
<1>1. cap \in Nat /\ cap > 0 /\ \E p \in Slots(cap) : index[p] = Empty
  BY RoomLeft
<1>2. PICK s \in Slots(cap), e \in 1 .. cap - 1 :
        /\ index[s] = Len(items) /\ pos = Around(s, e)
        /\ \A m \in 0 .. e - 1 : index[Around(s, m)] # Empty
  BY DEF IInv, Carrying
<1>3. s # pos
  BY <1>2, NotTheNewItem
<1>4. \A m \in 0 .. (e + 1) - 1 : index[Around(s, m)] # Empty
  <2>1. \A m \in 0 .. (e + 1) - 1 : m \in 0 .. e - 1 \/ m = e
    BY <1>2
  <2> QED BY <1>2, <2>1
<1>5. e + 1 \in Slots(cap)
  <2>1. e + 1 \in Nat
    OBVIOUS
  <2> QED BY <1>1, <1>4, <2>1, LessThanATurn
<1>6. e + 1 \in 1 .. cap - 1 /\ e \in Slots(cap)
  BY <1>1, <1>5 DEF Slots
<1>7. NextSlot(pos) = Around(s, e + 1)
  BY <1>1, <1>2, <1>6, RoundTrip
<1> QED BY <1>2, <1>3, <1>4, <1>6, <1>7

LEMMA WalkKeepsIInv ==
  ASSUME IInv, pc \in {"put", "get", "del"}, Walk,
         index[pos] # Empty, dist[pos] >= d, KeyAt(pos) # Sought
  PROVE  IInv'
<1>1. /\ pos' = NextSlot(pos) /\ d' = d + 1
      /\ UNCHANGED <<hash, cap, items, index, dist, pc, op, item, carry, hole, todo>>
  BY DEF Walk, table
<1>2. /\ pos \in Slots(cap) /\ d \in Slots(cap) /\ d \in Nat /\ Sought \in Keys
      /\ pos = SlotAt(Sought, d) /\ PassedBy(Sought, d)
  BY SearchIsAt
<1>3. cap \in Nat /\ cap > 0 /\ cap # 0
  BY RoomLeft
<1>4. \A m \in 0 .. d : LET s == SlotAt(Sought, m)
                        IN  index[s] # Empty /\ dist[s] >= m /\ KeyAt(s) # Sought
  <2>1. \A m \in 0 .. d : m \in 0 .. d - 1 \/ m = d
    BY <1>2
  <2> QED BY <1>2, <2>1 DEF PassedBy
<1>5. d + 1 \in Slots(cap) /\ NextSlot(pos) = SlotAt(Sought, d + 1) /\ NextSlot(pos) \in Slots(cap)
  BY <1>2, <1>3, <1>4, OneSlotOn, NextIs
<1>6. /\ Slots(cap)' = Slots(cap) /\ \A p : Prev(p)' = Prev(p)
      /\ \A k, m : SlotAt(k, m)' = SlotAt(k, m) /\ \A p : KeyAt(p)' = KeyAt(p)
      /\ \A k, m : Around(k, m)' = Around(k, m)
      /\ Sought' = Sought
  BY <1>1 DEF Slots, Prev, SlotAt, Around, FirstSlot, KeyAt, Sought
<1>7. TypeOK' /\ Shape'
  BY <1>1, <1>2, <1>5, <1>6 DEF IInv, TypeOK, Shape
<1>8. HasRoom' /\ Distinct' /\ Moving'
  BY <1>1 DEF IInv, HasRoom, Distinct, Moving, Limit
<1>9. Placement'
  BY <1>1, <1>6 DEF IInv, Placement, InPlace
<1>10. Chain'
  BY <1>1, <1>6 DEF IInv, Chain
<1>11. Searching'
  <2>1. \A m \in 0 .. (d + 1) - 1 : m \in 0 .. d
    BY <1>2
  <2> QED BY <1>1, <1>4, <1>5, <1>6, <2>1 DEF Searching, PassedBy
<1>12. Carrying'
  <2> SUFFICES ASSUME pc = "put", carry # Empty PROVE Carrying'
    BY <1>1 DEF Carrying
  <2>1. items[Len(items)] = item /\ carry # Len(items)
    BY DEF IInv, Carrying
  <2>2. \E s \in Slots(cap), e \in 1 .. cap - 1 :
           /\ index[s] = Len(items) /\ s # pos /\ NextSlot(pos) = Around(s, e)
           /\ \A m \in 0 .. e - 1 : index[Around(s, m)] # Empty
    BY CarriedOn
  <2> QED BY <1>1, <1>6, <2>1, <2>2 DEF Carrying
<1> QED BY <1>7, <1>8, <1>9, <1>10, <1>11, <1>12 DEF IInv

LEMMA WalksKeepIInv == ASSUME IInv, PutWalk \/ GetWalk \/ DelWalk PROVE IInv'
<1>1. pc \in {"put", "get", "del"} /\ Walk
  BY DEF PutWalk, GetWalk, DelWalk, At
<1>2. pos \in Slots(cap) /\ d \in Nat
  BY <1>1, SearchIsAt
<1>3. cap \in Nat /\ dist[pos] \in Nat
  <2>1. cap \in Nat /\ dist[pos] \in Slots(cap)
    BY <1>1, <1>2, RoomLeft DEF IInv, TypeOK
  <2> QED BY <2>1 DEF Slots
<1>4. index[pos] # Empty /\ dist[pos] >= d
  BY <1>2, <1>3 DEF PutWalk, GetWalk, DelWalk, NotHere
<1>5. KeyAt(pos) # Sought
  <2>1. CASE pc # "put"
    BY <1>4, <2>1 DEF PutWalk, GetWalk, DelWalk, At, SameKey, KeyAt, Sought
  <2>2. CASE pc = "put" /\ carry = Empty
    BY <1>4, <2>2 DEF PutWalk, GetWalk, DelWalk, At, SameKey, KeyAt, Sought
  <2>3. CASE pc = "put" /\ carry # Empty
    <3>1. /\ index[pos] \in 1 .. Len(items) /\ index[pos] # carry
          /\ carry \in 1 .. Len(items)
      <4>1. InPlace(NoSlot, carry) /\ pos # NoSlot
        BY <1>2, <1>3, <2>3, RoomLeft DEF Slots, NoSlot
      <4> QED BY <1>2, <1>4, <2>3, <4>1 DEF InPlace, IInv, TypeOK, Empty
    <3>2. \A i, j \in 1 .. Len(items) : items[i].key = items[j].key => i = j
      BY <2>3 DEF IInv, Distinct
    <3> QED BY <2>3, <3>1, <3>2 DEF KeyAt, Sought
  <2> QED BY <2>1, <2>2, <2>3
<1> QED BY <1>1, <1>4, <1>5, WalkKeepsIInv

LEMMA DisplaceKeepsIInv == ASSUME IInv, Displace PROVE IInv'
<1>c. PICK c2 : c2 = index[pos]
  OBVIOUS
<1>1. /\ pc = "put" /\ c2 = index[pos] /\ c2 # Empty /\ ~SameKey(item.key) /\ dist[pos] < d /\ Store
      /\ index' = [index EXCEPT ![pos] = Carried]
      /\ dist' = [dist EXCEPT ![pos] = d]
      /\ carry' = c2 /\ d' = dist[pos] + 1 /\ pos' = NextSlot(pos)
      /\ UNCHANGED <<hash, cap, pc, op, item, hole, todo>>
  BY <1>c DEF Displace, At
<1>2. /\ Fills(Carried, Sought) /\ Carried \in 1 .. Len(items')
      /\ Carried \notin DOMAIN items \/ Carried = carry
      /\ carry \in DOMAIN items => Carried = carry
      /\ Len(items') = IF carry = Empty THEN Len(items) + 1 ELSE Len(items)
      /\ carry = Empty => items'[Len(items')] = item
  BY <1>1, StoreFills
<1>3. /\ pos \in Slots(cap) /\ d \in Slots(cap) /\ pos = SlotAt(Sought, d) /\ d \in Nat
      /\ d > 0 => index[Prev(pos)] # Empty /\ dist[Prev(pos)] >= d - 1
  BY <1>1, SearchIsAt
<1>4. /\ InPlace(NoSlot, carry) /\ cap # 0 /\ cap > 0 /\ cap \in Nat /\ cap >= 3
      /\ Len(items) \in Nat /\ items \in Seq(Items)
  BY <1>1, RoomLeft
<1>5. InPlace(NoSlot, c2)'
  BY <1>1, <1>2, <1>3, <1>4, FillPlaces DEF IInv
<1>6. Chain'
  BY <1>1, <1>2, <1>3, <1>4, FillKeepsChain DEF IInv
<1>7. \A i, j \in 1 .. Len(items') : items'[i].key = items'[j].key => i = j
  BY <1>1, StoreKeepsDistinct
<1>8. /\ items' \in Seq(Items) /\ Len(items') \in Nat
      /\ \A i \in DOMAIN items : items'[i] = items[i]
  BY <1>2 DEF Fills
<1>9. /\ Slots(cap)' = Slots(cap)
      /\ index'[pos] = Carried /\ dist'[pos] = d
      /\ \A p \in Slots(cap) : p # pos => index'[p] = index[p] /\ dist'[p] = dist[p]
      /\ \A a, m : Around(a, m)' = Around(a, m)
      /\ \A a, m : SlotAt(a, m)' = SlotAt(a, m)
  BY <1>2, <1>3, FilledSlots DEF IInv
<1>10. Carried # Empty
  BY <1>2 DEF Fills
<1>11. /\ c2 \in DOMAIN items /\ c2 # carry /\ dist[pos] \in Slots(cap)
       /\ SlotAt(items[c2].key, dist[pos]) = pos
  <2>1. pos # NoSlot
    BY <1>3, <1>4 DEF Slots, NoSlot
  <2> QED BY <1>1, <1>3, <1>4, <2>1 DEF InPlace, KeyAt
<1>12. items[c2].key \in Keys /\ items'[c2].key = items[c2].key
  BY <1>4, <1>8, <1>11, KeyInKeys
<1>k. PICK k : k = items[c2].key
  OBVIOUS
<1>n. PICK n : n = dist[pos]
  OBVIOUS
<1>s. n \in Slots(cap) /\ SlotAt(k, n) = pos /\ k \in Keys /\ k = items'[c2].key
  BY <1>11, <1>12, <1>k, <1>n
<1>13. \A m \in 0 .. n : /\ SlotAt(k, m) \in Slots(cap)
                         /\ index[SlotAt(k, m)] # Empty /\ dist[SlotAt(k, m)] >= m
  <2>1. FirstSlot(k, cap) \in Slots(cap)
    BY <1>4, <1>s, FirstInTable DEF IInv
  <2>2. \A m \in 0 .. n : index[Around(FirstSlot(k, cap), m)] # Empty
                          /\ dist[Around(FirstSlot(k, cap), m)] >= m
    <3>1. dist \in [Slots(cap) -> Slots(cap)]
      BY DEF IInv, TypeOK
    <3> QED BY <1>1, <1>3, <1>4, <1>s, <1>n, <2>1, <3>1, ChainMeets DEF IInv, SlotAt
  <2>3. \A m \in 0 .. n : m \in 0 .. cap
    BY <1>4, <1>s DEF Slots
  <2>4. \A m \in 0 .. n : Around(FirstSlot(k, cap), m) \in Slots(cap)
    BY <1>4, <2>1, <2>3, AroundIs
  <2> QED BY <2>2, <2>4 DEF SlotAt
<1>14. n + 1 \in Slots(cap) /\ NextSlot(pos) = SlotAt(k, n + 1) /\ NextSlot(pos) \in Slots(cap)
  BY <1>1, <1>3, <1>4, <1>s, <1>13, OneSlotOn, NextIs
<1>15. Sought' = k
  BY <1>1, <1>s DEF Sought
<1>16. Searching'
  <2> SUFFICES ASSUME NEW m \in 0 .. n
               PROVE  LET s == SlotAt(k, m)
                      IN  index'[s] # Empty /\ dist'[s] >= m /\ items'[index'[s]].key # k
    <3>1. n \in Nat /\ \A m \in 0 .. (n + 1) - 1 : m \in 0 .. n
      BY <1>4, <1>s DEF Slots
    <3> QED BY <1>1, <1>n, <1>9, <1>14, <1>15, <3>1 DEF Searching, PassedBy, KeyAt
  <2>s. PICK s : s = SlotAt(k, m)
    OBVIOUS
  <2>1. s \in Slots(cap) /\ index[s] # Empty /\ dist[s] >= m
    BY <1>13, <2>s
  <2>2. n \in Nat /\ n < d /\ m \in Nat /\ m <= n
    BY <1>1, <1>4, <1>s, <1>n DEF Slots
  <2>3. index'[s] # Empty /\ dist'[s] >= m
    <3>1. CASE s = pos
      BY <1>3, <1>9, <1>10, <2>2, <3>1
    <3>2. CASE s # pos
      BY <1>9, <2>1, <3>2
    <3> QED BY <3>1, <3>2
  <2>4. index'[s] \in 1 .. Len(items') /\ index'[s] # c2
    <3>1. s # NoSlot
      BY <1>4, <2>1 DEF Slots, NoSlot
    <3> QED BY <1>5, <1>8, <1>9, <2>1, <2>3, <3>1 DEF InPlace
  <2>5. c2 \in 1 .. Len(items') /\ items'[c2].key = k
    BY <1>2, <1>4, <1>8, <1>11, <1>s
  <2>6. items'[index'[s]].key # k
    BY <1>7, <2>4, <2>5
  <2> QED BY <2>s, <2>3, <2>6
<1>17. Carrying'
  <2>1. items'[Len(items')] = item /\ c2 # Len(items')
    <3>1. CASE carry = Empty
      BY <1>2, <1>4, <1>11, <3>1
    <3>2. CASE carry # Empty
      <4>1. items[Len(items)] = item /\ Len(items') = Len(items) /\ items' = items
        BY <1>1, <1>2, <3>2 DEF IInv, Carrying, Store
      <4>2. c2 # Len(items)
        BY <1>1, <3>2, NotTheNewItem
      <4> QED BY <4>1, <4>2
    <3> QED BY <3>1, <3>2
  <2>2. \E s \in Slots(cap), e \in 1 .. cap - 1 :
          /\ index'[s] = Len(items') /\ NextSlot(pos) = Around(s, e)
          /\ \A m \in 0 .. e - 1 : index'[Around(s, m)] # Empty
    <3>1. CASE carry = Empty
      <4>1. index'[pos] = Len(items')
        BY <1>2, <1>9, <3>1 DEF Carried
      <4>2. Around(pos, 0) = pos /\ NextSlot(pos) = Around(pos, 1)
        <5>1. 0 \in Slots(cap) /\ 0 + 1 = 1
          BY <1>4 DEF Slots
        <5>2. Around(pos, 0) = pos /\ NextSlot(Around(pos, 0)) = Around(pos, 0 + 1)
          BY <1>3, <1>4, <5>1, RoundTrip
        <5> QED BY <5>1, <5>2
      <4>3. \A m \in 0 .. 1 - 1 : index'[Around(pos, m)] # Empty
        <5>1. \A m \in 0 .. 1 - 1 : m = 0
          OBVIOUS
        <5> QED BY <1>9, <1>10, <4>2, <5>1
      <4>4. 1 \in 1 .. cap - 1
        BY <1>4
      <4> QED BY <1>3, <4>1, <4>2, <4>3, <4>4
    <3>2. CASE carry # Empty
      <4>1. PICK s \in Slots(cap), e \in 1 .. cap - 1 :
              /\ index[s] = Len(items) /\ s # pos /\ NextSlot(pos) = Around(s, e)
              /\ \A m \in 0 .. e - 1 : index[Around(s, m)] # Empty
        BY <1>1, <3>2, CarriedOn
      <4>2. index'[s] = Len(items')
        BY <1>2, <1>9, <3>2, <4>1
      <4>3. ASSUME NEW m \in 0 .. e - 1 PROVE index'[Around(s, m)] # Empty
        <5>1. m \in 0 .. cap
          BY <1>4, <4>1
        <5>2. Around(s, m) \in Slots(cap)
          BY <1>4, <5>1, AroundIs
        <5> QED BY <1>9, <1>10, <4>1, <5>2
      <4> QED BY <4>1, <4>2, <4>3
    <3> QED BY <3>1, <3>2
  <2> QED BY <1>1, <1>9, <2>1, <2>2 DEF Carrying
<1>18. TypeOK' /\ Shape'
  <2>1. c2 \in 0 .. Len(items') /\ \A i \in DOMAIN items' : items'[i] \in Items
    BY <1>2, <1>4, <1>8, <1>11
  <2>2. DOMAIN index = Slots(cap) /\ dist \in [Slots(cap) -> Slots(cap)]
    BY DEF IInv, TypeOK
  <2>3. DOMAIN index' = Slots(cap) /\ dist' \in [Slots(cap) -> Slots(cap)]
    BY <1>1, <1>3, <2>2
  <2>4. ASSUME NEW p \in Slots(cap) PROVE index'[p] \in 0 .. Len(items')
    <3>1. index[p] \in 0 .. Len(items)
      BY <1>1 DEF IInv, TypeOK
    <3> QED BY <1>2, <1>4, <1>9, <3>1
  <2>5. hole' \in Slots(cap) /\ pos' \in Slots(cap) /\ d' \in Nat
    BY <1>1, <1>4, <1>14, <1>s, <1>n DEF IInv, TypeOK, Slots
  <2>6. TypeOK'
    BY <1>1, <1>4, <1>9, <2>1, <2>3, <2>4, <2>5 DEF TypeOK, Loops
  <2>7. Shape'
    BY <1>1, <1>8, <2>5 DEF IInv, Shape
  <2> QED BY <2>6, <2>7
<1>19. HasRoom'
  <2>1. Limit(cap)' = Limit(cap) /\ Limit(cap) \in Nat /\ Len(todo) \in Nat
    BY <1>1, <1>4, Limits DEF Limit, IInv, Shape
  <2>2. Len(items) + Len(todo) + (IF carry = Empty THEN 1 ELSE 0) <= Limit(cap)
    BY <1>1, <1>4 DEF IInv, HasRoom
  <2>3. Len(items') + Len(todo) <= Limit(cap)
    BY <1>2, <1>4, <2>1, <2>2
  <2> QED BY <1>1, <1>8, <2>1, <2>3 DEF HasRoom
<1>20. Placement' /\ Distinct' /\ Moving'
  <2>1. Placement'
    BY <1>1, <1>5 DEF Placement, InPlace
  <2> QED BY <1>1, <1>7, <2>1 DEF Distinct, Moving
<1> QED BY <1>6, <1>16, <1>17, <1>18, <1>19, <1>20 DEF IInv

(***************************************************************************)
(* The items in the order of the index.                                    *)
(***************************************************************************)
\* The elements of a finite set of naturals, numbered from the least.
UpTo(S, p) == {q \in S : q <= p}
Rank(S) == [p \in S |-> Cardinality(UpTo(S, p))]

LEMMA RankIsOnto ==
  ASSUME NEW S, S \subseteq Nat, IsFiniteSet(S)
  PROVE  /\ \A p \in S : Cardinality(UpTo(S, p)) \in 1 .. Cardinality(S)
         /\ \A p, q \in S : Cardinality(UpTo(S, p)) = Cardinality(UpTo(S, q)) => p = q
         /\ \A n \in 1 .. Cardinality(S) : \E p \in S : Cardinality(UpTo(S, p)) = n
<1> DEFINE T == 1 .. Cardinality(S)
<1>1. Cardinality(S) \in Nat /\ IsFiniteSet(T) /\ Cardinality(T) = Cardinality(S)
  <2>1. Cardinality(S) \in Nat
    BY FS_CardinalityType
  <2>2. PICK n : n = Cardinality(S)
    OBVIOUS
  <2>3. IsFiniteSet(1 .. n) /\ Cardinality(1 .. n) = IF 1 > n THEN 0 ELSE n - 1 + 1
    BY <2>1, <2>2, FS_Interval
  <2>4. Cardinality(1 .. n) = n
    BY <2>1, <2>2, <2>3
  <2> QED BY <2>1, <2>2, <2>3, <2>4
<1>2. ASSUME NEW p \in S
      PROVE  /\ IsFiniteSet(UpTo(S, p)) /\ Cardinality(UpTo(S, p)) \in Nat
             /\ Cardinality(UpTo(S, p)) <= Cardinality(S) /\ Cardinality(UpTo(S, p)) # 0
  <2>1. UpTo(S, p) \in SUBSET S /\ p \in UpTo(S, p)
    BY DEF UpTo
  <2>2. IsFiniteSet(UpTo(S, p)) /\ Cardinality(UpTo(S, p)) <= Cardinality(S)
    BY <2>1, FS_Subset
  <2> QED BY <2>1, <2>2, FS_CardinalityType, FS_EmptySet
<1>3. ASSUME NEW p \in S, NEW q \in S, p < q
      PROVE  Cardinality(UpTo(S, p)) # Cardinality(UpTo(S, q))
  <2>1. UpTo(S, p) \in SUBSET UpTo(S, q) /\ q \in UpTo(S, q) /\ q \notin UpTo(S, p)
    <3>1. p \in Nat /\ q \in Nat /\ p <= q /\ q <= q /\ ~(q <= p)
      BY <1>3
    <3>2. \A r \in S : r \in Nat /\ (r <= p => r <= q)
      BY <3>1
    <3> QED BY <3>1, <3>2 DEF UpTo
  <2>2. UpTo(S, p) # UpTo(S, q)
    BY <2>1
  <2> QED BY <1>2, <2>1, <2>2, FS_Subset
<1>4. \A p \in S : Rank(S)[p] = Cardinality(UpTo(S, p))
  BY DEF Rank
<1>5. \A p \in S : Rank(S)[p] \in T
  BY <1>1, <1>2, <1>4
<1>6. \A p, q \in S : Rank(S)[p] = Rank(S)[q] => p = q
  <2>1. \A p, q \in S : p \in Nat /\ q \in Nat
    OBVIOUS
  <2>2. \A p, q \in S : p < q => Rank(S)[p] # Rank(S)[q]
    BY <1>3, <1>4
  <2> QED BY <2>1, <2>2
<1>7. Rank(S) \in Injection(S, T)
  <2>1. Rank(S) \in [S -> T]
    BY <1>5 DEF Rank
  <2> QED BY <1>6, <2>1 DEF Injection, IsInjective
<1>8. Rank(S) \in Surjection(S, T)
  <2> HIDE DEF T
  <2> QED BY <1>1, <1>7, FS_Injection
<1>9. \A n \in T : \E p \in S : Rank(S)[p] = n
  BY <1>8 DEF Surjection
<1> QED BY <1>4, <1>5, <1>6, <1>9

\* Between calls the index lists every item once.
LEMMA IndexOrderHasAll ==
  ASSUME IInv, pc = "idle"
  PROVE  /\ InIndexOrder \in Seq(Items) /\ Len(InIndexOrder) <= Len(items)
         /\ \A n \in DOMAIN InIndexOrder : \E i \in DOMAIN items : InIndexOrder[n] = items[i]
         /\ \A i \in DOMAIN items : \E n \in DOMAIN InIndexOrder : InIndexOrder[n] = items[i]
<1>1. cap \in Nat /\ items \in Seq(Items) /\ Len(items) \in Nat
  BY DEF IInv, TypeOK, Shape
<1>2. UsedSlots \subseteq Slots(cap) /\ UsedSlots \subseteq Nat
  BY <1>1 DEF UsedSlots, Slots
<1>3. IsFiniteSet(UsedSlots) /\ Cardinality(UsedSlots) \in Nat
  <2>1. IsFiniteSet(Slots(cap))
    BY <1>1, FS_Interval DEF Slots
  <2> QED BY <1>2, <2>1, FS_Subset, FS_CardinalityType
<1>4. /\ \A p \in UsedSlots : index[p] \in DOMAIN items
      /\ \A p, q \in UsedSlots : index[p] = index[q] => p = q
      /\ \A i \in DOMAIN items : \E p \in UsedSlots : index[p] = i
  <2>1. InPlace(NoSlot, Empty)
    BY DEF IInv, Placement
  <2>2. \A p \in Slots(cap) : p # NoSlot
    BY <1>1 DEF Slots, NoSlot
  <2>3. \A i \in DOMAIN items : i # Empty
    BY <1>1 DEF Empty
  <2> QED BY <2>1, <2>2, <2>3 DEF InPlace, UsedSlots
<1> DEFINE nth(n) == CHOOSE p \in UsedSlots : Cardinality(UpTo(UsedSlots, p)) = n
<1>5. InIndexOrder = [n \in 1 .. Cardinality(UsedSlots) |-> items[index[nth(n)]]]
  BY DEF InIndexOrder, UpTo
<1>7. \A n \in 1 .. Cardinality(UsedSlots) :
        nth(n) \in UsedSlots /\ Cardinality(UpTo(UsedSlots, nth(n))) = n
  <2>1. \A n \in 1 .. Cardinality(UsedSlots) :
          \E p \in UsedSlots : Cardinality(UpTo(UsedSlots, p)) = n
    BY <1>2, <1>3, RankIsOnto
  <2> QED BY <2>1
<1>8. \A p \in UsedSlots : /\ Cardinality(UpTo(UsedSlots, p)) \in 1 .. Cardinality(UsedSlots)
                           /\ nth(Cardinality(UpTo(UsedSlots, p))) = p
  <2>1. \A p \in UsedSlots : Cardinality(UpTo(UsedSlots, p)) \in 1 .. Cardinality(UsedSlots)
    BY <1>2, <1>3, RankIsOnto
  <2>2. \A p, q \in UsedSlots :
          Cardinality(UpTo(UsedSlots, p)) = Cardinality(UpTo(UsedSlots, q)) => p = q
    BY <1>2, <1>3, RankIsOnto
  <2>3. \A p \in UsedSlots :
          LET n == Cardinality(UpTo(UsedSlots, p))
          IN  nth(n) \in UsedSlots /\ Cardinality(UpTo(UsedSlots, nth(n))) = n
    BY <1>7, <2>1
  <2> HIDE DEF nth
  <2> QED BY <2>1, <2>2, <2>3
<1> HIDE DEF nth
<1>9. InIndexOrder \in Seq(Items) /\ Len(InIndexOrder) = Cardinality(UsedSlots)
  <2>1. \A n \in 1 .. Cardinality(UsedSlots) : items[index[nth(n)]] \in Items
    BY <1>1, <1>4, <1>7
  <2> QED BY <1>3, <1>5, <2>1
<1>10. DOMAIN InIndexOrder = 1 .. Cardinality(UsedSlots)
  BY <1>5
<1>11. \A n \in DOMAIN InIndexOrder : \E i \in DOMAIN items : InIndexOrder[n] = items[i]
  BY <1>4, <1>5, <1>7, <1>10
<1>12. \A i \in DOMAIN items : \E n \in DOMAIN InIndexOrder : InIndexOrder[n] = items[i]
  <2> SUFFICES ASSUME NEW i \in DOMAIN items
               PROVE  \E n \in DOMAIN InIndexOrder : InIndexOrder[n] = items[i]
    OBVIOUS
  <2>1. PICK p \in UsedSlots : index[p] = i
    BY <1>4
  <2>2. PICK n \in 1 .. Cardinality(UsedSlots) : nth(n) = p
    BY <1>8
  <2> QED BY <1>5, <1>10, <2>1, <2>2
<1>13. Cardinality(UsedSlots) <= Len(items)
  <2> DEFINE f == [p \in UsedSlots |-> index[p]]
             T == 1 .. Len(items)
  <2>1. f \in Injection(UsedSlots, T)
    BY <1>1, <1>4 DEF Injection, IsInjective
  <2>2. IsFiniteSet(T) /\ Cardinality(T) = Len(items)
    <3>1. PICK n : n = Len(items) /\ n \in Int /\ n \in Nat /\ 1 \in Int
      BY <1>1
    <3>2. IsFiniteSet(1 .. n) /\ Cardinality(1 .. n) = IF 1 > n THEN 0 ELSE n - 1 + 1
      BY <3>1, FS_Interval
    <3> QED BY <3>1, <3>2
  <2>3. Cardinality(UsedSlots) <= Cardinality(T)
    <3> HIDE DEF f, T
    <3> QED BY <2>1, <2>2, FS_Injection
  <2> QED BY <2>2, <2>3
<1> QED BY <1>9, <1>11, <1>12, <1>13

(***************************************************************************)
(* A loop begins, and ends.                                                *)
(***************************************************************************)
\* The operators on slots read hash and the table only.
LEMMA TableKept ==
  ASSUME UNCHANGED <<hash, cap, items, index, dist>>
  PROVE  /\ Slots(cap)' = Slots(cap) /\ Limit(cap)' = Limit(cap)
         /\ \A p : Prev(p)' = Prev(p)
         /\ \A a, m : Around(a, m)' = Around(a, m)
         /\ \A k, m : SlotAt(k, m)' = SlotAt(k, m)
         /\ \A p : KeyAt(p)' = KeyAt(p)
         /\ \A h, c : InPlace(h, c)' <=> InPlace(h, c)
         /\ Chain' <=> Chain
<1>1. /\ Slots(cap)' = Slots(cap) /\ Limit(cap)' = Limit(cap)
      /\ \A p : Prev(p)' = Prev(p)
      /\ \A a, m : Around(a, m)' = Around(a, m)
      /\ \A k, m : SlotAt(k, m)' = SlotAt(k, m)
      /\ \A p : KeyAt(p)' = KeyAt(p)
  BY DEF Slots, Limit, Prev, Around, SlotAt, FirstSlot, KeyAt
<1>2. \A h, c : InPlace(h, c)' <=> InPlace(h, c)
  BY DEF InPlace, SlotAt, Around, FirstSlot, KeyAt, Slots
<1>3. Chain' <=> Chain
  BY DEF Chain, Slots, Prev
<1> QED BY <1>1, <1>2, <1>3

LEMMA FirstSlotIs ==
  ASSUME Shape, cap \in Nat, cap # 0, NEW k \in Keys
  PROVE  /\ FirstSlot(k, cap) \in Slots(cap) /\ 0 \in Slots(cap)
         /\ SlotAt(k, 0) = FirstSlot(k, cap)
<1>1. FirstSlot(k, cap) \in Slots(cap)
  BY FirstInTable
<1>2. 0 \in Slots(cap) /\ cap > 0
  BY DEF Slots
<1> QED BY <1>1, <1>2, RoundTrip DEF SlotAt

\* The head of put's loop.
LEMMA SeekKeepsIInv ==
  ASSUME IInv, pc \in {"idle", "rehash"}, cap # 0,
         NEW x \in Items, Seek(x, cap), UNCHANGED <<hash, cap, items, index, dist, hole>>,
         todo' \in Seq(Items), op'.key \in Keys, hole \in Slots(cap),
         Len(items) + Len(todo') + 1 <= Limit(cap)
  PROVE  IInv'
<1>1. pc' = "put" /\ item' = x /\ pos' = FirstSlot(x.key, cap) /\ d' = 0 /\ carry' = Empty
  BY DEF Seek
<1>2. cap \in Nat /\ x.key \in Keys /\ Len(items) \in Nat
  BY DEF IInv, TypeOK, Shape, Keys
<1>3. /\ FirstSlot(x.key, cap) \in Slots(cap) /\ 0 \in Slots(cap)
      /\ SlotAt(x.key, 0) = FirstSlot(x.key, cap)
  BY <1>2, FirstSlotIs DEF IInv
<1>4. /\ Slots(cap)' = Slots(cap) /\ Limit(cap)' = Limit(cap)
      /\ \A k, m : SlotAt(k, m)' = SlotAt(k, m)
      /\ \A h, c : InPlace(h, c)' <=> InPlace(h, c)
      /\ Chain' <=> Chain
  BY TableKept
<1>5. TypeOK' /\ Shape'
  BY <1>1, <1>2, <1>3, <1>4 DEF IInv, TypeOK, Shape, Loops, Empty
<1>6. HasRoom' /\ Distinct' /\ Moving' /\ Carrying'
  BY <1>1, <1>4 DEF HasRoom, Distinct, Moving, Carrying, IInv
<1>7. Placement'
  <2>1. InPlace(NoSlot, Empty)
    BY DEF IInv, Placement
  <2>2. InPlace(NoSlot, Empty)'
    BY <1>4, <2>1
  <2> QED BY <1>1, <2>2 DEF Placement
<1>8. Searching'
  <2>1. Sought' = x.key
    BY <1>1 DEF Sought
  <2> QED BY <1>1, <1>3, <1>4, <2>1 DEF Searching, PassedBy
<1> QED BY <1>4, <1>5, <1>6, <1>7, <1>8 DEF IInv

\* The head of the loop that looks for a key.
LEMMA FindKeepsIInv ==
  ASSUME IInv, pc = "idle", cap # 0, NEW k \in Keys,
         NEW loop \in {"get", "del"}, Find(loop, k), op'.key = k, UNCHANGED <<hash, hole>>
  PROVE  IInv'
<1>1. /\ pc' = loop /\ pos' = FirstSlot(k, cap) /\ d' = 0
      /\ UNCHANGED <<cap, items, index, dist, item, carry, todo>>
  BY DEF Find, table
<1>2. cap \in Nat /\ Len(items) \in Nat /\ hole = 0 /\ carry = Empty /\ todo = <<>>
  BY DEF IInv, TypeOK, Shape
<1>3. /\ FirstSlot(k, cap) \in Slots(cap) /\ 0 \in Slots(cap)
      /\ SlotAt(k, 0) = FirstSlot(k, cap)
  BY <1>2, FirstSlotIs DEF IInv
<1>4. /\ Slots(cap)' = Slots(cap) /\ Limit(cap)' = Limit(cap)
      /\ \A j, m : SlotAt(j, m)' = SlotAt(j, m)
      /\ \A h, c : InPlace(h, c)' <=> InPlace(h, c)
      /\ Chain' <=> Chain
  BY <1>1, TableKept
<1>5. TypeOK' /\ Shape'
  BY <1>1, <1>2, <1>3, <1>4 DEF IInv, TypeOK, Shape, Loops, Empty
<1>6. HasRoom' /\ Distinct' /\ Moving' /\ Carrying'
  BY <1>1, <1>4 DEF HasRoom, Distinct, Moving, Carrying, IInv
<1>7. Placement'
  <2>1. InPlace(NoSlot, Empty)
    BY DEF IInv, Placement
  <2>2. InPlace(NoSlot, Empty)'
    BY <1>4, <2>1
  <2> QED BY <1>1, <2>2 DEF Placement
<1>8. Searching'
  <2>1. Sought' = k
    BY <1>1 DEF Sought
  <2> QED BY <1>1, <1>3, <1>4, <2>1 DEF Searching, PassedBy
<1> QED BY <1>4, <1>5, <1>6, <1>7, <1>8 DEF IInv

\* A table with nothing in it.
LEMMA FreshKeepsIInv ==
  ASSUME IInv, pc = "idle", NEW c \in Nat, c >= 3, Fresh(c), hash' = hash,
         UNCHANGED hole, op'.key \in Keys, todo' \in Seq(Items), carry' = Empty, d' \in Nat,
         \/ pc' = "rehash" /\ todo' # <<>> /\ pos' = pos /\ Len(todo') <= Limit(c)
         \/ \E x \in Items : Seek(x, c) /\ Len(todo') + 1 <= Limit(c)
  PROVE  IInv'
<1>1. /\ cap' = c /\ items' = <<>>
      /\ index' = [p \in Slots(c) |-> Empty] /\ dist' = [p \in Slots(c) |-> 0]
  BY DEF Fresh
<1>2. /\ Slots(cap)' = Slots(c) /\ 0 \in Slots(c) /\ pos = 0 /\ hole = 0
      /\ Limit(cap)' = Limit(c)
      /\ items' \in Seq(Items) /\ Len(items') = 0 /\ DOMAIN items' = {}
      /\ Len(todo') \in Nat /\ Limit(c) \in Nat
  BY <1>1, Limits DEF Slots, Limit, IInv, Shape
<1>3. InPlace(NoSlot, Empty)' /\ Chain'
  BY <1>1, <1>2 DEF InPlace, Chain
<1>4. /\ hash' \in [Keys -> Nat]
      /\ DOMAIN index' = Slots(c) /\ dist' \in [Slots(c) -> Slots(c)]
      /\ \A p \in Slots(c) : index'[p] \in 0 .. 0 /\ index'[p] = Empty
  BY <1>1, <1>2 DEF IInv, Shape, Empty
<1>5. CASE pc' = "rehash" /\ todo' # <<>> /\ pos' = pos /\ Len(todo') <= Limit(c)
  <2>1. TypeOK'
    BY <1>1, <1>2, <1>4, <1>5 DEF TypeOK, Loops, Empty
  <2>2. Shape'
    BY <1>1, <1>2, <1>4, <1>5 DEF Shape
  <2>3. HasRoom'
    BY <1>1, <1>2, <1>5 DEF HasRoom
  <2>4. Placement' /\ Distinct' /\ Moving' /\ Searching' /\ Carrying'
    BY <1>2, <1>3, <1>5 DEF Placement, Distinct, Moving, Searching, Carrying
  <2> QED BY <1>3, <2>1, <2>2, <2>3, <2>4 DEF IInv
<1>6. ASSUME NEW x \in Items, Seek(x, c), Len(todo') + 1 <= Limit(c)
      PROVE  IInv'
  <2>1. pc' = "put" /\ item' = x /\ pos' = FirstSlot(x.key, c) /\ d' = 0 /\ carry' = Empty
    BY <1>6 DEF Seek
  <2>2. hash[x.key] \in Nat /\ c > 0 /\ x.key \in Keys
    BY DEF IInv, Shape, Keys
  <2>3. FirstSlot(x.key, c) \in Slots(c)
    <3>1. \A a \in Nat : a % c \in 0 .. c - 1
      BY <2>2
    <3> QED BY <2>2, <3>1 DEF FirstSlot, Slots
  <2>4. TypeOK'
    BY <1>1, <1>2, <1>4, <2>1, <2>3 DEF TypeOK, Loops, Empty
  <2>5. Shape'
    BY <1>1, <1>2, <1>4, <2>1 DEF Shape
  <2>6. HasRoom'
    BY <1>1, <1>2, <1>6, <2>1 DEF HasRoom
  <2>7. SlotAt(x.key, 0)' = FirstSlot(x.key, c)
    <3>1. FirstSlot(x.key, c) \in 0 .. c - 1 /\ FirstSlot(x.key, c) + 0 = FirstSlot(x.key, c)
      BY <2>3 DEF Slots
    <3>2. FirstSlot(x.key, c) % c = FirstSlot(x.key, c)
      <4>1. PICK a : a = FirstSlot(x.key, c) /\ a \in 0 .. c - 1
        BY <3>1
      <4>2. c \in Nat /\ c > 0
        BY <1>1, <2>2
      <4> QED BY <4>1, <4>2, OneTurn
    <3>3. FirstSlot(x.key, cap)' = FirstSlot(x.key, c)
      BY <1>1 DEF FirstSlot
    <3> QED BY <1>1, <3>1, <3>2, <3>3 DEF SlotAt, Around
  <2>8. Searching'
    <3>1. Sought' = x.key
      BY <2>1 DEF Sought
    <3> QED BY <1>2, <2>1, <2>7, <3>1 DEF Searching, PassedBy
  <2>9. Placement' /\ Distinct' /\ Moving' /\ Carrying'
    BY <1>2, <1>3, <2>1 DEF Placement, Distinct, Moving, Carrying
  <2> QED BY <1>3, <2>4, <2>5, <2>6, <2>8, <2>9 DEF IInv
<1> QED BY <1>5, <1>6

LEMMA CallsKeepIInv == ASSUME IInv, Call PROVE IInv'
<1>1. cap \in Nat /\ Len(items) \in Nat /\ items \in Seq(Items)
  BY DEF IInv, TypeOK, Shape
<1>2. ASSUME pc = "idle"
      PROVE  hole = 0 /\ todo = <<>> /\ carry = Empty /\ d \in Nat /\ Len(todo) = 0
  BY <1>2 DEF IInv, Shape
<1>3. ASSUME NEW k \in Keys, NEW name, OnNothing(name, k)
      PROVE  IInv'
  <2>1. UNCHANGED <<hash, cap, items, index, dist, pc, op, item, pos, d, carry, hole, todo>>
    BY <1>3 DEF OnNothing, table, locals
  <2>2. pc = "idle"
    BY <1>3 DEF OnNothing
  <2>3. /\ Slots(cap)' = Slots(cap) /\ Limit(cap)' = Limit(cap)
        /\ \A h, c : InPlace(h, c)' <=> InPlace(h, c)
        /\ Chain' <=> Chain
    BY <2>1, TableKept
  <2>4. TypeOK' /\ Shape' /\ HasRoom' /\ Distinct'
    BY <2>1, <2>3 DEF IInv, TypeOK, Shape, HasRoom, Distinct
  <2>5. Placement'
    BY <2>1, <2>2, <2>3 DEF IInv, Placement
  <2> QED BY <2>1, <2>2, <2>3, <2>4, <2>5 DEF IInv, Moving, Searching, Carrying
<1>4. ASSUME NEW k \in Keys, Get(k) \/ Del(k) PROVE IInv'
  <2>1. CASE OnNothing("get", k) \/ OnNothing("del", k)
    BY <1>3, <2>1
  <2>2. CASE Begin("get", k) /\ cap # 0 /\ Find("get", k)
    BY <2>2, FindKeepsIInv DEF Begin
  <2>3. CASE Begin("del", k) /\ cap # 0 /\ Find("del", k)
    BY <2>3, FindKeepsIInv DEF Begin
  <2> QED BY <1>4, <2>1, <2>2, <2>3 DEF Get, Del
<1>5. ASSUME NEW x \in Items, PutFirst(x) PROVE IInv'
  <2>1. /\ pc = "idle" /\ op'.key = x.key /\ hash' = hash /\ hole' = hole /\ todo' = todo
        /\ Fresh(Capacity) /\ Seek(x, Capacity) /\ carry' = Empty /\ d' = 0
    BY <1>5 DEF PutFirst, Begin, Seek
  <2>2. Capacity \in Nat /\ Capacity >= 3 /\ x.key \in Keys
    BY CapacityAssumption DEF Keys
  <2>3. todo' \in Seq(Items) /\ Len(todo') + 1 <= Limit(Capacity)
    <3>1. 0 < Limit(Capacity) /\ Limit(Capacity) \in Nat
      BY <2>2, Limits
    <3> QED BY <1>2, <2>1, <3>1
  <2> QED BY <2>1, <2>2, <2>3, FreshKeepsIInv
<1>6. ASSUME NEW x \in Items, Put(x) PROVE IInv'
  <2>1. /\ pc = "idle" /\ op'.key = x.key /\ ~Full /\ cap # 0
        /\ Seek(x, cap) /\ UNCHANGED <<hash, cap, items, index, dist, hole, todo>>
    BY <1>6 DEF Put, Begin, table
  <2>2. cap >= 3 /\ x.key \in Keys
    BY <2>1 DEF IInv, Shape, Keys
  <2>3. hole \in Slots(cap) /\ todo' \in Seq(Items) /\ Len(items) + Len(todo') + 1 <= Limit(cap)
    <3>1. Limit(cap) \in Nat /\ Len(items) < Limit(cap)
      BY <1>1, <2>1, <2>2, Limits DEF Full
    <3> QED BY <1>1, <1>2, <2>1, <2>2, <3>1 DEF Slots
  <2> QED BY <2>1, <2>2, <2>3, SeekKeepsIInv
<1>7. ASSUME NEW x \in Items, Grow(x) PROVE IInv'
  <2>1. /\ pc = "idle" /\ op'.key = x.key /\ Full /\ cap # 0 /\ pc' = "rehash"
        /\ Fresh(2 * cap) /\ todo' = Append(InIndexOrder, x)
        /\ UNCHANGED <<hash, hole, item, pos, d, carry>>
    BY <1>7 DEF Grow, Begin
  <2>2. cap >= 3 /\ x.key \in Keys /\ 2 * cap \in Nat /\ 2 * cap >= 3
    BY <1>1, <2>1 DEF IInv, Shape, Keys
  <2>3. InIndexOrder \in Seq(Items) /\ Len(InIndexOrder) <= Len(items)
    BY <2>1, IndexOrderHasAll
  <2>4. todo' \in Seq(Items) /\ todo' # <<>> /\ Len(todo') = Len(InIndexOrder) + 1
    BY <2>1, <2>3
  <2>5. Len(todo') <= Limit(2 * cap)
    <3>1. Limit(cap) \in Nat /\ Limit(cap) + 1 <= Limit(2 * cap) /\ Limit(2 * cap) \in Nat
      BY <1>1, <2>2, Limits
    <3>2. Len(items) <= Limit(cap)
      BY <1>1, <1>2, <2>1, <3>1 DEF IInv, HasRoom
    <3>3. Len(InIndexOrder) \in Nat
      BY <2>3
    <3> QED BY <1>1, <2>3, <2>4, <3>1, <3>2, <3>3
  <2> QED BY <1>2, <2>1, <2>2, <2>4, <2>5, FreshKeepsIInv
<1> QED BY <1>4, <1>5, <1>6, <1>7 DEF Call

LEMMA RehashKeepsIInv == ASSUME IInv, Rehash PROVE IInv'
<1>1. /\ pc = "rehash" /\ Seek(Head(todo), cap) /\ todo' = Tail(todo)
      /\ UNCHANGED <<hash, cap, items, index, dist, hole, op>>
  BY DEF Rehash, At, table
<1>2. /\ cap # 0 /\ todo \in Seq(Items) /\ todo # <<>> /\ op.key \in Keys
      /\ hole \in Slots(cap) /\ Len(items) \in Nat /\ cap >= 3 /\ cap \in Nat
  BY <1>1 DEF IInv, Shape, TypeOK
<1>3. Head(todo) \in Items /\ Tail(todo) \in Seq(Items) /\ Len(Tail(todo)) = Len(todo) - 1
  BY <1>2
<1>4. Len(items) + Len(todo') + 1 <= Limit(cap)
  <2>1. Len(items) + Len(todo) <= Limit(cap) /\ Limit(cap) \in Nat /\ Len(todo) \in Nat
    BY <1>1, <1>2, Limits DEF IInv, HasRoom
  <2> QED BY <1>1, <1>2, <1>3, <2>1
<1> QED BY <1>1, <1>2, <1>3, <1>4, SeekKeepsIInv

\* A search ends, and the table is as before.
LEMMA EndKeepsIInv ==
  ASSUME IInv, pc \in {"get", "del"}, NEW answer, End(answer), UNCHANGED table
  PROVE  IInv'
<1>1. /\ UNCHANGED <<hash, cap, items, index, dist, todo>>
      /\ pc' = "idle" /\ pos' = 0 /\ d' = 0 /\ carry' = Empty /\ hole' = 0
  BY DEF End, table
<1>2. /\ Slots(cap)' = Slots(cap) /\ Limit(cap)' = Limit(cap)
      /\ \A h, c : InPlace(h, c)' <=> InPlace(h, c)
      /\ Chain' <=> Chain
  BY <1>1, TableKept
<1>3. cap \in Nat /\ cap # 0 /\ Len(items) \in Nat /\ todo = <<>>
  BY DEF IInv, TypeOK, Shape
<1>4. TypeOK' /\ Shape'
  BY <1>1, <1>2, <1>3 DEF IInv, TypeOK, Shape, Loops, Empty
<1>5. HasRoom' /\ Distinct'
  BY <1>1, <1>2, <1>3 DEF IInv, HasRoom, Distinct
<1>6. Placement'
  BY <1>1, <1>2 DEF IInv, Placement
<1> QED BY <1>1, <1>2, <1>4, <1>5, <1>6 DEF IInv, Moving, Searching, Carrying

(***************************************************************************)
(* hmdel keeps the invariant.                                              *)
(***************************************************************************)
\* What del has found.
LEMMA DelFinds ==
  ASSUME IInv, pc = "del", ~NotHere, SameKey(op.key)
  PROVE  /\ cap \in Nat /\ cap >= 3 /\ cap > 0 /\ items \in Seq(Items) /\ Len(items) \in Nat
         /\ pos \in Slots(cap) /\ pos # NoSlot /\ index[pos] \in 1 .. Len(items)
         /\ Len(items) >= 1 /\ DOMAIN items = 1 .. Len(items)
         /\ InPlace(NoSlot, Empty)
<1>1. /\ cap \in Nat /\ cap >= 3 /\ cap > 0 /\ items \in Seq(Items) /\ Len(items) \in Nat
      /\ InPlace(NoSlot, Empty) /\ pos \in Slots(cap)
  BY RoomLeft, SearchIsAt
<1>2. index[pos] \in 1 .. Len(items)
  BY <1>1 DEF IInv, TypeOK, SameKey, Empty
<1>3. pos # NoSlot
  BY <1>1 DEF Slots, NoSlot
<1> QED BY <1>1, <1>2, <1>3

LEMMA ButLastIs ==
  ASSUME NEW S, NEW s \in Seq(S), Len(s) >= 1
  PROVE  /\ ButLast(s) \in Seq(S) /\ Len(ButLast(s)) = Len(s) - 1
         /\ DOMAIN ButLast(s) = 1 .. Len(s) - 1
         /\ \A i \in 1 .. Len(s) - 1 : ButLast(s)[i] = s[i]
<1>1. PICK n : n = Len(s) - 1 /\ n \in Int /\ n \in Nat /\ 1 \in Int
  OBVIOUS
<1>2. \A i \in 1 .. n : s[i] \in S
  BY <1>1
<1>3. /\ SubSeq(s, 1, n) \in Seq(S)
      /\ Len(SubSeq(s, 1, n)) = IF 1 <= n THEN n - 1 + 1 ELSE 0
      /\ \A i \in 1 .. n - 1 + 1 : SubSeq(s, 1, n)[i] = s[1 + i - 1]
  BY <1>1, <1>2, SubSeqProperties
<1>4. ButLast(s) = SubSeq(s, 1, n)
  BY <1>1 DEF ButLast
<1>5. ButLast(s) \in Seq(S) /\ Len(ButLast(s)) = n /\ \A i \in 1 .. n : ButLast(s)[i] = s[i]
  BY <1>1, <1>3, <1>4
<1>6. DOMAIN ButLast(s) = 1 .. n
  BY <1>5
<1> QED BY <1>1, <1>5, <1>6

LEMMA DelLastKeepsIInv == ASSUME IInv, DelLast PROVE IInv'
<1>1. /\ pc = "del" /\ ~NotHere /\ SameKey(op.key) /\ index[pos] = Len(items)
      /\ items' = ButLast(items) /\ pc' = "shift" /\ hole' = pos
      /\ UNCHANGED <<hash, cap, index, dist, op, item, pos, d, carry, todo>>
  BY DEF DelLast, At, Last
<1>2. /\ cap \in Nat /\ cap >= 3 /\ items \in Seq(Items) /\ Len(items) \in Nat
      /\ pos \in Slots(cap) /\ pos # NoSlot /\ Len(items) >= 1
      /\ DOMAIN items = 1 .. Len(items) /\ InPlace(NoSlot, Empty)
  BY <1>1, DelFinds
<1>3. /\ items' \in Seq(Items) /\ Len(items') = Len(items) - 1 /\ DOMAIN items' = 1 .. Len(items) - 1
      /\ \A i \in 1 .. Len(items) - 1 : items'[i] = items[i]
  BY <1>1, <1>2, ButLastIs
<1>4. /\ Slots(cap)' = Slots(cap) /\ Limit(cap)' = Limit(cap)
      /\ \A p : Prev(p)' = Prev(p) /\ \A k, m : SlotAt(k, m)' = SlotAt(k, m)
  BY <1>1 DEF Slots, Limit, Prev, SlotAt, Around, FirstSlot
<1>5. \A p \in Slots(cap) : p # NoSlot
  BY <1>2 DEF Slots, NoSlot
<1>6. ASSUME NEW p \in Slots(cap), p # pos, index[p] # Empty
      PROVE  index[p] \in 1 .. Len(items) - 1
  BY <1>1, <1>2, <1>5, <1>6 DEF InPlace
<1>7. Placement'
  <2>1. \A p \in Slots(cap) : p # pos /\ index[p] # Empty =>
          /\ index[p] \in DOMAIN items' /\ dist[p] \in Slots(cap)
          /\ SlotAt(items'[index[p]].key, dist[p]) = p
    BY <1>2, <1>3, <1>5, <1>6 DEF InPlace, KeyAt
  <2>2. \A p, q \in Slots(cap) : index[p] # Empty /\ index[p] = index[q] => p = q
    BY <1>2, <1>5 DEF InPlace
  <2>3. \A i \in DOMAIN items' : i # Empty => \E p \in Slots(cap) : p # pos /\ index[p] = i
    BY <1>1, <1>2, <1>3 DEF InPlace
  <2> QED BY <1>1, <1>4, <2>1, <2>2, <2>3 DEF Placement, InPlace, KeyAt
<1>8. Chain'
  BY <1>1, <1>4 DEF IInv, Chain
<1>9. todo = <<>> /\ carry = Empty
  BY <1>1 DEF IInv, Shape
<1>10. TypeOK'
  <2>1. \A p \in Slots(cap) : index[p] \in 0 .. Len(items') \/ p = pos
    BY <1>2, <1>3, <1>6 DEF Empty
  <2>2. \A i \in DOMAIN items' : items'[i] \in Items
    BY <1>3
  <2>3. carry \in 0 .. Len(items')
    BY <1>2, <1>3, <1>9 DEF Empty
  <2> QED BY <1>1, <1>2, <1>4, <2>1, <2>2, <2>3 DEF IInv, TypeOK, Loops
<1>11. Shape'
  BY <1>1, <1>2, <1>3 DEF IInv, Shape
<1>12. HasRoom' /\ Distinct' /\ Moving'
  <2>1. Limit(cap) \in Nat
    BY <1>2, Limits
  <2>2. HasRoom'
    BY <1>1, <1>2, <1>3, <1>4, <1>9, <2>1 DEF IInv, HasRoom
  <2>3. Distinct'
    BY <1>1, <1>2, <1>3 DEF IInv, Distinct
  <2>4. Moving'
    BY <1>1, <1>2 DEF Moving, Empty
  <2> QED BY <2>2, <2>3, <2>4
<1> QED BY <1>1, <1>7, <1>8, <1>10, <1>11, <1>12 DEF IInv, Searching, Carrying

LEMMA DelMoveKeepsIInv == ASSUME IInv, DelMove PROVE IInv'
<1>h. PICK h : h = index[pos]
  OBVIOUS
<1>1. /\ pc = "del" /\ ~NotHere /\ SameKey(op.key) /\ h # Len(items)
      /\ items' = [items EXCEPT ![h] = items[Len(items)]]
      /\ pc' = "move" /\ hole' = pos /\ pos' = FirstSlot(items[Len(items)].key, cap)
      /\ UNCHANGED <<hash, cap, index, dist, op, item, d, carry, todo>>
  BY <1>h DEF DelMove, At, Last
<1>2. /\ cap \in Nat /\ cap >= 3 /\ items \in Seq(Items) /\ Len(items) \in Nat
      /\ pos \in Slots(cap) /\ pos # NoSlot /\ Len(items) >= 1
      /\ DOMAIN items = 1 .. Len(items) /\ h \in 1 .. Len(items) - 1
      /\ InPlace(NoSlot, Empty)
  BY <1>h, <1>1, DelFinds
<1>3. /\ items[Len(items)] \in Items /\ items[Len(items)].key \in Keys
      /\ items' \in Seq(Items) /\ Len(items') = Len(items) /\ DOMAIN items' = DOMAIN items
      /\ items'[h] = items[Len(items)]
      /\ \A i \in 1 .. Len(items) : i # h => items'[i] = items[i]
  <2>1. Len(items) \in DOMAIN items
    BY <1>2
  <2> QED BY <1>1, <1>2, <2>1, KeyInKeys
<1>4. pos' \in Slots(cap)
  BY <1>1, <1>2, <1>3, FirstInTable DEF IInv
<1>5. /\ Slots(cap)' = Slots(cap) /\ Limit(cap)' = Limit(cap)
      /\ \A p : Prev(p)' = Prev(p) /\ \A k, m : SlotAt(k, m)' = SlotAt(k, m)
  BY <1>1 DEF Slots, Limit, Prev, SlotAt, Around, FirstSlot
<1>6. \A p \in Slots(cap) : p # NoSlot
  BY <1>2 DEF Slots, NoSlot
<1>7. Placement'
  <2>1. \A p \in Slots(cap) : p # pos /\ index[p] # Empty =>
          /\ index[p] \in DOMAIN items' /\ index[p] # h /\ dist[p] \in Slots(cap)
          /\ SlotAt(items'[index[p]].key, dist[p]) = p
    BY <1>h, <1>2, <1>3, <1>6 DEF InPlace, KeyAt
  <2>2. \A p, q \in Slots(cap) : index[p] # Empty /\ index[p] = index[q] => p = q
    BY <1>2, <1>6 DEF InPlace
  <2>3. \A i \in DOMAIN items' : i # h => \E p \in Slots(cap) : p # pos /\ index[p] = i
    BY <1>h, <1>2, <1>3 DEF InPlace, Empty
  <2> QED BY <1>h, <1>1, <1>5, <2>1, <2>2, <2>3 DEF Placement, InPlace, KeyAt
<1>8. Chain'
  BY <1>1, <1>5 DEF IInv, Chain
<1>9. TypeOK'
  BY <1>1, <1>2, <1>3, <1>4, <1>5 DEF IInv, TypeOK, Loops
<1>10. Shape'
  BY <1>1, <1>2, <1>3 DEF IInv, Shape
<1>11. HasRoom' /\ Distinct' /\ Moving'
  <2>1. HasRoom'
    BY <1>1, <1>3, <1>5 DEF IInv, HasRoom
  <2>2. Distinct'
    <3>1. \A i, j \in 1 .. Len(items) : items[i].key = items[j].key => i = j
      BY <1>1 DEF IInv, Distinct
    <3>n. PICK n \in Nat : n = Len(items)
      BY <1>1
    <3>2. \A i \in 1 .. Len(items) - 1 : i \in 1 .. Len(items) /\ i # Len(items)
      <4>1. \A i \in 1 .. n - 1 : i \in 1 .. n /\ i # n
        BY <3>n
      <4> QED BY <3>n, <4>1
    <3>3. \A i, j \in 1 .. Len(items) - 1 : items'[i].key = items'[j].key => i = j
      <4>1. \A i \in 1 .. Len(items) - 1 :
              items'[i] = IF i = h THEN items[Len(items)] ELSE items[i]
        BY <1>3, <3>2
      <4>2. SUFFICES ASSUME NEW i \in 1 .. Len(items) - 1, NEW j \in 1 .. Len(items) - 1,
                            items'[i].key = items'[j].key
                     PROVE  i = j
        OBVIOUS
      <4>3. /\ i \in 1 .. Len(items) /\ j \in 1 .. Len(items) /\ i # Len(items) /\ j # Len(items)
            /\ Len(items) \in 1 .. Len(items)
        <5>1. n >= 1 /\ n \in 1 .. n
          BY <1>2, <3>n
        <5> QED BY <3>2, <3>n, <5>1
      <4> QED BY <3>1, <4>1, <4>2, <4>3
    <3> QED BY <1>1, <1>3, <3>3 DEF Distinct
  <2>3. Moving'
    BY <1>h, <1>1, <1>2, <1>3 DEF Moving
  <2> QED BY <2>1, <2>2, <2>3
<1> QED BY <1>1, <1>7, <1>8, <1>9, <1>10, <1>11 DEF IInv, Searching, Carrying

LEMMA MoveWalkKeepsIInv == ASSUME IInv, MoveWalk PROVE IInv'
<1>1. /\ pc = "move" /\ pos' = NextSlot(pos)
      /\ UNCHANGED <<hash, cap, items, index, dist, pc, op, item, d, carry, hole, todo>>
  BY DEF MoveWalk, At, table
<1>2. cap \in Nat /\ cap > 0 /\ pos \in Slots(cap)
  BY <1>1 DEF IInv, TypeOK, Shape
<1>3. NextSlot(pos) \in Slots(cap)
  BY <1>2, NextIs
<1>4. /\ Slots(cap)' = Slots(cap) /\ Limit(cap)' = Limit(cap)
      /\ \A h, c : InPlace(h, c)' <=> InPlace(h, c)
      /\ Chain' <=> Chain
  BY <1>1, TableKept
<1>5. TypeOK' /\ Shape' /\ HasRoom' /\ Distinct' /\ Moving'
  BY <1>1, <1>3, <1>4 DEF IInv, TypeOK, Shape, HasRoom, Distinct, Moving
<1>6. Placement'
  BY <1>1, <1>4 DEF IInv, Placement, InPlace, KeyAt, SlotAt, Around, FirstSlot
<1> QED BY <1>1, <1>4, <1>5, <1>6 DEF IInv, Searching, Carrying

LEMMA MoveDoneKeepsIInv == ASSUME IInv, MoveDone PROVE IInv'
<1>h. PICK h : h = index[hole]
  OBVIOUS
<1>1. /\ pc = "move" /\ index[pos] = Len(items) /\ index' = [index EXCEPT ![pos] = h]
      /\ items' = ButLast(items) /\ pc' = "shift"
      /\ UNCHANGED <<hash, cap, dist, op, item, pos, d, carry, hole, todo>>
  BY <1>h DEF MoveDone, At, Last, locals
<1>2. /\ cap \in Nat /\ cap >= 3 /\ items \in Seq(Items) /\ Len(items) \in Nat
      /\ pos \in Slots(cap) /\ hole \in Slots(cap) /\ h \in 1 .. Len(items) - 1
      /\ items[h] = items[Len(items)] /\ DOMAIN items = 1 .. Len(items) /\ Len(items) >= 1
      /\ InPlace(hole, h) /\ DOMAIN index = Slots(cap) /\ todo = <<>> /\ carry = Empty
      /\ dist \in [Slots(cap) -> Slots(cap)]
  <2>1. InPlace(hole, h)
    BY <1>h, <1>1 DEF IInv, Placement, InPlace
  <2>2. /\ cap \in Nat /\ cap >= 3 /\ items \in Seq(Items) /\ Len(items) \in Nat
        /\ pos \in Slots(cap) /\ hole \in Slots(cap) /\ DOMAIN index = Slots(cap)
        /\ todo = <<>> /\ carry = Empty /\ dist \in [Slots(cap) -> Slots(cap)]
    BY <1>1 DEF IInv, TypeOK, Shape
  <2>3. h \in 1 .. Len(items) - 1 /\ items[h] = items[Len(items)]
    BY <1>h, <1>1 DEF IInv, Moving
  <2> QED BY <2>1, <2>2, <2>3
<1>3. /\ items' \in Seq(Items) /\ Len(items') = Len(items) - 1 /\ DOMAIN items' = 1 .. Len(items) - 1
      /\ \A i \in 1 .. Len(items) - 1 : items'[i] = items[i]
  BY <1>1, <1>2, ButLastIs
<1>4. /\ Slots(cap)' = Slots(cap) /\ Limit(cap)' = Limit(cap)
      /\ \A p : Prev(p)' = Prev(p) /\ \A k, m : SlotAt(k, m)' = SlotAt(k, m)
  BY <1>1 DEF Slots, Limit, Prev, SlotAt, Around, FirstSlot
<1>5. pos # hole /\ h # Empty /\ Len(items) # Empty
  BY <1>h, <1>1, <1>2 DEF Empty
<1>6. index'[pos] = h /\ \A p \in Slots(cap) : p # pos => index'[p] = index[p]
  BY <1>1, <1>2
<1>7. ASSUME NEW p \in Slots(cap), p # hole, index'[p] # Empty
      PROVE  /\ index'[p] \in 1 .. Len(items) - 1
             /\ dist[p] \in Slots(cap) /\ SlotAt(items'[index'[p]].key, dist[p]) = p
  <2>1. CASE p = pos
    BY <1>1, <1>2, <1>3, <1>5, <1>6, <2>1 DEF InPlace, KeyAt
  <2>2. CASE p # pos
    <3>1. index[p] \in 1 .. Len(items) /\ index[p] # Len(items)
      BY <1>1, <1>2, <1>5, <1>6, <1>7, <2>2 DEF InPlace
    <3>2. index'[p] \in 1 .. Len(items) - 1 /\ items'[index'[p]] = items[index[p]]
      BY <1>2, <1>3, <1>6, <2>2, <3>1
    <3> QED BY <1>2, <1>6, <1>7, <2>2, <3>2 DEF InPlace, KeyAt
  <2> QED BY <2>1, <2>2
<1>8. ASSUME NEW p \in Slots(cap), NEW q \in Slots(cap), p # hole, q # hole,
             index'[p] # Empty, index'[p] = index'[q]
      PROVE  p = q
  <2>1. \A r \in Slots(cap) : r # hole /\ r # pos => index'[r] = index[r] /\ index[r] # h
    BY <1>2, <1>5, <1>6 DEF InPlace
  <2> QED BY <1>2, <1>6, <1>8, <2>1 DEF InPlace
<1>9. ASSUME NEW i \in 1 .. Len(items) - 1
      PROVE  \E p \in Slots(cap) : p # hole /\ index'[p] = i
  <2>1. CASE i = h
    BY <1>2, <1>5, <1>6, <2>1
  <2>2. CASE i # h
    <3>0. i \in DOMAIN items /\ i # Len(items)
      <4>n. PICK n \in Nat : n = Len(items)
        BY <1>2
      <4>1. \A j \in 1 .. n - 1 : j \in 1 .. n /\ j # n
        BY <4>n
      <4> QED BY <1>2, <4>n, <4>1
    <3>1. PICK p \in Slots(cap) : p # hole /\ index[p] = i
      BY <1>2, <2>2, <3>0 DEF InPlace
    <3>2. p # pos
      BY <1>1, <1>2, <3>0, <3>1
    <3> QED BY <1>6, <3>1, <3>2
  <2> QED BY <2>1, <2>2
<1>10. Placement'
  BY <1>1, <1>3, <1>4, <1>7, <1>8, <1>9 DEF Placement, InPlace, KeyAt, Empty
<1>11. Chain'
  <2>1. \A p \in Slots(cap) : index'[p] # Empty <=> index[p] # Empty
    BY <1>1, <1>5, <1>6
  <2>2. \A p \in Slots(cap) : Prev(p) \in Slots(cap)
    BY <1>2, PrevIs
  <2> QED BY <1>1, <1>4, <2>1, <2>2 DEF IInv, Chain
<1>12. TypeOK'
  <2>1. DOMAIN index' = Slots(cap)
    BY <1>1, <1>2
  <2>2. \A p \in Slots(cap) : index'[p] \in 0 .. Len(items') \/ p = hole
    BY <1>2, <1>3, <1>7 DEF Empty
  <2>3. \A i \in DOMAIN items' : items'[i] \in Items
    BY <1>3
  <2>4. carry \in 0 .. Len(items')
    BY <1>2, <1>3 DEF Empty
  <2> QED BY <1>1, <1>2, <1>4, <2>1, <2>2, <2>3, <2>4 DEF TypeOK, Loops
<1>13. Shape'
  BY <1>1, <1>2, <1>3 DEF IInv, Shape
<1>14. HasRoom' /\ Distinct' /\ Moving'
  <2>1. HasRoom'
    <3>1. Limit(cap) \in Nat
      BY <1>2, Limits
    <3> QED BY <1>1, <1>2, <1>3, <1>4, <3>1 DEF IInv, HasRoom
  <2>2. Distinct'
    <3>1. PICK m : m = Len(items) - 1
      OBVIOUS
    <3>2. \A i, j \in 1 .. m : items[i].key = items[j].key => i = j
      BY <1>1, <3>1 DEF IInv, Distinct
    <3>3. \A i \in 1 .. m : items'[i] = items[i]
      BY <1>3, <3>1
    <3>4. \A i, j \in 1 .. m : items'[i].key = items'[j].key => i = j
      BY <3>2, <3>3
    <3>5. Len(items') = m /\ pc' # "move"
      BY <1>1, <1>3, <3>1
    <3> QED BY <3>4, <3>5 DEF Distinct
  <2>3. Moving'
    BY <1>h, <1>1, <1>2, <1>5, <1>6 DEF Moving
  <2> QED BY <2>1, <2>2, <2>3
<1> QED BY <1>1, <1>10, <1>11, <1>12, <1>13, <1>14 DEF IInv, Searching, Carrying

LEMMA ShiftKeepsIInv == ASSUME IInv, Shift PROVE IInv'
<1>n. PICK n : n = NextSlot(hole)
  OBVIOUS
<1>1. /\ pc = "shift" /\ index[n] # Empty /\ dist[n] > 0
      /\ index' = [index EXCEPT ![hole] = index[n]]
      /\ dist' = [dist EXCEPT ![hole] = dist[n] - 1]
      /\ hole' = n
      /\ UNCHANGED <<hash, cap, items, pc, op, item, pos, d, carry, todo>>
  BY <1>n DEF Shift, At, Follows
<1>2. /\ cap \in Nat /\ cap >= 3 /\ cap > 0 /\ cap > 1 /\ hole \in Slots(cap)
      /\ index[hole] # Empty /\ InPlace(hole, Empty)
      /\ DOMAIN index = Slots(cap) /\ dist \in [Slots(cap) -> Slots(cap)]
      /\ items \in Seq(Items) /\ Len(items) \in Nat
  BY <1>1 DEF IInv, TypeOK, Shape, Placement, Moving
<1>3. n \in Slots(cap) /\ n # hole /\ Prev(n) = hole
  BY <1>n, <1>2, NextIs, NextAndPrev
<1>4. /\ Slots(cap)' = Slots(cap) /\ Limit(cap)' = Limit(cap)
      /\ \A p : Prev(p)' = Prev(p) /\ \A k, m : SlotAt(k, m)' = SlotAt(k, m)
  BY <1>1 DEF Slots, Limit, Prev, SlotAt, Around, FirstSlot
<1>5. /\ dist[n] \in Nat /\ dist[n] \in Slots(cap) /\ dist[n] - 1 \in Slots(cap)
      /\ \A p \in Slots(cap) : dist[p] \in Nat
  <2>1. \A p \in Slots(cap) : p \in Nat /\ p < cap
    BY <1>2 DEF Slots
  <2>2. \A p \in Slots(cap) : dist[p] \in Slots(cap)
    BY <1>2
  <2>3. dist[n] \in Slots(cap) /\ dist[n] \in Nat /\ dist[n] < cap
    BY <1>3, <2>1, <2>2
  <2>4. dist[n] - 1 \in Slots(cap)
    BY <1>1, <1>2, <2>3 DEF Slots
  <2> QED BY <2>1, <2>2, <2>3, <2>4
<1>6. /\ index'[hole] = index[n] /\ dist'[hole] = dist[n] - 1
      /\ \A p \in Slots(cap) : p # hole => index'[p] = index[p] /\ dist'[p] = dist[p]
  BY <1>1, <1>2
<1>7. /\ index[n] \in DOMAIN items
      /\ SlotAt(KeyAt(n), dist[n]) = n
  BY <1>1, <1>2, <1>3 DEF InPlace
<1>8. SlotAt(KeyAt(n), dist[n] - 1) = hole
  <2>1. FirstSlot(KeyAt(n), cap) \in Slots(cap)
    BY <1>2, <1>7, KeyInKeys, FirstInTable DEF IInv, KeyAt
  <2>2. Prev(SlotAt(KeyAt(n), dist[n])) = SlotAt(KeyAt(n), dist[n] - 1)
    BY <1>1, <1>2, <1>5, <2>1, RoundTrip DEF SlotAt
  <2> QED BY <1>3, <1>7, <2>2
<1>9. Placement'
  <2>1. ASSUME NEW p \in Slots(cap), p # n, index'[p] # Empty
        PROVE  /\ index'[p] \in DOMAIN items
               /\ dist'[p] \in Slots(cap) /\ SlotAt(items[index'[p]].key, dist'[p]) = p
    <3>1. CASE p = hole
      BY <1>5, <1>6, <1>7, <1>8, <3>1 DEF KeyAt
    <3>2. CASE p # hole
      BY <1>2, <1>6, <2>1, <3>2 DEF InPlace, KeyAt
    <3> QED BY <3>1, <3>2
  <2>2. ASSUME NEW p \in Slots(cap), NEW q \in Slots(cap), p # n, q # n,
               index'[p] # Empty, index'[p] = index'[q]
        PROVE  p = q
    <3>1. \A r \in Slots(cap) : r # hole /\ r # n => index[r] # index[n]
      BY <1>1, <1>2, <1>3 DEF InPlace
    <3> QED BY <1>2, <1>6, <2>2, <3>1 DEF InPlace
  <2>3. ASSUME NEW i \in DOMAIN items, i # Empty
        PROVE  \E p \in Slots(cap) : p # n /\ index'[p] = i
    <3>1. PICK p \in Slots(cap) : p # hole /\ index[p] = i
      BY <1>2, <2>3 DEF InPlace
    <3> QED BY <1>2, <1>3, <1>6, <3>1
  <2> QED BY <1>1, <1>4, <2>1, <2>2, <2>3 DEF Placement, InPlace, KeyAt
<1>10. Chain'
  <2> SUFFICES ASSUME NEW p \in Slots(cap), index'[p] # Empty, dist'[p] > 0
               PROVE  index'[Prev(p)] # Empty /\ dist'[Prev(p)] >= dist'[p] - 1
    BY <1>4 DEF Chain
  <2>1. Prev(p) \in Slots(cap) /\ Prev(p) # p
    BY <1>2, NextAndPrev, PrevIs
  <2>2. dist[hole] >= dist[n] - 1
    BY <1>1, <1>3 DEF IInv, Chain
  <2>3. CASE p = hole
    <3>1. dist[hole] > 0 /\ dist[n] - 1 > 0
      <4>1. dist'[p] = dist[n] - 1
        BY <1>6, <2>3
      <4>2. PICK a \in Nat : a = dist[hole]
        BY <1>2, <1>5
      <4>3. PICK b \in Nat : b = dist[n]
        BY <1>5
      <4> QED BY <2>2, <4>1, <4>2, <4>3
    <3>2. index[Prev(hole)] # Empty /\ dist[Prev(hole)] >= dist[hole] - 1
      BY <1>2, <3>1 DEF IInv, Chain
    <3>3. dist[Prev(hole)] \in Nat /\ dist[hole] \in Nat
      BY <1>2, <1>5, <2>1, <2>3
    <3> QED BY <1>5, <1>6, <2>1, <2>2, <2>3, <3>2, <3>3
  <2>4. CASE p = n
    BY <1>1, <1>3, <1>5, <1>6, <2>4
  <2>5. CASE p # hole /\ p # n
    <3>1. Prev(p) # hole
      <4>1. NextSlot(Prev(p)) = p
        BY <1>2, NextAndPrev
      <4> QED BY <1>n, <2>5, <4>1
    <3> QED BY <1>6, <2>1, <2>5, <3>1 DEF IInv, Chain
  <2> QED BY <2>3, <2>4, <2>5
<1>11. TypeOK'
  <2>1. DOMAIN index' = Slots(cap) /\ dist' \in [Slots(cap) -> Slots(cap)]
    BY <1>1, <1>2, <1>5
  <2>2. \A p \in Slots(cap) : index'[p] \in 0 .. Len(items) \/ p = n
    <3>1. index[n] \in 0 .. Len(items)
      BY <1>2, <1>7
    <3>2. \A p \in Slots(cap) : p # hole => index[p] \in 0 .. Len(items)
      BY <1>1 DEF IInv, TypeOK
    <3> QED BY <1>6, <3>1, <3>2
  <2> QED BY <1>1, <1>2, <1>3, <1>4, <2>1, <2>2 DEF IInv, TypeOK
<1>12. Shape' /\ HasRoom' /\ Distinct' /\ Moving'
  <2>1. Shape' /\ HasRoom' /\ Distinct'
    BY <1>1, <1>4 DEF IInv, Shape, HasRoom, Distinct
  <2>2. Moving'
    BY <1>1, <1>3, <1>6 DEF Moving
  <2> QED BY <2>1, <2>2
<1> QED BY <1>1, <1>9, <1>10, <1>11, <1>12 DEF IInv, Searching, Carrying

LEMMA ShiftDoneKeepsIInv == ASSUME IInv, ShiftDone PROVE IInv'
<1>1. /\ pc = "shift" /\ ~Follows
      /\ index' = [index EXCEPT ![hole] = Empty]
      /\ dist' = [dist EXCEPT ![hole] = 0]
      /\ UNCHANGED <<hash, cap, items, todo>>
      /\ pc' = "idle" /\ pos' = 0 /\ d' = 0 /\ carry' = Empty /\ hole' = 0
  BY DEF ShiftDone, At, End
<1>2. /\ cap \in Nat /\ cap >= 3 /\ cap > 0 /\ cap > 1 /\ hole \in Slots(cap)
      /\ InPlace(hole, Empty) /\ todo = <<>> /\ carry = Empty
      /\ DOMAIN index = Slots(cap) /\ dist \in [Slots(cap) -> Slots(cap)]
      /\ items \in Seq(Items) /\ Len(items) \in Nat
  BY <1>1 DEF IInv, TypeOK, Shape, Placement
<1>3. /\ Slots(cap)' = Slots(cap) /\ Limit(cap)' = Limit(cap)
      /\ \A p : Prev(p)' = Prev(p) /\ \A k, m : SlotAt(k, m)' = SlotAt(k, m)
  BY <1>1 DEF Slots, Limit, Prev, SlotAt, Around, FirstSlot
<1>4. /\ index'[hole] = Empty /\ dist'[hole] = 0 /\ 0 \in Slots(cap)
      /\ \A p \in Slots(cap) : p # hole => index'[p] = index[p] /\ dist'[p] = dist[p]
  BY <1>1, <1>2 DEF Slots
<1>5. Placement'
  <2>1. \A p \in Slots(cap) : p # NoSlot
    BY <1>2 DEF Slots, NoSlot
  <2>2. \A p \in Slots(cap) : index'[p] # Empty =>
          /\ p # hole /\ index'[p] \in DOMAIN items
          /\ dist'[p] \in Slots(cap) /\ SlotAt(items[index'[p]].key, dist'[p]) = p
    BY <1>2, <1>4 DEF InPlace, KeyAt
  <2>3. \A p, q \in Slots(cap) : index'[p] # Empty /\ index'[p] = index'[q] => p = q
    BY <1>2, <1>4 DEF InPlace
  <2>4. \A i \in DOMAIN items : i # Empty => \E p \in Slots(cap) : index'[p] = i
    BY <1>2, <1>4 DEF InPlace
  <2> QED BY <1>1, <1>3, <2>1, <2>2, <2>3, <2>4 DEF Placement, InPlace, KeyAt
<1>6. Chain'
  <2> SUFFICES ASSUME NEW p \in Slots(cap), index'[p] # Empty, dist'[p] > 0
               PROVE  index'[Prev(p)] # Empty /\ dist'[Prev(p)] >= dist'[p] - 1
    BY <1>3 DEF Chain
  <2>1. Prev(p) \in Slots(cap) /\ p # hole
    BY <1>2, <1>4, PrevIs
  <2>2. Prev(p) # hole
    <3>1. NextSlot(Prev(p)) = p
      BY <1>2, NextAndPrev
    <3> QED BY <1>1, <1>4, <2>1, <3>1 DEF Follows
  <2> QED BY <1>4, <2>1, <2>2 DEF IInv, Chain
<1>7. TypeOK'
  <2>1. DOMAIN index' = Slots(cap) /\ dist' \in [Slots(cap) -> Slots(cap)]
    BY <1>1, <1>2, <1>4
  <2>2. \A p \in Slots(cap) : index'[p] \in 0 .. Len(items)
    BY <1>1, <1>2, <1>4 DEF IInv, TypeOK, Empty
  <2> QED BY <1>1, <1>2, <1>3, <2>1, <2>2 DEF IInv, TypeOK, Loops, Empty
<1>8. Shape' /\ HasRoom' /\ Distinct'
  BY <1>1, <1>2, <1>3 DEF IInv, Shape, HasRoom, Distinct
<1> QED BY <1>1, <1>5, <1>6, <1>7, <1>8 DEF IInv, Moving, Searching, Carrying

LEMMA NextKeepsIInv == IInv /\ [Next]_vars => IInv'
<1> SUFFICES ASSUME IInv, [Next]_vars PROVE IInv'
  OBVIOUS
<1>1. CASE UNCHANGED vars
  <2>1. /\ UNCHANGED <<hash, cap, items, index, dist, pc, op, item, pos, d, carry, hole, todo>>
    BY <1>1 DEF vars
  <2>2. /\ Slots(cap)' = Slots(cap) /\ Limit(cap)' = Limit(cap)
        /\ \A p : Prev(p)' = Prev(p)
        /\ \A a, m : Around(a, m)' = Around(a, m)
        /\ \A k, m : SlotAt(k, m)' = SlotAt(k, m)
    BY <2>1 DEF Slots, Limit, Prev, SlotAt, Around, FirstSlot
  <2>3. TypeOK' /\ Shape' /\ HasRoom'
    BY <2>1, <2>2 DEF IInv, TypeOK, Shape, HasRoom
  <2>4. Distinct' /\ Moving' /\ Chain'
    BY <2>1, <2>2 DEF IInv, Distinct, Moving, Chain
  <2>5. Placement'
    BY <2>1, <2>2 DEF IInv, Placement, InPlace, KeyAt
  <2>6. Searching' /\ Carrying'
    BY <2>1, <2>2 DEF IInv, Searching, Sought, PassedBy, KeyAt, Carrying
  <2> QED BY <2>3, <2>4, <2>5, <2>6 DEF IInv
<1>2. CASE Call
  BY <1>2, CallsKeepIInv
<1>3. CASE PutStep
  BY <1>3, RehashKeepsIInv, PutIntoEmptyKeepsIInv, PutOverKeepsIInv, DisplaceKeepsIInv,
     WalksKeepIInv DEF PutStep
<1>4. CASE GetStep
  <2>1. CASE GetMiss \/ GetHit
    BY <2>1, EndKeepsIInv DEF GetMiss, GetHit, At
  <2>2. CASE GetWalk
    BY <2>2, WalksKeepIInv
  <2> QED BY <1>4, <2>1, <2>2 DEF GetStep
<1>5. CASE DelStep
  <2>1. CASE DelMiss
    BY <2>1, EndKeepsIInv DEF DelMiss, At
  <2>2. CASE DelWalk
    BY <2>2, WalksKeepIInv
  <2> QED BY <1>5, <2>1, <2>2, DelLastKeepsIInv, DelMoveKeepsIInv, MoveWalkKeepsIInv,
             MoveDoneKeepsIInv, ShiftKeepsIInv, ShiftDoneKeepsIInv DEF DelStep
<1> QED BY <1>1, <1>2, <1>3, <1>4, <1>5 DEF Next, Step

LEMMA InitHasIInv == Init => IInv
<1> SUFFICES ASSUME Init PROVE IInv
  OBVIOUS
<1>1. /\ hash \in [Keys -> Nat] /\ cap = 0 /\ items = <<>> /\ index = <<>> /\ dist = <<>>
      /\ pc = "idle" /\ pos = 0 /\ d = 0 /\ carry = Empty /\ hole = 0 /\ todo = <<>>
  BY HashesAssumption DEF Init
<1>2. Slots(cap) = {} /\ items \in Seq(Items) /\ todo \in Seq(Items) /\ Len(items) = 0
  BY <1>1 DEF Slots
<1>3. DOMAIN items = {} /\ DOMAIN index = {} /\ dist \in [{} -> {}]
  BY <1>1
<1>4. TypeOK
  BY <1>1, <1>2, <1>3 DEF TypeOK, Loops, Empty
<1>5. Shape /\ HasRoom /\ Distinct /\ Moving
  BY <1>1, <1>2 DEF Shape, HasRoom, Distinct, Moving, Empty
<1>6. Placement /\ Chain
  BY <1>1, <1>2, <1>3 DEF Placement, InPlace, Chain
<1>7. Searching /\ Carrying
  BY <1>1 DEF Searching, Carrying
<1> QED BY <1>4, <1>5, <1>6, <1>7 DEF IInv

\* The invariant holds in every state of the table, whatever is called.
THEOREM Invariance == Spec => []IInv
BY InitHasIInv, NextKeepsIInv, PTL DEF Spec

\* The variables hold what the C declarations say they hold.
THEOREM TypeCorrect == Spec => []TypeOK
BY Invariance, PTL DEF IInv

\* The array and the index agree: each key has one item and each item one
\* slot, but for the displaced one that put is carrying.
THEOREM OneSlot == Spec => []OneSlotEach
<1>1. IInv => OneSlotEach
  <2> SUFFICES ASSUME IInv, Settled PROVE
         /\ \A i, j \in DOMAIN items : items[i].key = items[j].key => i = j
         /\ \A i \in DOMAIN items :
              Cardinality({p \in Slots(cap) : index[p] = i}) = (IF pc = "put" /\ i = carry THEN 0 ELSE 1)
    BY DEF OneSlotEach
  <2>1. DOMAIN items = 1 .. Len(items) /\ pc \notin {"move", "shift"}
    BY DEF IInv, Shape, Settled
  <2>2. \A i, j \in DOMAIN items : items[i].key = items[j].key => i = j
    BY <2>1 DEF IInv, Distinct
  <2>3. PICK c : c = IF pc = "put" THEN carry ELSE Empty
    OBVIOUS
  <2>4. InPlace(NoSlot, c)
    BY <2>1, <2>3 DEF IInv, Placement, InPlace
  <2>5. \A p \in Slots(cap) : p # NoSlot
    BY DEF Slots, NoSlot
  <2>6. ASSUME NEW i \in DOMAIN items
        PROVE  Cardinality({p \in Slots(cap) : index[p] = i}) = (IF pc = "put" /\ i = carry THEN 0 ELSE 1)
    <3>1. i # Empty
      BY <2>1 DEF Empty
    <3>2. CASE pc = "put" /\ i = carry
      <4>1. {p \in Slots(cap) : index[p] = i} = {}
        BY <2>3, <2>4, <2>5, <3>1, <3>2 DEF InPlace
      <4> QED BY <3>2, <4>1, FS_EmptySet
    <3>3. CASE ~(pc = "put" /\ i = carry)
      <4>1. i # c
        BY <2>3, <3>1, <3>3
      <4>2. PICK p \in Slots(cap) : index[p] = i
        BY <2>4, <4>1 DEF InPlace
      <4>3. \A q \in Slots(cap) : index[q] = i => q = p
        BY <2>4, <2>5, <3>1, <4>2 DEF InPlace
      <4>4. {q \in Slots(cap) : index[q] = i} = {p}
        BY <4>2, <4>3
      <4> QED BY <3>3, <4>4, FS_Singleton
    <3> QED BY <3>2, <3>3
  <2> QED BY <2>2, <2>6
<1> QED BY <1>1, Invariance, PTL

\* What lets a search stop early: every item lies as far from its first choice
\* as its distance says, behind items that have come as far.
THEOREM RobinHoodOrder == Spec => []RobinHood
<1>1. IInv => RobinHood
  <2> SUFFICES ASSUME IInv, Settled, NEW p \in Slots(cap), index[p] # Empty
               PROVE  /\ (FirstSlot(items[index[p]].key, cap) + dist[p]) % cap = p
                      /\ dist[p] > 0 => index[Prev(p)] # Empty /\ dist[Prev(p)] >= dist[p] - 1
    BY DEF RobinHood, Prev
  <2>1. pc \notin {"move", "shift"} /\ p # NoSlot
    BY DEF Settled, Slots, NoSlot
  <2>2. SlotAt(KeyAt(p), dist[p]) = p
    BY <2>1 DEF IInv, Placement, InPlace
  <2>3. dist[p] > 0 => index[Prev(p)] # Empty /\ dist[Prev(p)] >= dist[p] - 1
    BY DEF IInv, Chain
  <2> QED BY <2>2, <2>3 DEF SlotAt, Around, KeyAt
<1> QED BY <1>1, Invariance, PTL

(***************************************************************************)
(* The table implements the dictionary.                                    *)
(***************************************************************************)
ItemsIn(s) == {s[i] : i \in DOMAIN s}
KeysOf(S)  == {x.key : x \in S}

ContentsOf(s) ==
  [k \in {s[i].key : i \in DOMAIN s} |-> s[CHOOSE i \in DOMAIN s : s[i].key = k].value]

\* The items that were in the table when the call began, as far as they are in
\* it already, and those that are still to be put back.
Old == ItemsIn(IF pc = "put" /\ todo = <<>> /\ carry # Empty THEN ButLast(items) ELSE items)
Waiting ==
  IF todo = <<>> THEN {}
  ELSE ItemsIn(ButLast(todo)) \cup (IF pc = "put" /\ carry = Empty THEN {item} ELSE {})

\* The map f and the items of S are the same.
Lists(f, S) == DOMAIN f = KeysOf(S) /\ \A x \in S : f[x.key] = x.value

\* What the table and the locals of a call say of the contents it found.
Before ==
  /\ pc # "idle" => before = [k \in DOMAIN before |-> before[k]]
  /\ pc \in {"get", "del", "put", "rehash"} => Lists(before, Old \cup Waiting)
  /\ pc \in {"move", "shift"} =>
       /\ op.key \in DOMAIN before
       /\ KeysOf(ItemsIn(items)) = DOMAIN before \ {op.key}
       /\ \A x \in ItemsIn(items) : before[x.key] = x.value
  /\ pc \in {"put", "rehash"} =>
       op.name = "put" /\ op.key = (IF todo = <<>> THEN item.key ELSE todo[Len(todo)].key)
  /\ pc = "get" => op.name = "get"
  /\ pc \in {"del", "move", "shift"} => op.name = "del"

LEMMA ContentsIs ==
  ASSUME NEW s, \A i, j \in DOMAIN s : s[i].key = s[j].key => i = j
  PROVE  /\ Lists(ContentsOf(s), ItemsIn(s))
         /\ ContentsOf(s) = [k \in DOMAIN ContentsOf(s) |-> ContentsOf(s)[k]]
<1>1. DOMAIN ContentsOf(s) = KeysOf(ItemsIn(s))
  BY DEF ContentsOf, KeysOf, ItemsIn
<1>2. ASSUME NEW i \in DOMAIN s PROVE ContentsOf(s)[s[i].key] = s[i].value
  <2>1. (CHOOSE j \in DOMAIN s : s[j].key = s[i].key) = i
    OBVIOUS
  <2> QED BY <2>1 DEF ContentsOf
<1>3. \A x \in ItemsIn(s) : ContentsOf(s)[x.key] = x.value
  BY <1>2 DEF ItemsIn
<1> QED BY <1>1, <1>3 DEF Lists, ContentsOf

\* Two maps that list the same items are the same.
LEMMA SameLists ==
  ASSUME NEW f, NEW g, NEW S, f = [k \in DOMAIN f |-> f[k]], g = [k \in DOMAIN g |-> g[k]],
         Lists(f, S), Lists(g, S)
  PROVE  f = g
<1>1. DOMAIN f = DOMAIN g
  BY DEF Lists
<1>2. \A k \in DOMAIN f : f[k] = g[k]
  BY DEF Lists, KeysOf
<1> QED BY <1>1, <1>2

LEMMA OneMore ==
  ASSUME NEW S, NEW s \in Seq(S), NEW x
  PROVE  /\ ItemsIn(Append(s, x)) = ItemsIn(s) \cup {x}
         /\ ItemsIn(ButLast(Append(s, x))) = ItemsIn(s)
         /\ Append(s, x)[Len(Append(s, x))] = x /\ Append(s, x) # <<>>
<1>n. PICK n \in Nat : n = Len(s) /\ DOMAIN s = 1 .. n
  OBVIOUS
<1> DEFINE t == Append(s, x)
<1>1. /\ t \in Seq(S \cup {x}) /\ Len(t) = n + 1 /\ DOMAIN t = 1 .. n + 1
      /\ t[n + 1] = x /\ \A i \in 1 .. n : t[i] = s[i]
  <2>1. s \in Seq(S \cup {x}) /\ x \in S \cup {x}
    OBVIOUS
  <2> QED BY <1>n, <2>1, AppendProperties
<1> HIDE DEF t
<1>2. ItemsIn(t) = ItemsIn(s) \cup {x}
  <2>1. \A i \in 1 .. n + 1 : i \in 1 .. n \/ i = n + 1
    BY <1>n
  <2>2. \A i \in 1 .. n : i \in 1 .. n + 1
    BY <1>n
  <2>3. n + 1 \in 1 .. n + 1
    BY <1>n
  <2> QED BY <1>n, <1>1, <2>1, <2>2, <2>3 DEF ItemsIn
<1>3. DOMAIN ButLast(t) = 1 .. n /\ \A i \in 1 .. n : ButLast(t)[i] = t[i]
  <2>1. Len(t) >= 1 /\ Len(t) - 1 = n
    BY <1>n, <1>1
  <2> QED BY <1>1, <2>1, ButLastIs
<1>4. ItemsIn(ButLast(t)) = ItemsIn(s)
  BY <1>n, <1>1, <1>3 DEF ItemsIn
<1>5. t # <<>>
  BY <1>n, <1>1
<1> QED BY <1>1, <1>2, <1>4, <1>5 DEF t

LEMMA OneLess ==
  ASSUME NEW S, NEW s \in Seq(S), s # <<>>
  PROVE  /\ Tail(s) = <<>> => ItemsIn(ButLast(s)) = {} /\ s[Len(s)] = Head(s)
         /\ Tail(s) # <<>> => /\ ItemsIn(ButLast(s)) = ItemsIn(ButLast(Tail(s))) \cup {Head(s)}
                              /\ s[Len(s)] = Tail(s)[Len(Tail(s))]
<1>n. PICK n \in Nat : n = Len(s) /\ DOMAIN s = 1 .. n /\ n >= 1
  OBVIOUS
<1>1. DOMAIN ButLast(s) = 1 .. n - 1 /\ \A i \in 1 .. n - 1 : ButLast(s)[i] = s[i]
  BY <1>n, ButLastIs
<1> DEFINE t == Tail(s)
<1>2. /\ t \in Seq(S) /\ Len(t) = n - 1 /\ \A i \in 1 .. n - 1 : t[i] = s[i + 1]
      /\ Head(s) = s[1] /\ (n = 1 <=> t = <<>>)
  <2>1. /\ Head(s) = s[1] /\ t \in Seq(S) /\ Len(t) = n - 1
        /\ \A i \in 1 .. n - 1 : t[i] = s[i + 1]
    <3>1. Head(s) = s[1]
      OBVIOUS
    <3>2. t \in Seq(S) /\ Len(t) = Len(s) - 1 /\ \A i \in 1 .. Len(s) - 1 : t[i] = s[i + 1]
      BY HeadTailProperties
    <3> QED BY <1>n, <3>1, <3>2
  <2> HIDE DEF t
  <2>2. t = <<>> <=> Len(t) = 0
    BY <2>1
  <2> QED BY <1>n, <2>1, <2>2
<1> HIDE DEF t
<1>3. CASE n = 1
  <2>1. 1 .. n - 1 = {}
    BY <1>3
  <2> QED BY <1>n, <1>1, <1>2, <1>3, <2>1 DEF ItemsIn, t
<1>4. CASE n # 1
  <2>1. n - 1 \in Nat /\ n - 1 >= 1 /\ n - 1 \in 1 .. n - 1 /\ n - 1 + 1 = n
    BY <1>n, <1>4
  <2>2. DOMAIN ButLast(t) = 1 .. n - 1 - 1 /\ \A i \in 1 .. n - 1 - 1 : ButLast(t)[i] = t[i]
    BY <1>2, <2>1, ButLastIs
  <2>3. \A i \in 1 .. n - 1 - 1 : ButLast(t)[i] = s[i + 1]
    <3>1. \A i \in 1 .. n - 1 - 1 : i \in 1 .. n - 1
      BY <1>n
    <3> QED BY <1>2, <2>2, <3>1
  <2>4. ItemsIn(ButLast(s)) = ItemsIn(ButLast(t)) \cup {s[1]}
    <3>1. ASSUME NEW i \in 1 .. n - 1 PROVE s[i] \in ItemsIn(ButLast(t)) \cup {s[1]}
      <4>1. CASE i = 1
        BY <4>1
      <4>2. CASE i # 1
        <5>1. i - 1 \in 1 .. n - 1 - 1 /\ i - 1 + 1 = i
          BY <4>2, <1>n
        <5>2. ButLast(t)[i - 1] = s[i]
          BY <2>3, <5>1
        <5>3. i - 1 \in DOMAIN ButLast(t)
          BY <2>2, <5>1
        <5>4. \A j \in DOMAIN ButLast(t) : ButLast(t)[j] \in ItemsIn(ButLast(t))
          BY DEF ItemsIn
        <5> QED BY <5>2, <5>3, <5>4
      <4> QED BY <4>1, <4>2
    <3>2. ASSUME NEW i \in 1 .. n - 1 - 1 PROVE ButLast(t)[i] \in ItemsIn(ButLast(s))
      <4>1. i + 1 \in 1 .. n - 1
        BY <1>n
      <4> QED BY <1>1, <2>3, <4>1 DEF ItemsIn
    <3>3. s[1] \in ItemsIn(ButLast(s))
      <4>1. 1 \in 1 .. n - 1
        BY <2>1
      <4> QED BY <1>1, <4>1 DEF ItemsIn
    <3>4. \A y \in ItemsIn(ButLast(s)) : y \in ItemsIn(ButLast(t)) \cup {s[1]}
      BY <1>1, <3>1 DEF ItemsIn
    <3>5. \A y \in ItemsIn(ButLast(t)) : y \in ItemsIn(ButLast(s))
      BY <2>2, <3>2 DEF ItemsIn
    <3> QED BY <3>3, <3>4, <3>5
  <2>5. s[n] = t[n - 1]
    BY <1>2, <2>1
  <2> QED BY <1>n, <1>2, <1>4, <2>4, <2>5 DEF t
<1> QED BY <1>3, <1>4

\* Between two steps of a call the dictionary sees nothing.
LEMMA Stutters ==
  ASSUME pc # "idle", pc' # "idle", UNCHANGED <<before, reply>>
  PROVE  UNCHANGED Dict!vars
BY DEF Dict!vars

LEMMA CallsAreDict ==
  ASSUME IInv, Call PROVE Before' /\ [Dict!Next]_(Dict!vars)
<1> SUFFICES ASSUME pc = "idle" PROVE Before' /\ [Dict!Next]_(Dict!vars)
  BY DEF Call, Get, Del, PutFirst, Put, Grow, OnNothing, Begin
<1>1. items \in Seq(Items) /\ DOMAIN items = 1 .. Len(items) /\ todo = <<>> /\ carry = Empty
  BY DEF IInv, Shape
<1>2. /\ Contents = ContentsOf(items) /\ Lists(Contents, ItemsIn(items))
      /\ Contents = [k \in DOMAIN Contents |-> Contents[k]]
  <2>1. \A i, j \in DOMAIN items : items[i].key = items[j].key => i = j
    BY <1>1 DEF IInv, Distinct
  <2>2. Contents = ContentsOf(items)
    BY DEF Contents, ContentsOf
  <2> QED BY <2>1, <2>2, ContentsIs
<1>3. ASSUME NEW name, NEW k, Begin(name, k), pc' # "idle" PROVE UNCHANGED Dict!vars
  BY <1>3 DEF Begin, Dict!vars
<1>4. ASSUME NEW k \in Keys, OnNothing("get", k) \/ OnNothing("del", k)
      PROVE  Before' /\ [Dict!Next]_(Dict!vars)
  <2>1. /\ cap = 0 /\ items' = items /\ pc' = "idle"
        /\ reply' = <<"get", k, Missing>> \/ reply' = <<"del", k, Missing>>
    BY <1>4 DEF OnNothing, table
  <2>2. Contents' = Contents
    BY <2>1 DEF Contents
  <2>3. items = <<>>
    BY <2>1 DEF IInv, Shape
  <2>4. DOMAIN Contents = {}
    BY <2>3 DEF Contents
  <2>5. PICK x \in Items : x.key = k
    BY DEF Keys
  <2>6. CASE reply' = <<"get", k, Missing>>
    <3>1. Dict!Get(x.key)
      BY <2>1, <2>2, <2>4, <2>5, <2>6 DEF Dict!Get
    <3> QED BY <2>1, <3>1 DEF Before, Dict!Next
  <2>7. CASE reply' = <<"del", k, Missing>>
    <3>1. Contents = [y \in DOMAIN Contents \ {k} |-> Contents[y]]
      BY <1>2, <2>4
    <3>2. Dict!Del(x.key)
      BY <2>1, <2>2, <2>5, <2>7, <3>1 DEF Dict!Del
    <3> QED BY <2>1, <3>2 DEF Before, Dict!Next
  <2> QED BY <2>1, <2>6, <2>7
<1>5. ASSUME NEW k \in Keys, NEW name \in {"get", "del"}, Begin(name, k), Find(name, k)
      PROVE  Before' /\ [Dict!Next]_(Dict!vars)
  <2>1. /\ pc' = name /\ op'.name = name /\ items' = items /\ todo' = <<>> /\ carry' = Empty
        /\ before' = Contents
    BY <1>1, <1>5 DEF Begin, Find, table
  <2>2. Old' = ItemsIn(items) /\ Waiting' = {}
    BY <2>1 DEF Old, Waiting
  <2>3. Before'
    BY <1>2, <1>5, <2>1, <2>2 DEF Before
  <2> QED BY <1>3, <1>5, <2>1, <2>3
<1>6. ASSUME NEW x \in Items, Begin("put", x.key), items' = items, Seek(x, cap'), UNCHANGED todo
      PROVE  Before' /\ [Dict!Next]_(Dict!vars)
  <2>1. /\ pc' = "put" /\ op' = [name |-> "put", key |-> x.key] /\ items' = items
        /\ todo' = <<>> /\ carry' = Empty /\ item' = x /\ before' = Contents
    BY <1>1, <1>6 DEF Begin, Seek
  <2>2. Old' = ItemsIn(items) /\ Waiting' = {}
    BY <2>1 DEF Old, Waiting
  <2>3. Before'
    BY <1>2, <2>1, <2>2 DEF Before
  <2> QED BY <1>3, <1>6, <2>1, <2>3
<1>7. ASSUME NEW x \in Items, Grow(x) PROVE Before' /\ [Dict!Next]_(Dict!vars)
  <2>1. /\ pc' = "rehash" /\ op' = [name |-> "put", key |-> x.key] /\ items' = <<>>
        /\ todo' = Append(InIndexOrder, x) /\ before' = Contents /\ Begin("put", x.key)
    BY <1>7 DEF Grow, Begin, Fresh
  <2>2. /\ InIndexOrder \in Seq(Items) /\ ItemsIn(InIndexOrder) = ItemsIn(items)
    BY IndexOrderHasAll DEF ItemsIn
  <2>3. /\ ItemsIn(ButLast(todo')) = ItemsIn(items) /\ todo' # <<>>
        /\ todo'[Len(todo')] = x
    BY <2>1, <2>2, OneMore
  <2>4. Old' = {} /\ Waiting' = ItemsIn(items)
    <3>1. Old' = ItemsIn(<<>>)
      BY <2>1 DEF Old
    <3>2. DOMAIN <<>> = {}
      OBVIOUS
    <3>3. ItemsIn(<<>>) = {}
      BY <3>2 DEF ItemsIn
    <3>4. Waiting' = ItemsIn(ButLast(todo'))
      BY <2>1, <2>3 DEF Waiting
    <3> QED BY <2>3, <3>1, <3>3, <3>4
  <2>5. Before'
    BY <1>2, <2>1, <2>3, <2>4 DEF Before
  <2> QED BY <1>3, <2>1, <2>5
<1>8. ASSUME NEW x \in Items, PutFirst(x) \/ Put(x) PROVE Before' /\ [Dict!Next]_(Dict!vars)
  <2>1. CASE PutFirst(x)
    <3>1. items = <<>>
      BY <2>1 DEF PutFirst, IInv, Shape
    <3>2. Begin("put", x.key) /\ items' = items /\ Seek(x, cap') /\ UNCHANGED todo
      BY <2>1, <3>1 DEF PutFirst, Fresh
    <3> QED BY <1>6, <3>2
  <2>2. CASE Put(x)
    <3>1. Begin("put", x.key) /\ items' = items /\ Seek(x, cap') /\ UNCHANGED todo
      BY <2>2 DEF Put, table
    <3> QED BY <1>6, <3>1
  <2> QED BY <1>8, <2>1, <2>2
<1> QED BY <1>4, <1>5, <1>7, <1>8 DEF Call, Get, Del

\* A slot is looked at and the search goes on, or the next item is taken.
LEMMA WalksAreQuiet ==
  ASSUME IInv, Before, PutWalk \/ GetWalk \/ DelWalk \/ MoveWalk \/ Rehash \/ Shift
  PROVE  Before' /\ UNCHANGED Dict!vars
<1>1. CASE PutWalk \/ GetWalk \/ DelWalk \/ MoveWalk \/ Shift
  <2>1. /\ UNCHANGED <<items, pc, op, item, carry, todo, reply, before>> /\ pc # "idle"
    BY <1>1 DEF PutWalk, GetWalk, DelWalk, MoveWalk, Shift, Walk, table, At
  <2>2. Old' = Old /\ Waiting' = Waiting
    BY <2>1 DEF Old, Waiting
  <2> QED BY <2>1, <2>2, Stutters DEF Before
<1>2. CASE Rehash
  <2>1. /\ pc = "rehash" /\ pc' = "put" /\ item' = Head(todo) /\ carry' = Empty
        /\ todo' = Tail(todo) /\ UNCHANGED <<items, op, reply, before>>
    BY <1>2 DEF Rehash, At, Seek, table
  <2>2. todo \in Seq(Items) /\ todo # <<>>
    BY <2>1 DEF IInv, Shape
  <2>3. Old' = Old
    BY <2>1 DEF Old
  <2>4. Waiting' = Waiting
    BY <2>1, <2>2, OneLess DEF Waiting
  <2>5. op.key = IF todo' = <<>> THEN item'.key ELSE todo'[Len(todo')].key
    BY <2>1, <2>2, OneLess DEF Before
  <2> QED BY <2>1, <2>3, <2>4, <2>5, Stutters DEF Before
<1> QED BY <1>1, <1>2

\* What put stores is one item more in the array, or nothing.
LEMMA StoreAdds ==
  ASSUME IInv, pc = "put", Store
  PROVE  /\ carry = Empty => /\ ItemsIn(items') = ItemsIn(items) \cup {item}
                             /\ ItemsIn(ButLast(items')) = ItemsIn(items)
         /\ carry # Empty => /\ items' = items
                             /\ ItemsIn(items) = ItemsIn(ButLast(items)) \cup {item}
<1>1. items \in Seq(Items)
  BY DEF IInv, Shape
<1>2. ASSUME carry = Empty
      PROVE  ItemsIn(items') = ItemsIn(items) \cup {item} /\ ItemsIn(ButLast(items')) = ItemsIn(items)
  <2>1. items' = Append(items, item)
    BY <1>2 DEF Store
  <2> QED BY <1>1, <2>1, OneMore
<1>3. ASSUME carry # Empty
      PROVE  items' = items /\ ItemsIn(items) = ItemsIn(ButLast(items)) \cup {item}
  <2>n. PICK n \in Nat : n = Len(items) /\ DOMAIN items = 1 .. n
    BY <1>1
  <2>1. items[n] = item /\ carry \in 0 .. n
    BY <1>3, <2>n DEF IInv, Carrying, TypeOK
  <2>2. n >= 1
    BY <1>3, <2>1, <2>n DEF Empty
  <2>3. DOMAIN ButLast(items) = 1 .. n - 1 /\ \A i \in 1 .. n - 1 : ButLast(items)[i] = items[i]
    BY <1>1, <2>n, <2>2, ButLastIs
  <2>4. \A i \in 1 .. n : i \in 1 .. n - 1 \/ i = n
    BY <2>n
  <2>5. n \in 1 .. n /\ \A i \in 1 .. n - 1 : i \in 1 .. n
    BY <2>n, <2>2
  <2>6. ItemsIn(items) = ItemsIn(ButLast(items)) \cup {item}
    BY <2>n, <2>1, <2>3, <2>4, <2>5 DEF ItemsIn
  <2> QED BY <1>3, <2>6 DEF Store
<1> QED BY <1>2, <1>3

LEMMA DisplaceIsQuiet ==
  ASSUME IInv, Before, Displace PROVE Before' /\ UNCHANGED Dict!vars
<1>1. /\ pc = "put" /\ pc' = "put" /\ Store /\ index[pos] # Empty /\ carry' = index[pos]
      /\ UNCHANGED <<op, item, todo, reply, before>>
  BY DEF Displace, At
<1>2. Old' \cup Waiting' = Old \cup Waiting
  BY <1>1, StoreAdds DEF Old, Waiting
<1> QED BY <1>1, <1>2, Stutters DEF Before

\* An item is in its place, and another is to be put back.
LEMMA PlacedIsQuiet ==
  ASSUME IInv, Before, PutIntoEmpty \/ PutOver, todo # <<>>
  PROVE  Before' /\ UNCHANGED Dict!vars
<1>1. /\ pc = "put" /\ pc' = "rehash" /\ UNCHANGED <<op, item, carry, todo, reply, before>>
  BY DEF PutIntoEmpty, PutOver, Placed, At, locals
<1>2. Waiting' = ItemsIn(ButLast(todo)) /\ Old' = ItemsIn(items') /\ Old = ItemsIn(items)
  BY <1>1 DEF Old, Waiting
<1>3. CASE PutIntoEmpty
  <2>1. Store
    BY <1>3 DEF PutIntoEmpty
  <2>2. Old' \cup Waiting' = Old \cup Waiting
    BY <1>1, <1>2, <2>1, StoreAdds DEF Waiting
  <2> QED BY <1>1, <2>2, Stutters DEF Before
<1>4. CASE PutOver
  <2>1. /\ index[pos] # Empty /\ items[index[pos]].key = item.key /\ SameKey(item.key)
        /\ items' = [items EXCEPT ![index[pos]] = item]
    BY <1>4 DEF PutOver, SameKey
  <2>2. carry = Empty
    BY <1>1, <2>1, NotTheNewItem
  <2>3. /\ items \in Seq(Items) /\ DOMAIN items = 1 .. Len(items) /\ index[pos] \in 1 .. Len(items)
    BY <1>1, <2>1, <2>2, RoomLeft, SearchIsAt DEF IInv, TypeOK, Empty, Shape
  <2>4. /\ DOMAIN items' = DOMAIN items /\ items'[index[pos]] = item
        /\ \A i \in DOMAIN items : i # index[pos] => items'[i] = items[i]
    BY <2>1, <2>3
  <2>5. Lists(before, Old \cup Waiting) /\ item \in Waiting
    BY <1>1, <2>2 DEF Before, Waiting
  <2>6. \A x \in Old' \cup Waiting' : x \in Old \cup Waiting
    BY <1>1, <1>2, <2>2, <2>4 DEF ItemsIn, Waiting
  <2>7. \A x \in Old \cup Waiting : \E y \in Old' \cup Waiting' : y.key = x.key
    <3>1. item \in Old'
      BY <1>2, <2>3, <2>4 DEF ItemsIn
    <3>2. \A x \in Old : x \in Old' \/ x.key = item.key
      BY <1>2, <2>1, <2>4 DEF ItemsIn
    <3>3. \A x \in Waiting : x \in Waiting' \/ x = item
      BY <1>1, <1>2, <2>2 DEF Waiting
    <3> QED BY <3>1, <3>2, <3>3
  <2>8. KeysOf(Old' \cup Waiting') = KeysOf(Old \cup Waiting)
    BY <2>6, <2>7 DEF KeysOf
  <2>9. Lists(before, Old' \cup Waiting')
    BY <2>5, <2>6, <2>8 DEF Lists
  <2> QED BY <1>1, <2>9, Stutters DEF Before
<1> QED BY <1>3, <1>4

(***************************************************************************)
(* A call ends: the contents are what the dictionary makes of those before.*)
(***************************************************************************)
LEMMA CallEnds ==
  ASSUME IInv', pc # "idle", NEW answer, End(answer),
         NEW f, f = [k \in DOMAIN f |-> f[k]], Lists(f, ItemsIn(items'))
  PROVE  /\ pc' = "idle" /\ Contents' = f /\ Before'
         /\ reply' = <<op.name, op.key, answer>>
<1>1. pc' = "idle" /\ reply' = <<op.name, op.key, answer>>
  BY DEF End
<1>2. Contents' = ContentsOf(items')
  BY DEF Contents, ContentsOf
<1>3. \A i, j \in DOMAIN items' : items'[i].key = items'[j].key => i = j
  BY <1>1 DEF IInv, Distinct, Shape
<1>4. /\ Lists(ContentsOf(items'), ItemsIn(items'))
      /\ ContentsOf(items') = [k \in DOMAIN ContentsOf(items') |-> ContentsOf(items')[k]]
  BY <1>3, ContentsIs
<1>5. Contents' = f
  BY <1>2, <1>4, SameLists
<1> QED BY <1>1, <1>5 DEF Before

LEMMA PutEnds ==
  ASSUME IInv, IInv', Before, pc = "put", todo = <<>>, End(Missing),
         item \in ItemsIn(items'), \A x \in ItemsIn(items') : x = item \/ x \in Old,
         KeysOf(ItemsIn(items')) = KeysOf(Old) \cup {item.key}
  PROVE  Before' /\ [Dict!Next]_(Dict!vars)
<1> DEFINE f == [x \in DOMAIN before \cup {item.key} |->
                   IF x = item.key THEN item.value ELSE before[x]]
<1>1. /\ op.name = "put" /\ op.key = item.key /\ Lists(before, Old)
  BY DEF Before, Waiting
<1>2. \A x \in ItemsIn(items') : x.key = item.key => x = item
  <2>1. pc' = "idle"
    BY DEF End
  <2>2. \A i, j \in DOMAIN items' : items'[i].key = items'[j].key => i = j
    BY <2>1 DEF IInv, Distinct, Shape
  <2> QED BY <2>2 DEF ItemsIn
<1>3. Lists(f, ItemsIn(items'))
  <2>1. DOMAIN f = KeysOf(ItemsIn(items'))
    BY <1>1 DEF Lists
  <2>2. ASSUME NEW x \in ItemsIn(items') PROVE f[x.key] = x.value
    <3>1. x.key \in DOMAIN f
      BY <2>1 DEF KeysOf
    <3> QED BY <1>1, <1>2, <3>1 DEF Lists
  <2> QED BY <2>1, <2>2 DEF Lists
<1>4. f = [k \in DOMAIN f |-> f[k]]
  OBVIOUS
<1>5. item \in Items
  BY DEF IInv, Shape
<1>6. /\ pc' = "idle" /\ Contents' = f /\ Before'
      /\ reply' = <<"put", item.key, Missing>>
  <2> HIDE DEF f
  <2> QED BY <1>1, <1>3, <1>4, CallEnds
<1>7. Dict!Put(item)
  BY <1>6 DEF Dict!Put
<1> QED BY <1>5, <1>6, <1>7 DEF Dict!Next

LEMMA PlacedEnds ==
  ASSUME IInv, IInv', Before, PutIntoEmpty \/ PutOver, todo = <<>>
  PROVE  Before' /\ [Dict!Next]_(Dict!vars)
<1>1. /\ pc = "put" /\ End(Missing)
  BY DEF PutIntoEmpty, PutOver, Placed, At
<1>2. CASE PutIntoEmpty
  <2>1. Store
    BY <1>2 DEF PutIntoEmpty
  <2>2. ItemsIn(items') = Old \cup {item}
    BY <1>1, <2>1, StoreAdds DEF Old
  <2>3. KeysOf(ItemsIn(items')) = KeysOf(Old) \cup {item.key}
    BY <2>2 DEF KeysOf
  <2> QED BY <1>1, <2>2, <2>3, PutEnds
<1>3. CASE PutOver
  <2>1. /\ index[pos] # Empty /\ items[index[pos]].key = item.key /\ SameKey(item.key)
        /\ items' = [items EXCEPT ![index[pos]] = item]
    BY <1>3 DEF PutOver, SameKey
  <2>2. carry = Empty
    BY <1>1, <2>1, NotTheNewItem
  <2>3. /\ items \in Seq(Items) /\ DOMAIN items = 1 .. Len(items) /\ index[pos] \in 1 .. Len(items)
    BY <1>1, <2>1, <2>2, RoomLeft, SearchIsAt DEF IInv, TypeOK, Empty, Shape
  <2>4. /\ DOMAIN items' = DOMAIN items /\ items'[index[pos]] = item
        /\ \A i \in DOMAIN items : i # index[pos] => items'[i] = items[i]
    BY <2>1, <2>3
  <2>5. Old = ItemsIn(items)
    BY <2>2 DEF Old
  <2>6. item \in ItemsIn(items') /\ \A x \in ItemsIn(items') : x = item \/ x \in Old
    BY <2>3, <2>4, <2>5 DEF ItemsIn
  <2>7. \A x \in Old : x.key = item.key \/ x \in ItemsIn(items')
    BY <2>1, <2>3, <2>4, <2>5 DEF ItemsIn
  <2>8. KeysOf(ItemsIn(items')) = KeysOf(Old) \cup {item.key}
    BY <2>6, <2>7 DEF KeysOf
  <2> QED BY <1>1, <2>6, <2>8, PutEnds
<1> QED BY <1>2, <1>3

\* A search that ends without the key: no item has it.
LEMMA NotHereIsAbsent ==
  ASSUME IInv, pc \in {"get", "del"}, NotHere
  PROVE  \A x \in ItemsIn(items) : x.key # op.key
<1>1. /\ pos \in Slots(cap) /\ d \in Slots(cap) /\ op.key \in Keys
      /\ pos = SlotAt(op.key, d) /\ PassedBy(op.key, d)
  BY SearchIsAt DEF Sought
<1>2. TypeOK /\ Shape /\ Chain /\ cap # 0
  BY DEF IInv, Shape
<1>3. InPlace(NoSlot, Empty)
  BY DEF IInv, Placement
<1>4. index[SlotAt(op.key, d)] = Empty \/ dist[SlotAt(op.key, d)] < d
  BY <1>1 DEF NotHere
<1>5. \A i \in DOMAIN items : i # Empty => items[i].key # op.key
  BY <1>1, <1>2, <1>3, <1>4, NotInTable
<1>6. \A i \in DOMAIN items : i # Empty
  BY DEF IInv, Shape, Empty
<1> QED BY <1>5, <1>6 DEF ItemsIn

LEMMA SearchEnds ==
  ASSUME IInv, IInv', Before, GetMiss \/ GetHit \/ DelMiss
  PROVE  Before' /\ [Dict!Next]_(Dict!vars)
<1>1. /\ pc \in {"get", "del"} /\ op.name = pc /\ items' = items
      /\ before = [k \in DOMAIN before |-> before[k]]
  BY DEF GetMiss, GetHit, DelMiss, At, Before, table
<1>2. /\ todo = <<>> /\ op.key \in Keys
  BY <1>1 DEF IInv, Shape
<1>3. Lists(before, ItemsIn(items))
  BY <1>1, <1>2 DEF Before, Old, Waiting
<1>4. PICK x \in Items : x.key = op.key
  BY <1>2 DEF Keys
<1>5. ASSUME NEW answer, End(answer)
      PROVE  /\ pc' = "idle" /\ Contents' = before /\ Before'
             /\ reply' = <<pc, x.key, answer>>
  BY <1>1, <1>3, <1>4, <1>5, CallEnds
<1>6. CASE GetMiss
  <2>1. pc = "get" /\ NotHere /\ End(Missing)
    BY <1>6 DEF GetMiss, At
  <2>2. x.key \notin DOMAIN before
    BY <1>3, <1>4, <2>1, NotHereIsAbsent DEF Lists, KeysOf
  <2>3. Dict!Get(x.key)
    BY <1>5, <2>1, <2>2 DEF Dict!Get
  <2> QED BY <1>5, <2>1, <2>3 DEF Dict!Next
<1>7. CASE DelMiss
  <2>1. pc = "del" /\ NotHere /\ End(Missing)
    BY <1>7 DEF DelMiss, At
  <2>2. x.key \notin DOMAIN before
    BY <1>3, <1>4, <2>1, NotHereIsAbsent DEF Lists, KeysOf
  <2>3. before = [k \in DOMAIN before \ {x.key} |-> before[k]]
    BY <1>1, <2>2
  <2>4. Dict!Del(x.key)
    BY <1>5, <2>1, <2>3 DEF Dict!Del
  <2> QED BY <1>5, <2>1, <2>4 DEF Dict!Next
<1>8. CASE GetHit
  <2>1. pc = "get" /\ SameKey(op.key) /\ End(items[index[pos]].value)
    BY <1>8 DEF GetHit, At
  <2>2. index[pos] \in DOMAIN items
    BY <2>1, SearchIsAt DEF SameKey, IInv, TypeOK, Shape, Empty
  <2>3. items[index[pos]] \in ItemsIn(items) /\ items[index[pos]].key = x.key
    BY <1>4, <2>1, <2>2 DEF ItemsIn, SameKey
  <2>4. x.key \in DOMAIN before /\ before[x.key] = items[index[pos]].value
    BY <1>3, <2>3 DEF Lists, KeysOf
  <2>5. Dict!Get(x.key)
    BY <1>5, <2>1, <2>4 DEF Dict!Get
  <2> QED BY <1>5, <2>1, <2>5 DEF Dict!Next
<1> QED BY <1>6, <1>7, <1>8

\* del takes the item out of the array before it closes the gap in the index.
LEMMA DelIsQuiet ==
  ASSUME IInv, Before, DelLast \/ DelMove \/ MoveDone
  PROVE  Before' /\ UNCHANGED Dict!vars
<1>1. /\ pc \in {"del", "move"} /\ pc' \in {"move", "shift"} /\ op.name = "del"
      /\ UNCHANGED <<op, reply, before>> /\ before = [k \in DOMAIN before |-> before[k]]
  BY DEF DelLast, DelMove, MoveDone, At, Before, locals
<1>2. SUFFICES /\ op.key \in DOMAIN before
               /\ KeysOf(ItemsIn(items')) = DOMAIN before \ {op.key}
               /\ \A x \in ItemsIn(items') : before[x.key] = x.value
  BY <1>1, Stutters DEF Before
<1>3. CASE DelLast \/ DelMove
  <2>1. pc = "del" /\ ~NotHere /\ SameKey(op.key)
    BY <1>3 DEF DelLast, DelMove, At
  <2>2. /\ items \in Seq(Items) /\ index[pos] \in 1 .. Len(items) /\ Len(items) >= 1
        /\ DOMAIN items = 1 .. Len(items)
    BY <2>1, DelFinds
  <2>n. PICK n \in Nat : n = Len(items)
    <3>1. Len(items) \in Nat
      BY <2>2
    <3> QED BY <3>1
  <2>h. PICK h : h = index[pos]
    OBVIOUS
  <2>3. /\ items[h].key = op.key /\ h \in 1 .. n /\ n \in 1 .. n /\ DOMAIN items = 1 .. n
        /\ \A i \in 1 .. n - 1 : i \in 1 .. n /\ i # n
        /\ \A i \in 1 .. n : i # n => i \in 1 .. n - 1
    <3>1. items[h].key = op.key
      BY <2>1, <2>h DEF SameKey
    <3>2. h \in 1 .. n /\ n >= 1 /\ DOMAIN items = 1 .. n
      BY <2>2, <2>n, <2>h
    <3> QED BY <3>1, <3>2
  <2>4. \A i, j \in 1 .. n : items[i].key = items[j].key => i = j
    BY <2>1, <2>n DEF IInv, Distinct
  <2>5. Lists(before, ItemsIn(items))
    <3>1. todo = <<>>
      BY <2>1 DEF IInv, Shape
    <3> QED BY <2>1, <3>1 DEF Before, Old, Waiting
  <2>6. op.key \in DOMAIN before
    BY <2>3, <2>5 DEF Lists, KeysOf, ItemsIn
  <2>7. ItemsIn(items') = {items[i] : i \in 1 .. n \ {h}}
    <3>1. CASE DelLast
      <4>1. items' = ButLast(items) /\ h = n
        BY <2>n, <2>h, <3>1 DEF DelLast, Last
      <4>2. DOMAIN ButLast(items) = 1 .. n - 1 /\ \A i \in 1 .. n - 1 : ButLast(items)[i] = items[i]
        BY <2>2, <2>n, ButLastIs
      <4>3. 1 .. n - 1 = 1 .. n \ {h}
        BY <2>3, <4>1
      <4> QED BY <4>1, <4>2, <4>3 DEF ItemsIn
    <3>2. CASE DelMove
      <4>1. items' = [items EXCEPT ![h] = items[n]] /\ h # n
        BY <2>n, <2>h, <3>2 DEF DelMove, Last
      <4>2. /\ DOMAIN items' = 1 .. n /\ items'[h] = items[n]
            /\ \A i \in 1 .. n : i # h => items'[i] = items[i]
        BY <2>2, <2>3, <4>1
      <4>3. \A i \in 1 .. n : \E j \in 1 .. n \ {h} : items'[i] = items[j]
        BY <2>3, <4>1, <4>2
      <4>4. \A j \in 1 .. n \ {h} : items'[j] = items[j]
        BY <4>2
      <4> QED BY <4>2, <4>3, <4>4 DEF ItemsIn
    <3> QED BY <1>3, <3>1, <3>2
  <2>8. \A i \in 1 .. n : items[i].key # op.key <=> i # h
    BY <2>3, <2>4
  <2>9. KeysOf(ItemsIn(items')) = DOMAIN before \ {op.key}
    <3>1. DOMAIN before = {items[i].key : i \in 1 .. n}
      BY <2>3, <2>5 DEF Lists, KeysOf, ItemsIn
    <3>2. KeysOf(ItemsIn(items')) = {items[i].key : i \in 1 .. n \ {h}}
      BY <2>7 DEF KeysOf
    <3> QED BY <2>8, <3>1, <3>2
  <2>10. \A x \in ItemsIn(items') : before[x.key] = x.value
    BY <2>3, <2>5, <2>7 DEF Lists, ItemsIn
  <2> QED BY <2>6, <2>9, <2>10
<1>4. CASE MoveDone
  <2>1. pc = "move" /\ items' = ButLast(items)
    BY <1>4 DEF MoveDone, At
  <2>2. items \in Seq(Items) /\ DOMAIN items = 1 .. Len(items)
    BY DEF IInv, Shape
  <2>n. PICK n \in Nat : n = Len(items)
    <3>1. Len(items) \in Nat
      BY <2>2
    <3> QED BY <3>1
  <2>3. PICK h \in 1 .. n - 1 : items[h] = items[n]
    BY <2>1, <2>n DEF IInv, Moving
  <2>4. n >= 1 /\ n \in 1 .. n /\ \A i \in 1 .. n : i # n => i \in 1 .. n - 1
    BY <2>3
  <2>5. DOMAIN ButLast(items) = 1 .. n - 1 /\ \A i \in 1 .. n - 1 : ButLast(items)[i] = items[i]
    BY <2>2, <2>n, <2>4, ButLastIs
  <2>6. \A i \in 1 .. n - 1 : i \in 1 .. n
    BY <2>n
  <2>7. ItemsIn(items') = ItemsIn(items)
    <3>1. ItemsIn(items') = {items[i] : i \in 1 .. n - 1}
      BY <2>1, <2>5 DEF ItemsIn
    <3>2. ItemsIn(items) = {items[i] : i \in 1 .. n}
      BY <2>2, <2>n DEF ItemsIn
    <3> QED BY <2>3, <2>4, <2>6, <3>1, <3>2
  <2> QED BY <2>1, <2>7 DEF Before
<1> QED BY <1>3, <1>4

LEMMA DelEnds ==
  ASSUME IInv, IInv', Before, ShiftDone PROVE Before' /\ [Dict!Next]_(Dict!vars)
<1>1. pc = "shift" /\ items' = items /\ End(Missing)
  BY DEF ShiftDone, At
<1>2. /\ op.name = "del" /\ op.key \in DOMAIN before
      /\ KeysOf(ItemsIn(items)) = DOMAIN before \ {op.key}
      /\ \A x \in ItemsIn(items) : before[x.key] = x.value
  BY <1>1 DEF Before
<1>3. PICK x \in Items : x.key = op.key
  <2>1. op.key \in Keys
    BY <1>1 DEF IInv, Shape
  <2> QED BY <2>1 DEF Keys
<1>4. PICK f : f = [k \in DOMAIN before \ {x.key} |-> before[k]]
  OBVIOUS
<1>5. Lists(f, ItemsIn(items')) /\ f = [k \in DOMAIN f |-> f[k]]
  <2>1. DOMAIN f = KeysOf(ItemsIn(items))
    BY <1>2, <1>3, <1>4
  <2>2. \A y \in ItemsIn(items) : y.key \in DOMAIN f
    BY <2>1 DEF KeysOf
  <2>3. \A y \in ItemsIn(items) : f[y.key] = y.value
    BY <1>2, <1>4, <2>2
  <2> QED BY <1>1, <1>4, <2>1, <2>3 DEF Lists
<1>6. /\ pc' = "idle" /\ Contents' = f /\ Before'
      /\ reply' = <<"del", x.key, Missing>>
  BY <1>1, <1>2, <1>3, <1>5, CallEnds
<1>7. Dict!Del(x.key)
  BY <1>1, <1>4, <1>6 DEF Dict!Del
<1> QED BY <1>6, <1>7 DEF Dict!Next

LEMMA NextIsDict ==
  IInv /\ IInv' /\ Before /\ [Next]_vars => Before' /\ [Dict!Next]_(Dict!vars)
<1> SUFFICES ASSUME IInv, IInv', Before, [Next]_vars
             PROVE  Before' /\ [Dict!Next]_(Dict!vars)
  OBVIOUS
<1>1. CASE UNCHANGED vars
  <2>1. UNCHANGED <<items, pc, op, item, carry, todo, reply, before>>
    BY <1>1 DEF vars
  <2>2. Contents' = Contents /\ Old' = Old /\ Waiting' = Waiting
    BY <2>1 DEF Contents, Old, Waiting
  <2> QED BY <2>1, <2>2 DEF Before, Dict!vars
<1>2. CASE Call
  BY <1>2, CallsAreDict
<1>3. CASE PutStep
  <2>1. CASE PutIntoEmpty \/ PutOver
    BY <2>1, PlacedIsQuiet, PlacedEnds
  <2> QED BY <1>3, <2>1, WalksAreQuiet, DisplaceIsQuiet DEF PutStep
<1>4. CASE GetStep
  BY <1>4, WalksAreQuiet, SearchEnds DEF GetStep
<1>5. CASE DelStep
  BY <1>5, WalksAreQuiet, SearchEnds, DelIsQuiet, DelEnds DEF DelStep
<1> QED BY <1>1, <1>2, <1>3, <1>4, <1>5 DEF Next, Step

LEMMA InitIsDict == Init => Before /\ Dict!Init
<1> SUFFICES ASSUME Init PROVE Before /\ Dict!Init
  OBVIOUS
<1>1. pc = "idle" /\ items = <<>> /\ reply = <<"none", Missing, Missing>>
  BY DEF Init
<1>2. Contents = <<>>
  <2>1. DOMAIN items = {}
    BY <1>1
  <2> QED BY <2>1 DEF Contents
<1> QED BY <1>1, <1>2 DEF Before, Dict!Init

\* The table answers every sequence of calls as a map would, whatever the hash
\* function, through collisions, displacements and doublings.
THEOREM TableImplementsDictionary == Spec => ImplementsDictionary
BY InitIsDict, NextIsDict, Invariance, PTL DEF Spec, ImplementsDictionary, Dict!Spec
=============================================================================
