---------------------------- MODULE Arena_proofs ----------------------------
(***************************************************************************)
(* The arena is safe for every size of blocks and headers, all requests    *)
(* and all places the child allocator may choose: allocations in use share *)
(* no byte, lie where blocks have been cut, and are moved whole.           *)
(***************************************************************************)
EXTENDS Arena, TLAPS

(***************************************************************************)
(* Arithmetic.                                                             *)
(***************************************************************************)
\* Aligning goes up, by less than the alignment.
LEMMA AlignBounds ==
  ASSUME NEW x \in Nat, NEW a \in Nat \ {0}
  PROVE  /\ AlignUp(x, a) \in Nat
         /\ x <= AlignUp(x, a) /\ AlignUp(x, a) <= x + a - 1
<1> DEFINE n == x + a - 1
           q == n \div a
           r == n % a
<1>1. n \in Nat
  OBVIOUS
<1>2. n = a * q + r /\ q \in Int /\ r \in 0 .. a - 1
  BY <1>1
<1> HIDE DEF q, r
<1>3. q * a = n - r
  BY <1>2
<1>4. AlignUp(x, a) = q * a
  BY DEF AlignUp, q
<1>5. n - r \in Nat /\ x <= n - r /\ n - r <= n
  BY <1>1, <1>2
<1> QED BY <1>3, <1>4, <1>5

(***************************************************************************)
(* The invariant.                                                          *)
(***************************************************************************)
\* What TypeOK says of one block.
BlockOK(b) ==
  b \in BlockType /\ b.base + Header <= b.current /\ b.current <= b.end

BlocksOK(bs)    == bs \in Seq(BlockType) /\ \A i \in DOMAIN bs : BlockOK(bs[i])
BlocksApart(bs) == \A i, j \in DOMAIN bs : i # j => Apart(bs[i], bs[j])

\* Blocks that share no byte are what keeps allocations of different blocks
\* apart; those of one block are apart because they lie before its current.
IInv ==
  /\ TypeOK
  /\ BlocksApart(blocks)
  /\ LiveInBlocks
  /\ LiveApart
  /\ CopyIsRight

LEMMA TypeOfBlocks == TypeOK => BlocksOK(blocks)
BY DEF TypeOK, BlocksOK, BlockOK

(***************************************************************************)
(* A new block.                                                            *)
(***************************************************************************)
\* What appending a block does: the old ones stay, the new one is last,
\* empty, apart from the others, and of the size asked for at least.
Extends(bs, cs, min) ==
  /\ BlocksOK(cs) /\ BlocksApart(cs)
  /\ Len(cs) = Len(bs) + 1
  /\ \A i \in DOMAIN bs : cs[i] = bs[i]
  /\ LastOf(cs).end - LastOf(cs).current >= min

LEMMA GrownExtends ==
  ASSUME NEW bs, BlocksOK(bs), BlocksApart(bs), NEW min \in Nat, NEW cs \in Grown(bs, min)
  PROVE  Extends(bs, cs, min)
<1> DEFINE room == Larger(Capacity, min)
<1>1. PICK base \in Bases : /\ \A i \in DOMAIN bs : Apart(Block(base, room), bs[i])
                            /\ cs = Append(bs, Block(base, room))
  BY DEF Grown
<1>2. room \in Nat /\ room >= min
  BY BlockAssumption DEF Larger
<1> DEFINE new == Block(base, room)
<1> HIDE DEF room
<1>3. base \in Nat /\ Header \in Nat
  BY BasesAssumption, BlockAssumption
<1>4. BlockOK(new) /\ new.end - new.current >= min
  BY <1>2, <1>3 DEF BlockOK, Block, BlockType
<1> HIDE DEF new
<1>5. bs \in Seq(BlockType) /\ new \in BlockType
  BY <1>4 DEF BlocksOK, BlockOK
<1>6. /\ cs \in Seq(BlockType) /\ Len(cs) = Len(bs) + 1 /\ Len(bs) \in Nat
      /\ cs[Len(cs)] = new /\ \A i \in DOMAIN bs : cs[i] = bs[i]
      /\ DOMAIN cs = DOMAIN bs \cup {Len(cs)}
  BY <1>1, <1>5 DEF new
<1>7. BlocksOK(cs)
  BY <1>4, <1>6 DEF BlocksOK
<1>8. \A i \in DOMAIN bs : Apart(new, bs[i])
  BY <1>1 DEF new
<1>9. BlocksApart(cs)
  BY <1>6, <1>8 DEF BlocksApart, Apart
<1> QED BY <1>4, <1>6, <1>7, <1>9 DEF Extends, LastOf

(***************************************************************************)
(* The blocks a request is cut from.                                       *)
(***************************************************************************)
\* The blocks in use are unchanged, and the last one has room.
Prepared(bs, size, align) ==
  /\ BlocksOK(bs) /\ BlocksApart(bs) /\ bs # <<>>
  /\ DOMAIN blocks \subseteq DOMAIN bs /\ \A i \in DOMAIN blocks : bs[i] = blocks[i]
  /\ Room(LastOf(bs), size, align)

\* A block with room for the size and the alignment has room for the padding.
LEMMA RoomToAlign ==
  ASSUME NEW b, BlockOK(b), NEW size \in Nat, NEW align \in Nat \ {0},
         b.end - b.current >= size + align
  PROVE  Room(b, size, align)
<1>1. b.current \in Nat /\ b.end \in Nat
  BY DEF BlockOK, BlockType
<1> DEFINE up == AlignUp(b.current, align)
<1>2. up \in Nat /\ b.current <= up /\ up <= b.current + align - 1
  BY <1>1, AlignBounds
<1> HIDE DEF up
<1>3. b.end - b.current >= size + (up - b.current)
  BY <1>1, <1>2
<1> QED BY <1>3 DEF Room, up

LEMMA ExtendedIsPrepared ==
  ASSUME NEW bs, BlocksOK(bs), BlocksApart(bs),
         DOMAIN blocks \subseteq DOMAIN bs, \A i \in DOMAIN blocks : bs[i] = blocks[i],
         NEW size \in Nat, NEW align \in Nat \ {0}, NEW cs \in Grown(bs, size + align)
  PROVE  Prepared(cs, size, align)
<1>1. Extends(bs, cs, size + align)
  BY GrownExtends
<1>2. /\ bs \in Seq(BlockType) /\ cs \in Seq(BlockType) /\ Len(cs) = Len(bs) + 1
      /\ Len(bs) \in Nat /\ DOMAIN bs = 1 .. Len(bs) /\ DOMAIN cs = 1 .. Len(cs)
  BY <1>1 DEF Extends, BlocksOK
<1>3. cs # <<>> /\ DOMAIN bs \subseteq DOMAIN cs /\ Len(cs) \in DOMAIN cs
  BY <1>2
<1>4. Room(LastOf(cs), size, align)
  BY <1>1, <1>3, RoomToAlign DEF Extends, BlocksOK, LastOf
<1> QED BY <1>1, <1>3, <1>4 DEF Prepared, Extends

LEMMA ReadyIsPrepared ==
  ASSUME IInv, NEW size \in Sizes, NEW align \in Alignments, NEW cs \in Ready(size, align)
  PROVE  Prepared(cs, size, align)
<1>1. size \in Nat /\ align \in Nat \ {0}
  BY RequestAssumption
<1>2. BlocksOK(blocks) /\ BlocksApart(blocks)
  BY TypeOfBlocks DEF IInv
<1>3. PICK bs \in IF blocks = <<>> THEN Grown(<<>>, size) ELSE {blocks} :
        cs \in IF Room(LastOf(bs), size, align) THEN {bs} ELSE Grown(bs, size + align)
  BY DEF Ready
<1>4. /\ BlocksOK(bs) /\ BlocksApart(bs) /\ bs # <<>>
      /\ DOMAIN blocks \subseteq DOMAIN bs /\ \A i \in DOMAIN blocks : bs[i] = blocks[i]
  <2>1. CASE blocks # <<>>
    BY <1>2, <1>3, <2>1
  <2>2. CASE blocks = <<>>
    <3>1. bs \in Grown(<<>>, size)
      BY <1>3, <2>2
    <3>2. Extends(<<>>, bs, size)
      BY <1>1, <1>2, <2>2, <3>1, GrownExtends
    <3>3. BlocksOK(bs) /\ BlocksApart(bs) /\ Len(bs) = 1
      BY <3>2 DEF Extends
    <3>4. bs # <<>> /\ DOMAIN blocks = {}
      BY <2>2, <3>3
    <3> QED BY <3>3, <3>4
  <2> QED BY <2>1, <2>2
<1>5. CASE Room(LastOf(bs), size, align)
  BY <1>3, <1>4, <1>5 DEF Prepared
<1>6. CASE ~Room(LastOf(bs), size, align)
  <2>1. cs \in Grown(bs, size + align)
    BY <1>3, <1>6
  <2> QED BY <1>1, <1>4, <2>1, ExtendedIsPrepared
<1> QED BY <1>5, <1>6

(***************************************************************************)
(* Cutting.                                                                *)
(***************************************************************************)
\* Where a block with room is cut, and that the cut stays in it.
LEMMA PlaceInRoom ==
  ASSUME NEW b, BlockOK(b), NEW size \in Nat, NEW align \in Nat \ {0}, Room(b, size, align)
  PROVE  /\ AlignUp(b.current, align) \in Nat /\ b.current <= AlignUp(b.current, align)
         /\ AlignUp(b.current, align) + size <= b.end
<1>1. b.current \in Nat /\ b.end \in Nat
  BY DEF BlockOK, BlockType
<1> DEFINE up == AlignUp(b.current, align)
<1>2. up \in Nat /\ b.current <= up
  BY <1>1, AlignBounds
<1>3. b.end - b.current >= size + (up - b.current)
  BY DEF Room
<1> HIDE DEF up
<1>4. up + size <= b.end
  BY <1>1, <1>2, <1>3
<1> QED BY <1>2, <1>4 DEF up

\* What cutting does: only the last block changes, and of it only current,
\* which moves from before the new allocation to right after it.
LEMMA CutValue ==
  ASSUME NEW bs, NEW size \in Nat, NEW align \in Nat \ {0}, Prepared(bs, size, align)
  PROVE  /\ Len(bs) \in DOMAIN bs /\ Len(bs) \in Nat /\ BlockOK(LastOf(bs))
         /\ Place(bs, size, align).at \in Nat /\ Place(bs, size, align).size = size
         /\ LastOf(bs).current <= Place(bs, size, align).at
         /\ Cut(bs, size, align) \in Seq(BlockType)
         /\ DOMAIN Cut(bs, size, align) = DOMAIN bs /\ Len(Cut(bs, size, align)) = Len(bs)
         /\ \A i \in DOMAIN bs : i # Len(bs) => Cut(bs, size, align)[i] = bs[i]
         /\ LET last == LastOf(Cut(bs, size, align)) IN
            /\ last.base = LastOf(bs).base /\ last.end = LastOf(bs).end
            /\ last.current = Place(bs, size, align).at + size
            /\ BlockOK(last)
<1> DEFINE n == Len(bs)
           b == LastOf(bs)
           at == AlignUp(b.current, align)
           cs == Cut(bs, size, align)
           c == [base |-> b.base, current |-> at + size, end |-> b.end]
<1>1. bs \in Seq(BlockType) /\ bs # <<>> /\ \A i \in DOMAIN bs : BlockOK(bs[i])
  BY DEF Prepared, BlocksOK
<1>2. n \in DOMAIN bs /\ n \in Nat /\ DOMAIN bs = 1 .. n
  BY <1>1
<1>3. BlockOK(b) /\ b \in BlockType
  BY <1>1, <1>2 DEF LastOf, BlockOK
<1>4. at \in Nat /\ b.current <= at /\ at + size <= b.end
  BY <1>3, PlaceInRoom DEF Prepared
<1> HIDE DEF at
<1>5. BlockOK(c) /\ c \in BlockType
  <2>1. /\ b.base \in Nat /\ b.current \in Nat /\ b.end \in Nat /\ Header \in Nat
        /\ b.base + Header <= b.current
    BY <1>3, BlockAssumption DEF BlockOK, BlockType
  <2>2. at + size \in Nat /\ b.base + Header <= at + size /\ at + size <= b.end
    BY <1>4, <2>1
  <2> QED BY <2>1, <2>2 DEF BlockOK, BlockType
<1>6. [b EXCEPT !.current = at + size] = c
  BY <1>3 DEF BlockType
<1>7. cs = [bs EXCEPT ![n] = c]
  <2>1. cs = [bs EXCEPT ![n] = [bs[n] EXCEPT !.current = at + size]]
    BY DEF Cut, at
  <2> QED BY <1>6, <2>1 DEF LastOf
<1> HIDE DEF c, cs
<1>8. cs \in Seq(BlockType) /\ DOMAIN cs = DOMAIN bs /\ Len(cs) = n
  BY <1>1, <1>2, <1>5, <1>7
<1>9. cs[n] = c /\ \A i \in DOMAIN bs : i # n => cs[i] = bs[i]
  BY <1>1, <1>2, <1>7
<1>10. LastOf(cs) = c
  BY <1>8, <1>9 DEF LastOf
<1>11. c.base = b.base /\ c.end = b.end /\ c.current = at + size
  BY DEF c
<1>12. Place(bs, size, align).at = at /\ Place(bs, size, align).size = size
  BY DEF Place, at
<1> QED BY <1>2, <1>3, <1>4, <1>5, <1>8, <1>9, <1>10, <1>11, <1>12 DEF cs

\* The blocks stay well formed and apart.
LEMMA CutKeepsBlocks ==
  ASSUME NEW bs, NEW size \in Nat, NEW align \in Nat \ {0}, Prepared(bs, size, align)
  PROVE  BlocksOK(Cut(bs, size, align)) /\ BlocksApart(Cut(bs, size, align))
<1> DEFINE cs == Cut(bs, size, align)
<1>1. /\ cs \in Seq(BlockType) /\ DOMAIN cs = DOMAIN bs /\ Len(cs) = Len(bs)
      /\ \A i \in DOMAIN bs : i # Len(bs) => cs[i] = bs[i]
      /\ cs[Len(bs)].base = bs[Len(bs)].base /\ cs[Len(bs)].end = bs[Len(bs)].end
      /\ BlockOK(cs[Len(bs)])
  BY CutValue DEF LastOf
<1> HIDE DEF cs
<1>2. BlocksOK(bs) /\ BlocksApart(bs)
  BY DEF Prepared
<1>3. \A i \in DOMAIN cs : BlockOK(cs[i]) /\ cs[i].base = bs[i].base /\ cs[i].end = bs[i].end
  BY <1>1, <1>2 DEF BlocksOK
<1>4. BlocksOK(cs)
  BY <1>1, <1>3 DEF BlocksOK
<1>5. BlocksApart(cs)
  BY <1>1, <1>2, <1>3 DEF BlocksApart, Apart
<1> QED BY <1>4, <1>5 DEF cs

\* What lay in a block still does.
LEMMA CutKeepsWithin ==
  ASSUME NEW bs, NEW size \in Nat, NEW align \in Nat \ {0}, Prepared(bs, size, align),
         NEW a \in [at : Nat, size : Nat \ {0}], NEW i \in DOMAIN blocks, Within(a, blocks[i])
  PROVE  i \in DOMAIN Cut(bs, size, align) /\ Within(a, Cut(bs, size, align)[i])
<1> DEFINE cs == Cut(bs, size, align)
           new == Place(bs, size, align)
<1>1. /\ Len(bs) \in DOMAIN bs /\ BlockOK(bs[Len(bs)])
      /\ DOMAIN cs = DOMAIN bs /\ Len(cs) = Len(bs)
      /\ \A j \in DOMAIN bs : j # Len(bs) => cs[j] = bs[j]
      /\ cs[Len(bs)].base = bs[Len(bs)].base
      /\ cs[Len(bs)].current = new.at + size
      /\ new.at \in Nat /\ bs[Len(bs)].current <= new.at
  BY CutValue DEF LastOf
<1> HIDE DEF cs, new
<1>2. i \in DOMAIN bs /\ bs[i] = blocks[i]
  BY DEF Prepared
<1>3. CASE i # Len(bs)
  BY <1>1, <1>2, <1>3 DEF cs
<1>4. CASE i = Len(bs)
  <2>1. /\ cs[i].base = bs[i].base /\ cs[i].current = new.at + size
        /\ bs[i].current <= new.at /\ bs[i].current \in Nat
    BY <1>1, <1>4 DEF BlockOK, BlockType
  <2>2. bs[i].base + Header <= a.at /\ a.at + a.size <= bs[i].current
    BY <1>2 DEF Within
  <2>3. a.at + a.size \in Nat
    OBVIOUS
  <2>4. cs[i].base + Header <= a.at
    BY <2>1, <2>2
  <2>5. a.at + a.size <= cs[i].current
    BY <1>1, <2>1, <2>2, <2>3
  <2> QED BY <1>1, <1>2, <2>4, <2>5 DEF Within, cs
<1> QED BY <1>3, <1>4

\* The new allocation shares no byte with anything that lay in a block: with
\* what lay in the last one, because it begins where that was cut; with what
\* lay in another, because the blocks share none.
LEMMA NewIsApart ==
  ASSUME NEW bs, NEW size \in Nat, NEW align \in Nat \ {0}, Prepared(bs, size, align),
         NEW i \in DOMAIN blocks, NEW from \in Nat, NEW to \in Nat,
         blocks[i].base + Header <= from, to <= blocks[i].current
  PROVE  LET new == Place(bs, size, align) IN to <= new.at \/ new.at + size <= from
<1> DEFINE n == Len(bs)
           at == Place(bs, size, align).at
<1> SUFFICES to <= at \/ at + size <= from
  OBVIOUS
<1>1. /\ n \in DOMAIN bs /\ BlockOK(bs[n]) /\ at \in Nat /\ bs[n].current <= at
  BY CutValue DEF LastOf
<1>2. at + size <= bs[n].end
  BY <1>1, PlaceInRoom DEF Place, LastOf, Prepared
<1>3. i \in DOMAIN bs /\ bs[i] = blocks[i] /\ BlockOK(bs[i])
  BY DEF Prepared, BlocksOK
<1> HIDE DEF at
<1>4. /\ bs[i].base \in Nat /\ bs[i].current \in Nat /\ bs[i].end \in Nat /\ Header \in Nat
      /\ bs[n].base \in Nat /\ bs[n].current \in Nat /\ bs[n].end \in Nat
      /\ bs[i].current <= bs[i].end /\ bs[n].base + Header <= bs[n].current
  BY <1>1, <1>3, BlockAssumption DEF BlockOK, BlockType
<1>5. CASE i = n
  BY <1>1, <1>3, <1>4, <1>5
<1>6. CASE i # n
  <2>1. bs[i].end <= bs[n].base \/ bs[n].end <= bs[i].base
    BY <1>1, <1>3, <1>6 DEF Prepared, BlocksApart, Apart
  <2>2. bs[i].base + Header <= from /\ to <= bs[i].current
    BY <1>3
  <2> HIDE DEF n
  <2>3. CASE bs[i].end <= bs[n].base
    <3>1. to <= bs[i].end
      BY <1>4, <2>2
    <3>2. to <= bs[n].current
      BY <1>4, <2>3, <3>1
    <3> QED BY <1>1, <1>4, <3>2
  <2>4. CASE bs[n].end <= bs[i].base
    <3>1. at + size <= bs[i].base /\ at + size \in Nat
      BY <1>1, <1>2, <1>4, <2>4
    <3>2. bs[i].base <= from
      BY <1>4, <2>2
    <3> QED BY <1>4, <3>1, <3>2
  <2> QED BY <2>1, <2>3, <2>4
<1> QED BY <1>5, <1>6 DEF at


(***************************************************************************)
(* The owner of an allocation.                                             *)
(***************************************************************************)
\* find_owner finds the one block that an allocation lies in.
LEMMA OwnerIsUnique ==
  ASSUME BlocksOK(blocks), BlocksApart(blocks), NEW a \in [at : Nat, size : Nat \ {0}],
         NEW i \in DOMAIN blocks, Within(a, blocks[i])
  PROVE  Owner(a.at) = blocks[i]
<1>1. \A j \in DOMAIN blocks :
        /\ blocks[j].base \in Nat /\ blocks[j].current \in Nat /\ blocks[j].end \in Nat
        /\ blocks[j].current <= blocks[j].end
  BY DEF BlocksOK, BlockOK, BlockType
<1>2. blocks \in Seq(BlockType) /\ DOMAIN blocks = 1 .. Len(blocks) /\ Len(blocks) \in Nat
  BY DEF BlocksOK
<1>3. a.at \in Nat /\ a.size \in Nat /\ a.size > 0 /\ Header \in Nat
  BY BlockAssumption
<1>4. Owns(blocks[i], a.at)
  BY <1>1, <1>3 DEF Owns, Within
<1>5. ASSUME NEW j \in DOMAIN blocks, Owns(blocks[j], a.at)
      PROVE  j = i
  <2>1. /\ blocks[i].base + Header <= a.at /\ a.at < blocks[i].end
        /\ blocks[j].base + Header <= a.at /\ a.at < blocks[j].end
    BY <1>4, <1>5 DEF Owns
  <2>2. ~Apart(blocks[i], blocks[j])
    BY <1>1, <1>3, <2>1 DEF Apart
  <2> QED BY <2>2 DEF BlocksApart
<1> DEFINE First(k) == Owns(blocks[k], a.at) /\ \A j \in 1 .. k - 1 : ~Owns(blocks[j], a.at)
<1>6. First(i)
  <2>1. \A j \in 1 .. i - 1 : j \in DOMAIN blocks /\ j # i
    BY <1>2
  <2> QED BY <1>4, <1>5, <2>1
<1>7. \A k \in DOMAIN blocks : First(k) => k = i
  BY <1>5
<1> HIDE DEF First
<1>8. (CHOOSE k \in DOMAIN blocks : First(k)) = i
  BY <1>6, <1>7
<1> QED BY <1>8 DEF Owner, First

\* What reallocate copies, from an allocation that lies in a block.
LEMMA CopyOfOwner ==
  ASSUME NEW a \in [at : Nat, size : Nat \ {0}], NEW i \in DOMAIN blocks,
         BlocksOK(blocks), BlocksApart(blocks), Within(a, blocks[i]), NEW size \in Nat
  PROVE  LET count == Smaller(Owner(a.at).current - a.at, size) IN
         /\ count \in Nat /\ count <= size /\ Smaller(a.size, size) <= count
         /\ a.at + count <= blocks[i].current
<1>1. Owner(a.at) = blocks[i]
  BY OwnerIsUnique
<1> DEFINE c == blocks[i].current
<1>2. c \in Nat /\ a.at \in Nat /\ a.size \in Nat /\ a.at + a.size <= c
  BY DEF BlocksOK, BlockOK, BlockType, Within
<1> HIDE DEF c
<1>3. LET count == Smaller(c - a.at, size) IN
      /\ count \in Nat /\ count <= size /\ Smaller(a.size, size) <= count
      /\ a.at + count <= c
  BY <1>2 DEF Smaller
<1> QED BY <1>1, <1>3 DEF c

(***************************************************************************)
(* The invariant is inductive.                                             *)
(***************************************************************************)
\* What every request does to the blocks and to the allocations it leaves,
\* of which reallocate takes one away.
Cuts(bs, size, align, kept) ==
  /\ bs \in Ready(size, align)
  /\ blocks' = Cut(bs, size, align)
  /\ live' = kept \cup {Place(bs, size, align)}

LEMMA CutsKeep ==
  ASSUME IInv, NEW size \in Sizes, NEW align \in Alignments, NEW bs, NEW kept \in SUBSET live,
         Cuts(bs, size, align, kept)
  PROVE  /\ blocks' \in Seq(BlockType)
         /\ \A i \in DOMAIN blocks' :
              blocks'[i].base + Header <= blocks'[i].current /\ blocks'[i].current <= blocks'[i].end
         /\ live' \subseteq [at : Nat, size : Nat \ {0}]
         /\ BlocksApart(blocks)' /\ LiveInBlocks' /\ LiveApart'
<1> DEFINE new == Place(bs, size, align)
           cs == Cut(bs, size, align)
<1>1. size \in Nat /\ size # 0 /\ align \in Nat \ {0}
  BY RequestAssumption
<1>2. Prepared(bs, size, align)
  BY ReadyIsPrepared DEF Cuts
<1>3. blocks' = cs /\ live' = kept \cup {new}
  BY DEF Cuts
<1>4. BlocksOK(cs) /\ BlocksApart(cs)
  BY <1>1, <1>2, CutKeepsBlocks
<1>5. live \subseteq [at : Nat, size : Nat \ {0}]
  BY DEF IInv, TypeOK
<1>6. new.at \in Nat /\ new.size = size
  <2>1. Place(bs, size, align).at \in Nat
    BY <1>1, <1>2, CutValue
  <2>2. Place(bs, size, align).size = size
    BY DEF Place
  <2> QED BY <2>1, <2>2
<1>7. new \in [at : Nat, size : Nat \ {0}]
  <2>1. AlignUp(LastOf(bs).current, align) \in Nat
    BY <1>6 DEF Place
  <2> QED BY <1>1, <2>1 DEF Place
<1>8. Len(bs) \in DOMAIN cs /\ Within(new, cs[Len(bs)])
  <2>1. /\ Len(bs) \in DOMAIN bs /\ DOMAIN cs = DOMAIN bs /\ Len(cs) = Len(bs)
        /\ BlockOK(bs[Len(bs)])
        /\ bs[Len(bs)].current <= new.at
        /\ cs[Len(bs)].base = bs[Len(bs)].base
        /\ cs[Len(bs)].current = new.at + size
    BY <1>1, <1>2, CutValue DEF LastOf
  <2> HIDE DEF new, cs
  <2>2. /\ bs[Len(bs)].base \in Nat /\ bs[Len(bs)].current \in Nat /\ Header \in Nat
        /\ bs[Len(bs)].base + Header <= bs[Len(bs)].current
    BY <2>1, BlockAssumption DEF BlockOK, BlockType
  <2>3. bs[Len(bs)].base + Header <= new.at
    BY <1>6, <2>1, <2>2
  <2>4. new.at + new.size <= cs[Len(bs)].current
    BY <1>1, <1>6, <2>1
  <2> QED BY <2>1, <2>3, <2>4 DEF Within
<1>9. \A a \in kept : \E i \in DOMAIN cs : Within(a, cs[i])
  BY <1>1, <1>2, <1>5, CutKeepsWithin DEF IInv, LiveInBlocks
<1>10. \A a \in kept : a.at + a.size <= new.at \/ new.at + new.size <= a.at
  <2> TAKE a \in kept
  <2>1. PICK i \in DOMAIN blocks : Within(a, blocks[i])
    BY DEF IInv, LiveInBlocks
  <2>2. a.at \in Nat /\ a.size \in Nat
    BY <1>5
  <2>3. a.at + a.size \in Nat
    BY <2>2
  <2>4. blocks[i].base + Header <= a.at /\ a.at + a.size <= blocks[i].current
    BY <2>1 DEF Within
  <2> QED BY <1>1, <1>2, <1>6, <2>2, <2>3, <2>4, NewIsApart
<1> HIDE DEF new, cs
<1>11. LiveInBlocks'
  BY <1>3, <1>8, <1>9 DEF LiveInBlocks
<1>12. LiveApart'
  BY <1>3, <1>10 DEF LiveApart, IInv
<1> QED BY <1>3, <1>4, <1>5, <1>7, <1>11, <1>12 DEF BlocksOK, BlockOK, BlocksApart

LEMMA InitInvariant == Init => IInv
<1> SUFFICES ASSUME Init PROVE IInv
  OBVIOUS
<1>1. NothingCopied \in [from : Nat, to : Nat, count : Nat, old : Nat, new : Nat]
  BY DEF NothingCopied
<1> QED BY <1>1 DEF Init, IInv, TypeOK, BlocksApart, LiveInBlocks, LiveApart, CopyIsRight,
           NothingCopied, Smaller

LEMMA AllocateKeeps ==
  ASSUME IInv, NEW size \in Sizes, NEW align \in Alignments, Allocate(size, align)
  PROVE  IInv'
<1>1. PICK bs : Cuts(bs, size, align, live)
  BY DEF Allocate, Cuts
<1>2. copied' = copied /\ child' = child
  BY DEF Allocate
<1>3. CopyIsRight'
  BY <1>2 DEF IInv, CopyIsRight
<1>4. TypeOK'
  BY <1>1, <1>2, CutsKeep DEF IInv, TypeOK
<1> QED BY <1>1, <1>3, <1>4, CutsKeep DEF IInv

LEMMA ReallocateKeeps ==
  ASSUME IInv, NEW size \in Sizes, NEW align \in Alignments, NEW a \in live,
         Reallocate(a, size, align)
  PROVE  IInv'
<1> DEFINE count == Smaller(Owner(a.at).current - a.at, size)
<1>1. PICK bs : /\ Cuts(bs, size, align, live \ {a})
                /\ copied' = [from |-> a.at, to |-> Place(bs, size, align).at,
                              count |-> count, old |-> a.size, new |-> size]
  BY DEF Reallocate, Cuts
<1> DEFINE to == Place(bs, size, align).at
<1>2. size \in Nat /\ align \in Nat \ {0} /\ Prepared(bs, size, align)
  BY <1>1, RequestAssumption, ReadyIsPrepared DEF Cuts
<1>3. to \in Nat
  BY <1>2, CutValue
<1>4. a \in [at : Nat, size : Nat \ {0}]
  BY DEF IInv, TypeOK
<1>5. PICK i \in DOMAIN blocks : Within(a, blocks[i])
  BY DEF IInv, LiveInBlocks
<1>6. /\ count \in Nat /\ count <= size /\ Smaller(a.size, size) <= count
      /\ a.at + count <= blocks[i].current
  BY <1>2, <1>4, <1>5, CopyOfOwner, TypeOfBlocks DEF IInv
<1> HIDE DEF count
<1>7. a.at + count <= to \/ to + count <= a.at
  <2>1. a.at \in Nat /\ a.at + count \in Nat /\ blocks[i].base + Header <= a.at
    BY <1>4, <1>5, <1>6 DEF Within
  <2>2. a.at + count <= to \/ to + size <= a.at
    BY <1>2, <1>6, <2>1, NewIsApart
  <2> HIDE DEF to
  <2> QED BY <1>2, <1>3, <1>6, <2>1, <2>2
<1> HIDE DEF to
<1>8. copied' = [from |-> a.at, to |-> to, count |-> count, old |-> a.size, new |-> size]
  BY <1>1 DEF to
<1>9. CopyIsRight'
  BY <1>6, <1>7, <1>8 DEF CopyIsRight
<1>10. child' = child
  BY DEF Reallocate
<1>11. copied' \in [from : Nat, to : Nat, count : Nat, old : Nat, new : Nat]
  BY <1>2, <1>3, <1>4, <1>6, <1>8
<1>12. live \ {a} \in SUBSET live
  OBVIOUS
<1>13. TypeOK'
  BY <1>1, <1>10, <1>11, <1>12, CutsKeep DEF IInv, TypeOK
<1> QED BY <1>1, <1>9, <1>12, <1>13, CutsKeep DEF IInv

LEMMA NextInvariant == IInv /\ [Next]_vars => IInv'
<1> SUFFICES ASSUME IInv, [Next]_vars PROVE IInv'
  OBVIOUS
<1>1. ASSUME NEW size \in Sizes, NEW align \in Alignments, Allocate(size, align)
      PROVE  IInv'
  BY <1>1, AllocateKeeps
<1>2. ASSUME NEW size \in Sizes, NEW align \in Alignments, NEW a \in live,
             Reallocate(a, size, align)
      PROVE  IInv'
  BY <1>2, ReallocateKeeps
<1>3. CASE FreeAll
  <2>1. NothingCopied \in [from : Nat, to : Nat, count : Nat, old : Nat, new : Nat]
    BY DEF NothingCopied
  <2>2. blocks' = <<>> /\ live' = {} /\ child' = FALSE /\ copied' = NothingCopied
    BY <1>3 DEF FreeAll
  <2>3. TypeOK'
    <3>1. blocks' \in Seq(BlockType) /\ DOMAIN blocks' = {}
      BY <2>2
    <3>2. /\ live' \subseteq [at : Nat, size : Nat \ {0}]
          /\ copied' \in [from : Nat, to : Nat, count : Nat, old : Nat, new : Nat]
      BY <2>1, <2>2
    <3>3. child' \in BOOLEAN
      BY <2>2
    <3> QED BY <3>1, <3>2, <3>3 DEF TypeOK
  <2>4. BlocksApart(blocks)' /\ LiveInBlocks' /\ LiveApart'
    BY <2>2 DEF BlocksApart, LiveInBlocks, LiveApart
  <2>5. CopyIsRight'
    BY <2>2 DEF CopyIsRight, NothingCopied, Smaller
  <2> QED BY <2>3, <2>4, <2>5 DEF IInv
<1>4. CASE Renew \/ UNCHANGED vars
  BY <1>4 DEF Renew, vars, IInv, TypeOK, BlocksApart, LiveInBlocks, LiveApart, CopyIsRight
<1> QED BY <1>1, <1>2, <1>3, <1>4 DEF Next

(***************************************************************************)
(* The theorems.                                                           *)
(***************************************************************************)
\* No block is ever cut past its end, none share a byte, and the variables
\* hold what their C types say.
THEOREM Invariance == Spec => []IInv
BY InitInvariant, NextInvariant, PTL DEF Spec

\* Every allocation in use lies in what was cut from a block, so that
\* arena_free frees it with that block and find_owner finds it.
THEOREM Safe == Spec => []LiveInBlocks
<1>1. IInv => LiveInBlocks
  BY DEF IInv
<1> QED BY <1>1, Invariance, PTL

\* No two allocations in use share a byte, for all sizes, alignments and
\* places of blocks.
THEOREM Disjoint == Spec => []LiveApart
<1>1. IInv => LiveApart
  BY DEF IInv
<1> QED BY <1>1, Invariance, PTL

\* reallocate copies all that fits, within the new allocation, and never onto
\* itself, though it does not know how large the old allocation was.
THEOREM CopiesWhole == Spec => []CopyIsRight
<1>1. IInv => CopyIsRight
  BY DEF IInv
<1> QED BY <1>1, Invariance, PTL

\* The type invariant.
THEOREM TypeCorrect == Spec => []TypeOK
<1>1. IInv => TypeOK
  BY DEF IInv
<1> QED BY <1>1, Invariance, PTL
=============================================================================
