-------------------------------- MODULE Arena --------------------------------
(***************************************************************************)
(* The arena (include/my_arena_allocator.h): blocks got from another       *)
(* allocator, of which the last is cut from the front; nothing is given    *)
(* back before arena_free gives back everything.                           *)
(*                                                                         *)
(* An address is a natural number.  An allocator called here is a C call   *)
(* that returns before any other begins, so each is one action.  Left out  *)
(* are total_size, which is only printed and passed on to be counted, and  *)
(* a child allocator that has no memory left, which the code does not      *)
(* survive.                                                                *)
(***************************************************************************)
EXTENDS Integers, Sequences, FiniteSets

CONSTANTS
  Header,       \* sizeof(struct ArenaBlock)
  Capacity,     \* ARENA_REGION_DEFAULT_CAPACITY
  Sizes,        \* what is asked for
  Alignments,   \* and how aligned
  Bases,        \* the addresses the child allocator has blocks at
  LiveBound     \* bound of the model: allocations in use at once

ASSUME BlockAssumption == Header \in Nat /\ Capacity \in Nat
ASSUME RequestAssumption == Sizes \subseteq Nat \ {0} /\ Alignments \subseteq Nat \ {0}
ASSUME BasesAssumption == Bases \subseteq Nat

VARIABLES
  blocks,    \* the list from begin to end
  live,      \* the allocations in use
  child,     \* whether there is a child allocator: arena_free forgets it too
  copied     \* history: what the last call of reallocate copied

vars == <<blocks, live, child, copied>>

NothingCopied == [from |-> 0, to |-> 0, count |-> 0, old |-> 0, new |-> 0]

Larger(m, n)  == IF m > n THEN m ELSE n
Smaller(m, n) == IF m < n THEN m ELSE n

\* (curr + alignment - 1) & ~(alignment - 1), for a power of two
AlignUp(addr, align) == ((addr + align - 1) \div align) * align

LastOf(bs) == bs[Len(bs)]

(***************************************************************************)
(* Blocks.                                                                 *)
(***************************************************************************)
Block(base, room) ==
  [base |-> base, current |-> base + Header, end |-> base + Header + room]

Apart(b, c) == b.end <= c.base \/ c.end <= b.base

\* arena_append_block: the child allocator finds a place where no block is.
Grown(bs, min) ==
  {Append(bs, Block(base, Larger(Capacity, min))) :
     base \in {p \in Bases : \A i \in DOMAIN bs : Apart(Block(p, Larger(Capacity, min)), bs[i])}}

Room(b, size, align) ==
  b.end - b.current >= size + (AlignUp(b.current, align) - b.current)

\* Mutant: a new block is asked for what is wanted, and no more to align it.
ReadyTight(size, align) ==
  UNION {IF Room(LastOf(bs), size, align) THEN {bs} ELSE Grown(bs, size) :
           bs \in IF blocks = <<>> THEN Grown(<<>>, size) ELSE {blocks}}

\* The blocks, grown until the last has room.  Of one that was just appended
\* the code does not ask whether it has.
Ready(size, align) ==
  UNION {IF Room(LastOf(bs), size, align) THEN {bs} ELSE Grown(bs, size + align) :
           bs \in IF blocks = <<>> THEN Grown(<<>>, size) ELSE {blocks}}

(***************************************************************************)
(* Allocations.                                                            *)
(***************************************************************************)
Place(bs, size, align) == [at |-> AlignUp(LastOf(bs).current, align), size |-> size]

\* Mutant: the padding is not counted.
CutUnpadded(bs, size, align) ==
  [bs EXCEPT ![Len(bs)].current = LastOf(bs).current + size]

Cut(bs, size, align) ==
  [bs EXCEPT ![Len(bs)].current = AlignUp(LastOf(bs).current, align) + size]

\* arena_allocate_virt
Allocate(size, align) ==
  /\ child /\ Cardinality(live) < LiveBound
  /\ \E bs \in Ready(size, align) :
       /\ blocks' = Cut(bs, size, align)
       /\ live' = live \cup {Place(bs, size, align)}
  /\ UNCHANGED <<child, copied>>

\* find_owner
Owns(b, addr) == b.base + Header <= addr /\ addr < b.end
Owner(addr) == blocks[CHOOSE i \in DOMAIN blocks :
                        Owns(blocks[i], addr) /\ \A j \in 1 .. i - 1 : ~Owns(blocks[j], addr)]

\* Mutant: how much there is to copy is looked up after the new allocation.
ReallocateLate(a, size, align) ==
  /\ \E i \in DOMAIN blocks : Owns(blocks[i], a.at)
  /\ \E bs \in Ready(size, align) :
       LET new == Place(bs, size, align) IN
       /\ blocks' = Cut(bs, size, align)
       /\ live' = (live \ {a}) \cup {new}
       /\ copied' = [from |-> a.at, to |-> new.at,
                     count |-> Smaller(Owner(a.at)'.current - a.at, size),
                     old |-> a.size, new |-> size]
  /\ UNCHANGED child

\* arena_reallocate_virt: the old allocation is copied as far as its block has
\* been cut, its own size is not known.  A pointer of no block is an error.
Reallocate(a, size, align) ==
  /\ \E i \in DOMAIN blocks : Owns(blocks[i], a.at)
  /\ \E bs \in Ready(size, align) :
       LET new == Place(bs, size, align) IN
       /\ blocks' = Cut(bs, size, align)
       /\ live' = (live \ {a}) \cup {new}
       /\ copied' = [from |-> a.at, to |-> new.at,
                     count |-> Smaller(Owner(a.at).current - a.at, size),
                     old |-> a.size, new |-> size]
  /\ UNCHANGED child

\* arena_free
FreeAll ==
  /\ child
  /\ blocks' = <<>> /\ live' = {} /\ child' = FALSE /\ copied' = NothingCopied

\* Arena, for one that was freed
Renew == ~child /\ child' = TRUE /\ UNCHANGED <<blocks, live, copied>>

Init == blocks = <<>> /\ live = {} /\ child = TRUE /\ copied = NothingCopied

Next ==
  \/ \E size \in Sizes, align \in Alignments :
       Allocate(size, align) \/ \E a \in live : Reallocate(a, size, align)
  \/ FreeAll
  \/ Renew

Spec == Init /\ [][Next]_vars

(***************************************************************************)
(* Properties.                                                             *)
(***************************************************************************)
BlockType == [base : Nat, current : Nat, end : Nat]

\* The variables hold what the C declarations say they hold, and no block is
\* cut past its end or into its header.
TypeOK ==
  /\ blocks \in Seq(BlockType)
  /\ \A i \in DOMAIN blocks :
       blocks[i].base + Header <= blocks[i].current /\ blocks[i].current <= blocks[i].end
  /\ live \subseteq [at : Nat, size : Nat \ {0}] /\ child \in BOOLEAN
  /\ copied \in [from : Nat, to : Nat, count : Nat, old : Nat, new : Nat]

Within(a, b) == b.base + Header <= a.at /\ a.at + a.size <= b.current

\* Every allocation in use lies in what was cut from a block: not in a header,
\* not past the end, not in what will be cut next, and find_owner finds it.
LiveInBlocks == \A a \in live : \E i \in DOMAIN blocks : Within(a, blocks[i])

\* No two allocations in use share a byte.
LiveApart ==
  \A a, b \in live : a # b => a.at + a.size <= b.at \/ b.at + b.size <= a.at

\* What reallocate copies is all of the old allocation that fits, stays within
\* the new one, and is not copied onto itself (memcpy).
CopyIsRight ==
  /\ Smaller(copied.old, copied.new) <= copied.count /\ copied.count <= copied.new
  /\ copied.from + copied.count <= copied.to \/ copied.to + copied.count <= copied.from
=============================================================================
