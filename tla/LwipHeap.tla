------------------------------ MODULE LwipHeap ------------------------------
(***************************************************************************)
(* lwIP's heap (core/mem.c), from which every pbuf that is not of a pool   *)
(* comes: mem_malloc, mem_trim and mem_free.                               *)
(*                                                                         *)
(* A struct mem is known by its offset in ram; heap has those that are in  *)
(* the list, ram_end included.  A walk along next meets them in the order  *)
(* of their offsets (ListIntact), so that the searches of mem_malloc are   *)
(* written as a search for the least offset.                               *)
(*                                                                         *)
(* The callers free and trim what they own, and trim it to less: this is   *)
(* pbuf.c.  Left out: guard bytes, pools and the locks, which are not      *)
(* compiled, and the statistics.                                           *)
(***************************************************************************)
EXTENDS Integers

CONSTANTS
  MEM_SIZE_ALIGNED,
  SIZEOF_STRUCT_MEM,   \* 8
  MIN_SIZE_ALIGNED,    \* 12
  Requests             \* sizes the callers ask for, in bytes

ASSUME HeapAssumption ==
  /\ SIZEOF_STRUCT_MEM \in Nat \ {0} /\ MIN_SIZE_ALIGNED \in Nat \ {0}
  /\ MEM_SIZE_ALIGNED \in Nat
  /\ SIZEOF_STRUCT_MEM + MIN_SIZE_ALIGNED <= MEM_SIZE_ALIGNED
  /\ Requests \subseteq Nat \ {0}

VARIABLES
  heap,                \* offset -> [next, prev, used]
  lfree,
  owned,               \* history: what was asked for, by the offset of its struct mem
  refused              \* history: the size that mem_malloc refused in this step, or 0

heapVars == <<heap, lfree, owned, refused>>

RamEnd == MEM_SIZE_ALIGNED

Mem(next, prev, used) == [next |-> next, prev |-> prev, used |-> used]

\* mem_init.
HeapInit ==
  /\ heap = [p \in {0, RamEnd} |-> IF p = 0 THEN Mem(RamEnd, 0, 0)
                                            ELSE Mem(RamEnd, RamEnd, 1)]
  /\ lfree = 0
  /\ owned = [p \in {} |-> 0] /\ refused = 0

\* LWIP_MEM_ALIGN_SIZE, and no less than MIN_SIZE_ALIGNED.
AlignedSize(n) ==
  LET aligned == ((n + 3) \div 4) * 4
  IN IF aligned < MIN_SIZE_ALIGNED THEN MIN_SIZE_ALIGNED ELSE aligned

\* The user data of a block.
Room(p) == heap[p].next - (p + SIZEOF_STRUCT_MEM)

\* The list with a block at n in front of the one at next, behind p.
Split(h, p, n, next, used) ==
  [q \in DOMAIN h \cup {n} |->
     CASE q = n -> Mem(next, p, 0)
       [] q = p -> Mem(n, h[p].prev, used)
       [] q = next /\ next # RamEnd -> Mem(h[q].next, n, h[q].used)
       [] OTHER -> h[q]]

\* The list without the block behind p.
Merge(h, p) ==
  LET n    == h[p].next
      next == h[n].next
  IN [q \in DOMAIN h \ {n} |->
        CASE q = p -> Mem(next, h[p].prev, 0)
          [] q = next /\ next # RamEnd -> Mem(h[q].next, p, h[q].used)
          [] OTHER -> h[q]]

-----------------------------------------------------------------------------
(* mem_malloc *)

FitsNotLast(size) ==
  {p \in DOMAIN heap : /\ lfree <= p /\ p < MEM_SIZE_ALIGNED - size - SIZEOF_STRUCT_MEM
                       /\ heap[p].used = 0 /\ Room(p) >= size}

Fits(size) ==
  {p \in DOMAIN heap : /\ lfree <= p /\ p < MEM_SIZE_ALIGNED - size
                       /\ heap[p].used = 0 /\ Room(p) >= size}

\* The lowest free block from p on, or ram_end.
IsLowestFree(h, p, q) ==
  /\ q \in DOMAIN h /\ p <= q /\ (q = RamEnd \/ h[q].used = 0)
  /\ \A r \in DOMAIN h : p <= r /\ r < q => h[r].used = 1

\* The remainder of the block is split off if it can hold data.
Taken(p, size) ==
  IF Room(p) >= size + SIZEOF_STRUCT_MEM + MIN_SIZE_ALIGNED
  THEN Split(heap, p, p + SIZEOF_STRUCT_MEM + size, heap[p].next, 1)
  ELSE [heap EXCEPT ![p].used = 1]

Lowest(p) ==
  \/ p # lfree /\ lfree' = lfree
  \/ p = lfree /\ \E q \in DOMAIN heap' : IsLowestFree(heap', lfree, q) /\ lfree' = q

Malloc(n) ==
  LET size == AlignedSize(n) IN
  /\ size <= MEM_SIZE_ALIGNED
  /\ \E p \in Fits(size) :
       /\ \A q \in Fits(size) : p <= q
       /\ heap' = Taken(p, size)
       /\ Lowest(p)
       /\ owned' = [q \in DOMAIN owned \cup {p} |-> IF q = p THEN n ELSE owned[q]]
  /\ refused' = 0

MallocFails(n) ==
  LET size == AlignedSize(n) IN
  /\ size > MEM_SIZE_ALIGNED \/ Fits(size) = {}
  /\ refused' = size
  /\ UNCHANGED <<heap, lfree, owned>>

-----------------------------------------------------------------------------
(* mem_free *)

\* mem_link_valid.
LinkValid(p) ==
  /\ heap[p].prev = p \/ heap[heap[p].prev].next = p
  /\ heap[p].next = RamEnd \/ heap[heap[p].next].prev = p

\* plug_holes, forward and then backward, on a list and its lowest free block.
PlugForward(m, p) ==
  LET n == m.heap[p].next IN
  IF n # p /\ m.heap[n].used = 0 /\ n # RamEnd
  THEN [heap |-> Merge(m.heap, p), lfree |-> IF m.lfree = n THEN p ELSE m.lfree]
  ELSE m

PlugBackwardNot(m, p) == m

PlugBackward(m, p) ==
  LET b == m.heap[p].prev IN
  IF b # p /\ m.heap[b].used = 0
  THEN [heap |-> Merge(m.heap, b), lfree |-> IF m.lfree = p THEN b ELSE m.lfree]
  ELSE m

Freed(p) ==
  [heap |-> [heap EXCEPT ![p].used = 0], lfree |-> IF p < lfree THEN p ELSE lfree]

MemFree(p) ==
  LET m == PlugBackward(PlugForward(Freed(p), p), p)
      ok == heap[p].used = 1 /\ LinkValid(p)
  IN /\ heap' = IF ok THEN m.heap ELSE heap
     /\ lfree' = IF ok THEN m.lfree ELSE lfree
     /\ owned' = [q \in DOMAIN owned \ {p} |-> owned[q]]
     /\ refused' = 0

-----------------------------------------------------------------------------
(* mem_trim, to n bytes or fewer than the block has *)

\* The free block behind p moves down.
MoveDown(p, size) ==
  LET n == p + SIZEOF_STRUCT_MEM + size
      m == heap[p].next
  IN /\ heap' = Split([q \in DOMAIN heap \ {m} |-> heap[q]], p, n, heap[m].next, 1)
     /\ lfree' = IF lfree = m THEN n ELSE lfree

\* A new free block in front of one that is used.
LeaveHole(p, size) ==
  LET n == p + SIZEOF_STRUCT_MEM + size
  IN /\ heap' = Split(heap, p, n, heap[p].next, 1)
     /\ lfree' = IF n < lfree THEN n ELSE lfree

MemTrim(p, n) ==
  LET size == AlignedSize(n) IN
  /\ size <= Room(p)
  /\ \/ size < Room(p) /\ heap[heap[p].next].used = 0 /\ MoveDown(p, size)
     \/ /\ heap[heap[p].next].used = 1
        /\ size + SIZEOF_STRUCT_MEM + MIN_SIZE_ALIGNED <= Room(p)
        /\ LeaveHole(p, size)
     \/ /\ size = Room(p) \/ ( /\ heap[heap[p].next].used = 1
                               /\ size + SIZEOF_STRUCT_MEM + MIN_SIZE_ALIGNED > Room(p))
        /\ UNCHANGED <<heap, lfree>>
  /\ owned' = [owned EXCEPT ![p] = n] /\ refused' = 0

HeapNext ==
  \/ \E n \in Requests : Malloc(n) \/ MallocFails(n)
  \/ \E p \in DOMAIN owned : MemFree(p)
  \/ \E p \in DOMAIN owned, n \in Requests : n <= owned[p] /\ MemTrim(p, n)

HeapSpec == HeapInit /\ [][HeapNext]_heapVars

-----------------------------------------------------------------------------
(* Properties *)

\* A function from offsets to structs whose pointers stay in the list.
IsList(h) ==
  /\ DOMAIN h \subseteq 0..RamEnd /\ 0 \in DOMAIN h /\ RamEnd \in DOMAIN h
  /\ h \in [DOMAIN h -> [next : DOMAIN h, prev : DOMAIN h, used : {0, 1}]]

\* The links agree in both directions and blocks follow one another without gaps.
IsLinked(h) ==
  /\ h[0].prev = 0 /\ h[RamEnd] = Mem(RamEnd, RamEnd, 1)
  /\ \A p \in DOMAIN h \ {RamEnd} :
       /\ h[p].next >= p + SIZEOF_STRUCT_MEM + MIN_SIZE_ALIGNED
       /\ \A q \in DOMAIN h : q <= p \/ q >= h[p].next
       /\ h[p].next # RamEnd => h[h[p].next].prev = p
       /\ p # 0 => h[p].prev < p /\ h[h[p].prev].next = p

\* Every variable stays in its range: pointers point to structs, lfree included,
\* though mem_free and mem_trim take structs away.
HeapTypeOK ==
  /\ IsList(heap) /\ lfree \in DOMAIN heap
  /\ DOMAIN owned \subseteq DOMAIN heap \ {RamEnd} /\ owned \in [DOMAIN owned -> Requests]
  /\ refused \in Nat

\* The list is intact in both directions and covers the heap without gaps: what
\* mem_sanity walks over and mem_link_valid tests, so that mem_free never takes
\* a block of its caller's for one that was freed twice.
ListIntact == IsLinked(heap)

\* "there should not exist one empty struct mem pointing to another empty struct
\* mem" (plug_holes): all that was freed can be had again in one piece.
NoTwoHoles ==
  \A p \in DOMAIN heap \ {RamEnd} : heap[p].used = 0 => heap[heap[p].next].used = 1

\* lfree is the lowest free block, wherever blocks are split, merged and moved:
\* if it were higher, the memory below it would be lost to mem_malloc.
LowestFree == IsLowestFree(heap, 0, lfree)

\* A block is used exactly while a caller owns it, and has the room that was
\* asked for: since blocks do not overlap, neither do the callers' data.
OwnersHaveRoom ==
  \A p \in DOMAIN heap \ {RamEnd} :
    /\ heap[p].used = 1 <=> p \in DOMAIN owned
    /\ p \in DOMAIN owned => owned[p] <= Room(p)

\* mem_malloc refuses only what no free block can hold.
RefusesOnlyWhenFull ==
  refused > 0 => \A p \in DOMAIN heap \ {RamEnd} : heap[p].used = 0 => Room(p) < refused

\* When all is freed the heap is as mem_init left it, whatever the order.
AllComesBack ==
  DOMAIN owned = {} => DOMAIN heap = {0, RamEnd} /\ heap[0].used = 0 /\ lfree = 0

\* The heap is well formed after any sequence of mem_malloc, mem_trim and mem_free.
HeapWellFormed ==
  HeapTypeOK /\ ListIntact /\ NoTwoHoles /\ LowestFree /\ OwnersHaveRoom /\ AllComesBack
=============================================================================
