------------------------------- MODULE heapmm -------------------------------
(***************************************************************************)
(* The kernel heap of posnk (heapmm.c, heapmm.h): one address-ordered list *)
(* of free blocks inside an arena [HeapStart, heap_top) that grows at its   *)
(* top through heapmm_morecore and heapmm_request_core (paging.c).  Byte,   *)
(* aligned and page allocations all carve from that one list; there is a    *)
(* single heapmm_free(address, size) in which the caller passes the size    *)
(* back.                                                                     *)
(*                                                                           *)
(* Callers run in several contexts (task code and interrupt handlers).     *)
(* Every free-list mutation is a critical section (interrupts held off),   *)
(* so an allocation that misses and grows the heap is three critical       *)
(* sections -- first try, morecore, retry -- and other contexts can run    *)
(* between them.                                                            *)
(*                                                                          *)
(* Memory is abstracted to integer cells; a block is [start, size].        *)
(***************************************************************************)
EXTENDS Integers, FiniteSets

CONSTANTS
  HeapStart,  \* heap_start given to heapmm_init
  InitSize,   \* size given to heapmm_init
  CoreLimit,  \* the page source maps nothing at or above this address
  PageSize,
  MinBlock,   \* sizeof(heapmm_block_t): a free block must hold its header
  Sizes,      \* sizes callers pass to the allocation calls
  Aligns,     \* alignments callers pass to heapmm_alloc_alligned
  Ctx         \* contexts (task, interrupt handlers) calling the heap

ASSUME /\ {HeapStart, InitSize, CoreLimit, PageSize, MinBlock} \subseteq Nat
       /\ HeapStart % PageSize = 0 /\ InitSize % PageSize = 0
       /\ InitSize >= MinBlock /\ MinBlock > 0
       /\ HeapStart + InitSize <= CoreLimit
       /\ Sizes \subseteq Nat \ {0} /\ Aligns \subseteq Nat \ {0}

VARIABLES
  free_blocks, \* the free list: a set of blocks, kept in address order
  heap_top,    \* end of the mapped arena
  held,        \* allocations callers hold: [start, size, align]
  pc,          \* where each context is inside an allocation call
  req          \* the allocation request a context is serving

vars == << free_blocks, heap_top, held, pc, req >>

Block(a, n) == [start |-> a, size |-> n]
End(b) == b.start + b.size
Overlap(x, y) == x.start < End(y) /\ y.start < End(x)
AlignUp(a, al) == ((a + al - 1) \div al) * al

\* The first block of a set in address order (llist_iterate_select walks the
\* address-ordered list and returns the first block its iterator accepts).
FirstBlock(S) == CHOOSE b \in S : \A o \in S : b.start <= o.start

NoReq == [kind |-> "none", size |-> 0, align |-> 1]

(***************************************************************************)
(* Requests.  Sizes below the header size are raised to it so that the     *)
(* block can later be put back on the free list; heapmm_free applies the   *)
(* same rounding to the size the caller passes back.                       *)
(***************************************************************************)
RoundSize(n) == IF n < MinBlock THEN MinBlock ELSE n
PagesOf(n) == AlignUp(n, PageSize)

heapmm_alloc(n) == [kind |-> "byte", size |-> RoundSize(n), align |-> 1]
heapmm_alloc_alligned(n, al) ==
  [kind |-> "aligned", size |-> RoundSize(n), align |-> al]
heapmm_alloc_page == [kind |-> "page", size |-> PageSize, align |-> PageSize]
heapmm_alloc_page_alligned(n) ==
  [kind |-> "page", size |-> PagesOf(n), align |-> PageSize]

Requests ==
  { heapmm_alloc(n) : n \in Sizes } \cup
  { heapmm_alloc_alligned(n, al) : n \in Sizes, al \in Aligns } \cup
  { heapmm_alloc_page } \cup
  { heapmm_alloc_page_alligned(n) : n \in Sizes }

(***************************************************************************)
(* Mutants: plausible bugs in the definitions below, each defined before   *)
(* the definition it replaces.                                              *)
(***************************************************************************)
heapmm_alloc_fit_iterator_OffByOne(b, size) == b.size + 1 >= size
heapmm_morecore_iterator_Never(b) == FALSE
PlaceIn_Unaligned(b, r) == b.start
heapmm_request_core_Unbounded(address, n) == TRUE

(***************************************************************************)
(* The iterators of heapmm_alloc_internal, in the order it tries them.     *)
(***************************************************************************)
heapmm_alloc_match_iterator(b, size) == b.size = size
heapmm_alloc_fit_iterator(b, size) == b.size >= size
heapmm_alloc_page_match_iterator(b, size) ==
  b.start % PageSize = 0 /\ b.size = size
heapmm_alloc_page_fit_iterator(b, size) ==
  b.start % PageSize = 0 /\ b.size >= size
heapmm_alloc_page_split_iterator(b, size) ==
  AlignUp(b.start, PageSize) + size <= End(b)
AlignedFit(b, r) == AlignUp(b.start, r.align) + r.size <= End(b)

\* The first non-empty stage of iterator matches, in iterator order.
FirstStage(stages) ==
  LET hit == { i \in DOMAIN stages : stages[i] /= {} }
  IN IF hit = {} THEN {}
     ELSE stages[CHOOSE i \in hit : \A j \in hit : i <= j]

\* Free blocks of list fb heapmm_alloc_internal may take for r: the first
\* one of them in address order is the one it takes.
CandidatesIn(fb, r) ==
  LET sel(P(_)) == { b \in fb : P(b) }
  IN CASE r.kind = "byte" ->
            FirstStage(<< sel(LAMBDA b : heapmm_alloc_match_iterator(b, r.size)),
                          sel(LAMBDA b : heapmm_alloc_fit_iterator(b, r.size)) >>)
       [] r.kind = "page" ->
            FirstStage(<< sel(LAMBDA b : heapmm_alloc_page_match_iterator(b, r.size)),
                          sel(LAMBDA b : heapmm_alloc_page_fit_iterator(b, r.size)),
                          sel(LAMBDA b : heapmm_alloc_page_split_iterator(b, r.size)) >>)
       [] r.kind = "aligned" -> sel(LAMBDA b : AlignedFit(b, r))

Candidates(r) == CandidatesIn(free_blocks, r)

\* The address inside block b that the allocation of r starts at.
PlaceIn(b, r) == AlignUp(b.start, r.align)

\* Splitting b around [a, a + size): the unaligned prefix and the tail go
\* back on the list when they can hold a header, and are absorbed into the
\* allocation otherwise.
Remnants(b, a, size) ==
  { x \in { Block(b.start, a - b.start), Block(a + size, End(b) - (a + size)) } :
      x.size >= MinBlock }

\* One critical section of heapmm_alloc_internal that finds a block for r:
\* the block is split and the allocation handed to the caller.
heapmm_alloc_internal(r) ==
  /\ Candidates(r) /= {}
  /\ LET b == FirstBlock(Candidates(r))
         a == PlaceIn(b, r)
     IN /\ free_blocks' = (free_blocks \ {b}) \cup Remnants(b, a, r.size)
        /\ held' = held \cup { [start |-> a, size |-> r.size, align |-> r.align] }

(***************************************************************************)
(* heapmm_free_internal: insert [a, a + n) and merge it with the free      *)
(* block that ends at a and the one that starts at a + n.                   *)
(***************************************************************************)
heapmm_merge_end_iterator(b, a) == End(b) = a
heapmm_merge_start_iterator(b, e) == b.start = e

heapmm_free_internal(blocks, a, n) ==
  LET before == { b \in blocks : heapmm_merge_end_iterator(b, a) }
      after  == { b \in blocks : heapmm_merge_start_iterator(b, a + n) }
      lo == IF before = {} THEN a ELSE FirstBlock(before).start
      hi == IF after = {} THEN a + n ELSE End(FirstBlock(after))
  IN (blocks \ (before \cup after)) \cup { Block(lo, hi - lo) }

(***************************************************************************)
(* Growth: heapmm_request_core maps n more bytes at heap_top; the new      *)
(* memory extends the free block that ends at the old top                 *)
(* (heapmm_morecore_iterator) or becomes a block of its own.               *)
(***************************************************************************)
heapmm_request_core(address, n) == address + n <= CoreLimit

heapmm_morecore_iterator(b) == End(b) = heap_top

MorecoreBlocksIn(fb, n) ==
  LET tail == { b \in fb : heapmm_morecore_iterator(b) }
  IN IF tail = {} THEN fb \cup { Block(heap_top, n) }
     ELSE LET t == FirstBlock(tail)
          IN (fb \ {t}) \cup { Block(t.start, t.size + n) }

MorecoreBlocks(n) == MorecoreBlocksIn(free_blocks, n)

(***************************************************************************)
(* Actions                                                                  *)
(***************************************************************************)
Init ==
  /\ free_blocks = { Block(HeapStart, InitSize) }
  /\ heap_top = HeapStart + InitSize
  /\ held = {}
  /\ pc = [c \in Ctx |-> "idle"]
  /\ req = [c \in Ctx |-> NoReq]

\* A context calls one of the allocation functions.  The first critical
\* section runs heapmm_alloc_internal: it returns the block, or the call
\* goes on to grow the heap.
Call(c, r) ==
  /\ pc[c] = "idle"
  /\ \/ /\ heapmm_alloc_internal(r)
        /\ UNCHANGED << heap_top, pc, req >>
     \/ /\ Candidates(r) = {}
        /\ pc' = [pc EXCEPT ![c] = "morecore"]
        /\ req' = [req EXCEPT ![c] = r]
        /\ UNCHANGED << free_blocks, heap_top, held >>

Return(c) ==
  /\ pc' = [pc EXCEPT ![c] = "idle"]
  /\ req' = [req EXCEPT ![c] = NoReq]

\* heapmm_morecore: ask the page source for the request's size rounded up to
\* whole pages at heap_top.  The page source may refuse (physical memory
\* exhausted or the mapping failed); the call then returns NULL and the free
\* list is untouched.
Morecore(c) ==
  LET n == PagesOf(req[c].size)
  IN /\ pc[c] = "morecore"
     /\ \/ /\ heapmm_request_core(heap_top, n)
           /\ free_blocks' = MorecoreBlocks(n)
           /\ heap_top' = heap_top + n
           /\ pc' = [pc EXCEPT ![c] = "retry"]
           /\ UNCHANGED << held, req >>
        \/ /\ Return(c)
           /\ UNCHANGED << free_blocks, heap_top, held >>

\* The single retry after growth: it returns the block or NULL.
Retry(c) ==
  /\ pc[c] = "retry"
  /\ Return(c)
  /\ UNCHANGED heap_top
  /\ \/ heapmm_alloc_internal(req[c])
     \/ /\ Candidates(req[c]) = {}
        /\ UNCHANGED << free_blocks, held >>

\* heapmm_free(address, size): the caller passes back the size it asked for.
Free(c, h) ==
  /\ pc[c] = "idle"
  /\ free_blocks' = heapmm_free_internal(free_blocks, h.start, h.size)
  /\ held' = held \ {h}
  /\ UNCHANGED << heap_top, pc, req >>

Next ==
  \E c \in Ctx :
    \/ \E r \in Requests : Call(c, r)
    \/ Morecore(c)
    \/ Retry(c)
    \/ \E h \in held : Free(c, h)

Spec == Init /\ [][Next]_vars

(***************************************************************************)
(* Properties                                                               *)
(***************************************************************************)
Cells == HeapStart .. CoreLimit - 1
BlockRec == [start : Cells, size : 1 .. CoreLimit - HeapStart]

TypeOK ==
  /\ free_blocks \subseteq BlockRec
  /\ heap_top \in HeapStart + InitSize .. CoreLimit
  /\ held \subseteq [start : Cells, size : 1 .. CoreLimit - HeapStart,
                     align : Aligns \cup {1, PageSize}]
  /\ pc \in [Ctx -> {"idle", "morecore", "retry"}]
  /\ req \in [Ctx -> Requests \cup {NoReq}]
  /\ \A c \in Ctx : (pc[c] = "idle") <=> (req[c] = NoReq)

\* Non-overlap and arena bounds (spec 8): the free blocks and the blocks
\* callers hold lie inside [HeapStart, heap_top) and no two of them share a
\* cell, whatever splits, merges and growth steps of any contexts came before.
\* A free block can also hold its own header.
BlocksDisjoint ==
  /\ \A b \in free_blocks \cup held :
        HeapStart <= b.start /\ End(b) <= heap_top
  /\ \A f \in free_blocks : f.size >= MinBlock
  /\ \A f, g \in free_blocks : f /= g => ~Overlap(f, g)
  /\ \A h, k \in held : h /= k => ~Overlap(h, k)
  /\ \A f \in free_blocks, h \in held : ~Overlap(f, h)

\* Merge completeness (spec 8): heapmm_free_internal and heapmm_morecore
\* never leave two free blocks that touch unmerged.
NoAdjacentFree ==
  \A f, g \in free_blocks : End(f) /= g.start

\* Coverage (spec 8): every cell of the arena is on the free list or inside a
\* block a caller holds, so freeing everything gives the arena back whole.
NoLeak ==
  \A x \in HeapStart .. heap_top - 1 :
     \E b \in free_blocks \cup held : b.start <= x /\ x < End(b)

============================================================================
