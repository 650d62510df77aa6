---------------------------- MODULE PagingGrowth ----------------------------
(***************************************************************************)
(* Heap growth through paging_map, with page tables taken from the heap.   *)
(*                                                                          *)
(* heapmm_request_core (paging.c) maps the new pages of a growth with      *)
(* paging_map.  A page that falls under a page table not yet present needs *)
(* a fresh page-table frame, which i386_alloc_page takes from the page     *)
(* allocator (spec 2: page-table frames are page-allocator callers), i.e.  *)
(* from the very heap that is growing.  That nested allocation runs inside *)
(* heapmm_morecore's critical section, after heapmm_morecore has started   *)
(* and before it extends the free list: the heap is re-entered while its   *)
(* growth is half done.                                                     *)
(*                                                                          *)
(* The nested allocation does not grow the heap itself: when no free page  *)
(* is left, paging_map fails, and so does the growth.                      *)
(***************************************************************************)
EXTENDS Integers, FiniteSets

CONSTANTS
  HeapStart, InitSize, CoreLimit, PageSize, MinBlock, Sizes, Aligns, Ctx,
  PTSpan      \* bytes of address space one page table maps

ASSUME PTSpan > 0 /\ PTSpan % PageSize = 0

VARIABLES
  free_blocks, heap_top, held, pc, req,   \* the heap, as in heapmm
  tables,     \* page tables present, by index
  pt_held     \* heap pages paging took for page tables

heap_vars == << free_blocks, heap_top, held, pc, req >>
vars == << heap_vars, tables, pt_held >>

H == INSTANCE heapmm

\* The page table that maps address x.
TableOf(x) == x \div PTSpan

\* Mutant: the range to map taken as [top, top + n], one byte too far.
MissingTables_OffByOne(top, n) ==
  { TableOf(x) : x \in top .. top + n } \ tables

\* The page tables paging_map must create to map [top, top + n).
MissingTables(top, n) == { TableOf(x) : x \in top .. top + n - 1 } \ tables

(***************************************************************************)
(* i386_alloc_page, k times over: each page-table frame is the block       *)
(* heapmm_alloc_page's iterators pick from the free list left by the       *)
(* previous one.  ok is FALSE when the list has no page left.              *)
(***************************************************************************)
RECURSIVE i386_alloc_page(_, _)
i386_alloc_page(fb, k) ==
  IF k = 0 THEN [ok |-> TRUE, free |-> fb, frames |-> {}]
  ELSE LET r == H!heapmm_alloc_page
           C == H!CandidatesIn(fb, r)
       IN IF C = {} THEN [ok |-> FALSE, free |-> fb, frames |-> {}]
          ELSE LET b == H!FirstBlock(C)
                   a == H!PlaceIn(b, r)
                   rest == i386_alloc_page((fb \ {b}) \cup H!Remnants(b, a, PageSize),
                                           k - 1)
               IN [rest EXCEPT !.frames = @ \cup { H!Block(a, PageSize) }]

(***************************************************************************)
(* Mutant: heapmm_morecore finds the tail block before it calls            *)
(* heapmm_request_core and extends that block afterwards, although the     *)
(* nested page-table allocation may have taken it in between.              *)
(***************************************************************************)
GrowFreeList_StaleTail(fb, n) ==
  LET tail == { b \in free_blocks : H!heapmm_morecore_iterator(b) }
  IN IF tail = {} THEN fb \cup { H!Block(heap_top, n) }
     ELSE LET t == H!FirstBlock(tail)
          IN (fb \ {t}) \cup { H!Block(t.start, t.size + n) }

\* heapmm_morecore extends the free list as it is after heapmm_request_core
\* returned: the tail block is looked up in that list.
GrowFreeList(fb, n) == H!MorecoreBlocksIn(fb, n)

(***************************************************************************)
(* Actions                                                                  *)
(***************************************************************************)
Init ==
  /\ H!Init
  /\ tables = { TableOf(x) : x \in HeapStart .. HeapStart + InitSize - 1 }
  /\ pt_held = {}

\* A call, retry or free of heapmm: paging is not involved.
HeapStep ==
  /\ \E c \in Ctx :
       \/ \E r \in H!Requests : H!Call(c, r)
       \/ H!Retry(c)
       \/ \E h \in held : H!Free(c, h)
  /\ UNCHANGED << tables, pt_held >>

\* heapmm_morecore: heapmm_request_core maps n bytes at heap_top, creating
\* the page tables it lacks from heap pages, then the free list grows by the
\* mapped range.  If the page source refuses, or no heap page is left for a
\* page table, the call returns NULL and nothing is changed.
Morecore(c) ==
  LET n == H!PagesOf(req[c].size)
      need == MissingTables(heap_top, n)
      pt == i386_alloc_page(free_blocks, Cardinality(need))
  IN /\ pc[c] = "morecore"
     /\ \/ /\ H!heapmm_request_core(heap_top, n)
           /\ pt.ok
           /\ free_blocks' = GrowFreeList(pt.free, n)
           /\ heap_top' = heap_top + n
           /\ tables' = tables \cup need
           /\ pt_held' = pt_held \cup pt.frames
           /\ pc' = [pc EXCEPT ![c] = "retry"]
           /\ UNCHANGED << held, req >>
        \/ /\ H!Return(c)
           /\ UNCHANGED << free_blocks, heap_top, held, tables, pt_held >>

Next == HeapStep \/ \E c \in Ctx : Morecore(c)

Spec == Init /\ [][Next]_vars

(***************************************************************************)
(* Properties                                                               *)
(***************************************************************************)
TypeOK ==
  /\ H!TypeOK
  /\ tables \subseteq 0 .. TableOf(CoreLimit - 1)
  /\ pt_held \subseteq H!BlockRec

\* Page tables and the heap (spec 3, 8): every page-table frame paging took
\* from the heap lies inside the mapped arena, is owned by paging alone (no
\* free block, no caller's block and no other page table shares a cell with
\* it), and every mapped address has its page table -- after any sequence
\* of growths, each of which re-entered the heap from inside
\* heapmm_morecore.
PageTablesDisjoint ==
  /\ \A p \in pt_held :
        /\ HeapStart <= p.start /\ H!End(p) <= heap_top
        /\ \A q \in pt_held : p /= q => ~H!Overlap(p, q)
        /\ \A f \in free_blocks : ~H!Overlap(p, f)
        /\ \A h \in held : ~H!Overlap(p, h)
  /\ \A x \in HeapStart .. heap_top - 1 : TableOf(x) \in tables

\* The page source owns no allocator state (spec 2, 6), so whether a growth
\* can be mapped depends on the address range alone: a context waiting in
\* heapmm_morecore for a range the page source has room for can always get
\* the page tables that range needs.
GrowthIndependentOfHeap ==
  \A c \in Ctx :
     LET n == H!PagesOf(req[c].size)
     IN pc[c] = "morecore" /\ H!heapmm_request_core(heap_top, n)
          => i386_alloc_page(free_blocks, Cardinality(MissingTables(heap_top, n))).ok

============================================================================
