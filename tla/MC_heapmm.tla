----------------------------- MODULE MC_heapmm -----------------------------
(* Instantiates heapmm for TLC: an arena that starts one page in, one page  *)
(* big, and can grow by two more pages; two contexts (a task and an         *)
(* interrupt handler); requests below, at and above the header size, an     *)
(* alignment larger than a page, and whole-page requests.                    *)
EXTENDS heapmm

MC_HeapStart == 4
MC_InitSize == 4
MC_CoreLimit == 16
MC_PageSize == 4
MC_MinBlock == 2
MC_Sizes == {1, 3}
MC_Aligns == {8}

\* The shapes of allocation the modelled callers ask for.
MC_Shapes == { [size |-> r.size, align |-> r.align] : r \in Requests }

Abstract == INSTANCE HeapAbstract WITH
              allocs <- held, limit <- heap_top, Shapes <- MC_Shapes

\* Refinement: the heap, with all its splitting, merging, growth and
\* interleaved critical sections of several contexts, implements
\* HeapAbstract -- callers only ever get aligned, in-arena allocations that
\* overlap no allocation still held, and a free releases exactly the block
\* it names.
Refinement == Abstract!Spec
====
