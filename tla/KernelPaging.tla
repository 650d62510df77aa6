---------------------------- MODULE KernelPaging ----------------------------
(***************************************************************************)
(* KernelMM with the page tables of PagingGrowth: both heaps grow through  *)
(* the one heapmm_request_core of paging.c, whose paging_map takes the     *)
(* frame of a missing page table with i386_alloc_page.  That function      *)
(* lives in arch/i386/paging.c, not in kdbgmm.c, so it allocates from the  *)
(* production heap whichever heap is growing.                               *)
(***************************************************************************)
EXTENDS KernelMM, FiniteSets

CONSTANT PTSpan

VARIABLES tables, pt_held

paged_vars == << vars, tables, pt_held >>

\* paging.c seen from the production heap.
PG == INSTANCE PagingGrowth WITH
        free_blocks <- p_free, heap_top <- p_top, held <- p_held,
        pc <- p_pc, req <- p_req,
        HeapStart <- P_Start, InitSize <- P_Init, CoreLimit <- P_Limit,
        Sizes <- P_Sizes, Ctx <- P_Ctx

\* Boot: the page tables covering both initial arenas exist.
PagedInit ==
  /\ Init
  /\ tables = { PG!TableOf(x) : x \in (P_Start .. P_Start + P_Init - 1)
                                      \cup (D_Start .. D_Start + D_Init - 1) }
  /\ pt_held = {}

\* A production step; a growth maps its pages through paging_map.
ProdStepPaged ==
  /\ ~in_kdbg
  /\ \/ \E c \in P_Ctx :
          /\ PG!Morecore(c)
          /\ RequestCore(p_top, p_top', Prod!PagesOf(p_req[c].size))
     \/ /\ PG!HeapStep
        /\ UNCHANGED frames
  /\ UNCHANGED << dbg_vars, in_kdbg >>

\* kdbgmm_morecore: heapmm_request_core maps the debugger heap's new pages,
\* and the page tables they lack are allocated by i386_alloc_page from the
\* production heap.  If none can be had, the growth fails.
KdbgGrowPaged ==
  LET n == Dbg!PagesOf(d_req[Kdbg].size)
      need == PG!MissingTables(d_top, n)
      pt == PG!i386_alloc_page(p_free, Cardinality(need))
  IN /\ in_kdbg
     /\ Dbg!Morecore(Kdbg)
     /\ RequestCore(d_top, d_top', n)
     /\ IF d_top' > d_top
        THEN /\ pt.ok
             /\ p_free' = pt.free
             /\ tables' = tables \cup need
             /\ pt_held' = pt_held \cup pt.frames
        ELSE UNCHANGED << p_free, tables, pt_held >>
     /\ UNCHANGED << p_top, p_held, p_pc, p_req, in_kdbg >>

PagedNext ==
  \/ ProdStepPaged
  \/ KdbgGrowPaged
  \/ /\ kdbg_enter \/ kdbg_exit \/ kdbg_do_calltrace \/ KdbgRetry
        \/ kdbg_free_calltrace
     /\ UNCHANGED << tables, pt_held >>

PagedSpec == PagedInit /\ [][PagedNext]_paged_vars

\* Isolation (spec 4.4) when growth maps pages: no step taken while the
\* debugger runs -- its heap's growth through paging_map included -- changes
\* the production heap.
PagedIsolation == [][ in_kdbg => UNCHANGED prod_vars ]_paged_vars

============================================================================
