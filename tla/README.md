# TLA+ models of the posnk kernel heap

This directory holds TLA+ models of the posnk kernel memory subsystem, the part that
`spec.md` describes:

- the heap allocator `heapmm.c`;
- its core growth through `heapmm_request_core` in `paging.c`;
- the independent debugger heap `kdbgmm.c`.

The TLC configurations that check the models are here too.

## What the source gives us

`src/` does not contain C code. It holds the Doxygen search index of the kernel:

- `src/search/functions_68.js:4-22` names every function of `heapmm.c`, with its signature;
- `src/search/functions_6b.js:17-49` names the functions of `kdbg`, `heapdbg` and `kdbgmm`;
- the other files name paging, syscall, ext2, multiboot and x86 symbols.

So the index fixes these things:

- which operations exist and their parameters, e.g. `heapmm_free(void *address, size_t size)`;
- which iterators `heapmm_alloc_internal` is built from (match, fit, page match, page fit, page split);
- that merging uses two iterators (`merge_start`, `merge_end`);
- that growth goes through `heapmm_morecore`, its iterator and `heapmm_request_core`;
- that there is one free function for every kind of allocation;
- that `kdbgmm.c` uses the same `heapmm_request_core`.

The bodies come from spec.md §3–§5. Each TLA+ definition that models a function is
mapped in `PROJECT.json` to the index line naming that function. Definitions taken
from the spec alone are marked `spec_modelled`.

## Inventory

| Component | State | Operations | Interacts with |
|---|---|---|---|
| Byte allocator (`heapmm`) | address-ordered free list of `heapmm_block_t {size}`; arena start and top | `heapmm_init`, `heapmm_alloc`, `heapmm_free`, `heapmm_alloc_internal`, `heapmm_free_internal`, match/fit/merge iterators | callers in task and interrupt contexts; core growth |
| Page/aligned allocation | same free list | `heapmm_alloc_alligned`, `heapmm_alloc_page`, `heapmm_alloc_page_alligned`, page match/fit/split iterators | same |
| Core growth | `heap_top` | `heapmm_morecore`, `heapmm_morecore_iterator`, `heapmm_request_core` | page source (paging) |
| Page source | page tables, physical frames | `heapmm_request_core`, `paging_map`, `paging_unmap` | both heaps |
| Debug mirror (`kdbgmm`) | its own free list and arena | `kdbgmm_*`, a copy of every `heapmm_*` | the debugger; the shared page source |
| Debugger (`kdbg`, `heapdbg`, `stacktrc`) | debugger mode; memuse tables; calltrace lists | `kdbg_enter`, `kdbg_exit`, `kdbg_shell`, `kdbg_find_memuse_iterator`, `kdbg_do_calltrace` | reads the production heap; allocates from kdbgmm |
| Syscalls, ext2, ELF, drivers | – | names only | out of scope (spec §1) |

Hard behaviour:

- **Interleaving.** Interrupt handlers allocate too, and each free-list mutation is a critical section (spec §5). An allocation that misses runs three critical sections (first try, `heapmm_morecore`, retry), and other contexts can run between them.
- **Boundary arithmetic.** Splits and alignment are decided by comparing remnant sizes with the header size.
- **Growth.** Growth can fail at any time, and the retry happens once.
- **Debugger.** The debugger may be entered in the middle of anything, and it reads the production heap.

What makes each component correct:

- **Heap.** Free and held blocks lie inside the arena and never overlap. No two free blocks are adjacent. Allocations are aligned as asked. Memory is not leaked: the coverage and round-trip properties of spec §8.
- **Growth.** The page tables that growth needs do not collide with heap blocks, and whether growth succeeds depends only on the page source (spec §2, §6).
- **Mirror.** The debugger never mutates the production heap (spec §4.4).

## Modules

- `heapmm.tla` models the heap. It covers all of heapmm's allocation and free paths and growth.
  - State: `free_blocks` is the free list. It is address-ordered, so it is kept as a set whose first block is the lowest. `heap_top` is the arena top.
  - `held` is the callers' view: each block a caller holds, with the size it will pass back to `heapmm_free`.
  - `pc` and `req` record, for each context, where it is inside an allocation that is growing the heap.
  - Actions:
    - `Call`: the first critical section of any `heapmm_alloc*`.
    - `Morecore`: `heapmm_morecore` and `heapmm_request_core`, which either succeeds or fails.
    - `Retry`: the single retry.
    - `Free`: `heapmm_free`.
  - Memory is integer cells. A block is `[start, size]`. `MinBlock` stands for `sizeof(heapmm_block_t)`.
  - Requests below `MinBlock` are rounded up to it, and `heapmm_free` applies the same rounding.
  - A split keeps the unaligned prefix and the tail as free blocks when they can hold a header, and absorbs them otherwise (spec §4.1).
  - `CandidatesIn` and `MorecoreBlocksIn` are the forms of `Candidates` and `MorecoreBlocks` over a given list. `PagingGrowth` uses them for the nested allocation.
- `HeapAbstract.tla` states what callers are promised. An allocation is aligned, lies inside the arena and is disjoint from every held allocation. Free releases one allocation. The arena only grows.
- `PagingGrowth.tla` models heap growth through `paging_map`.
  - `tables` is the set of page tables present. `pt_held` holds the heap pages paging took for page tables.
  - `Morecore` runs `heapmm_request_core`. Pages under a missing page table (`MissingTables`: one table per `PTSpan` bytes) get their table frame from `i386_alloc_page`.
  - `i386_alloc_page` is a `heapmm_alloc_page` on the same heap. Spec §2 says page-table frames are page-allocator callers; src/ has no body. The nested allocation runs inside `heapmm_morecore`'s critical section.
  - After it, `heapmm_morecore` looks up the tail block in the list as it now is (`GrowFreeList`). That order is the model's reading.
  - If no page is left for a table, the growth fails. The nested allocation does not grow the heap itself.
- `KernelMM.tla` holds the state of the whole kernel memory system and the debugger's own steps.
  - `Prod` and `Dbg` are two `INSTANCE heapmm`, with the variables renamed `p_*` and `d_*`. `Dbg` stands for `kdbgmm.c`: every `kdbgmm_*` symbol is the twin of a `heapmm_*` one, and its only context is the debugger.
  - `frames` is the physical-frame pool of the one `heapmm_request_core`. Every growth of either heap draws from it, all or nothing (`RequestCore`).
  - `in_kdbg` is true between `kdbg_enter` and `kdbg_exit`.
  - The debugger's steps are `kdbg_do_calltrace` (a `kdbgmm` allocation), `KdbgRetry` and `kdbg_free_calltrace`.
- `KernelPaging.tla` composes `KernelMM` with `PagingGrowth`'s page tables.
  - Production contexts take no step while the debugger runs (`ProdStepPaged`). A production call caught between its critical sections stays where it is.
  - Both heaps grow through the same `paging_map`. So a `kdbgmm` growth's page tables come from the production heap (`KdbgGrowPaged`).
- `MC_heapmm.tla` instantiates `heapmm`. It also instantiates `HeapAbstract` with `allocs <- held` and `limit <- heap_top`, and checks it as `Refinement`.
- `MC_PagingGrowth.tla` and `MC_KernelPaging.tla` instantiate the other two models.

## Runs

| Run | cfg | Expect | Shows |
|---|---|---|---|
| heap_safety | `MC_heapmm.cfg` | pass | `TypeOK`, `BlocksDisjoint`, `NoAdjacentFree` and `Refinement` hold for two contexts that interleave every call (about 550k states). |
| heap_leak | `MC_heapmm_leak.cfg` | violation | `NoLeak`: `alloc(3)` from a 4-cell block absorbs one cell, and `heapmm_free(p, 3)` never gives it back. |
| paging_tables | `MC_PagingGrowth.cfg` | pass | `TypeOK` and `PageTablesDisjoint`, with two contexts and page tables of 8 bytes. Table 0 exists at boot. Growing past 8 needs table 1, whose frame can only be the arena's first page (about 28k states). |
| paging_tables_starve | `MC_PagingGrowth_starve.cfg` | violation | `GrowthIndependentOfHeap`: after `alloc(1)` no whole page is free. An aligned request's growth to [8,12) is then refused, although the page source has room. |
| kernel_paging_isolation | `MC_KernelPaging.cfg` | violation | `PagedIsolation`: in the debugger, a page request grows `kdbgmm` from [20,24) to [24,28). That needs page table 3, and `i386_alloc_page` takes the production heap's free page for it. |

Bounds:

- Arena `[4, 8)` that can grow to 16, with pages of 4 cells and a header of 2 cells.
- Request sizes 1 (below the header) and 3 (leaves a 1-cell remnant in a page).
- Alignment 8 (above a page).
- Page requests of 1 and 2 pages.
- Two contexts.
- For paging: tables of two pages, so the first growth always crosses into a new table.

These bounds reach every case the properties are about:

- exact match, fit with split, fit with absorption;
- page match, fit and split, with both a kept and an absorbed prefix;
- growth that merges with the tail, and growth when the tail is held;
- growth failure at the limit;
- a retry that fails because the other context took the new memory;
- a page table that takes the tail block.

Every action and every disjunct fires in `heap_safety` and in `paging_tables`.

No liveness property is checked. In this model every call's failure path (`Morecore`'s refusal, `Retry`'s NULL) is always enabled, so "every call returns" would hold whatever the heap does.

## Findings

1. **Leak through absorbed remnants** (spec gap). Spec §4.1 absorbs remnants smaller than a block into the allocation. The only free function takes the size from the caller, so those cells are lost. This contradicts the coverage and round-trip properties of §8.
2. **Growth can be starved by the heap itself** (spec gap). Page-table frames come from the page allocator, so `paging_map` inside a growth allocates from the heap that is growing. A full heap cannot grow across a page-table boundary, however much room the page source has. Spec §2 and §6 say the page source owns no allocator state (`paging_tables_starve`).
3. **Debugger growth touches the production heap** (spec gap, inferred from symbol names and the spec, not from code).
   - `i386_alloc_page` is in `arch/i386/paging.c`, and there is no `kdbgmm` version. The index lists `kdbgmm.c` among the users of the one `heapmm_request_core`.
   - So a `kdbgmm` growth that needs a page table takes it from the production heap, while the kernel is stopped in the debugger. This goes against spec §4.4 (`kernel_paging_isolation`).
4. **The page allocator shares the byte free list.** The index has one `heapmm_free` and one pair of merge iterators, and no page free function. The model follows the index. Spec §4.2 describes a separate page list.

## Not modelled, and why

- **Misbehaving callers.** Spec §3 and §4.1 make the explicit-size free trust its caller and call a mismatched free undefined. So no property can say what a double free should do. The model's callers free only what they hold.
- **Partial growth.** The index gives `heapmm_request_core` no body. So how many pages `paging_map` maps before a failure, and whether they are unmapped again, is unknown. Growth in the model is all or nothing.
- **Growth size for aligned requests.** Spec §4.3 asks for "at least" the request, rounded to pages, and allows a retry to fail. The model grows by the request size rounded to pages, and checks nothing about the retry's success.
- **Nested growth for a page table.** `PagingGrowth` assumes the nested `i386_alloc_page` does not itself call `heapmm_morecore`. If it did, the nested growth would need the very page table it is allocating. Which one happens is not visible.
- **Page directories, GDT, CR3 and TLB handling, `paging_switch_dir` and `paging_unmap`.** The heap never calls them, and it never gives a page-table frame back.
- **heapdbg's memuse functions** (`kdbg_init_memuse`, `kdbg_enable_memuse`, `kdbg_find_memuse_iterator`, `kdbg_find_bf_iterator`, `kdbg_find_in_iterator`, `kdbg_print_memuse_brdr`). Neither src/ nor the spec says what they record or walk, so a model would be invented.
- **Debugger entry inside a critical section.** For example, a fault taken while a split is half done. The heap model's critical sections are atomic, so this would need each section split into its list operations, which the index does not give.
- **Address-space collision between the two arenas.** The model gives each heap its own address bound. Where the real arenas lie, and whether `paging_map` refuses a page that is already mapped, is not in src/ or the spec.
- **The debugger's own interactive loop** (`kdbg_shell`, `kdbg_gets`, `kdbg_parsehex`). It is I/O.
- **`heapmm_alloc_table` / `kdbgmm_alloc_table`.** These are `heapmm.h` and `kdbgmm` symbols without a signature. They may be the table behind the exact-size fast path of spec §4.1. The model folds that path into the match iterator over the whole list. That picks the same block whenever the table holds the exact-size blocks in address order.
- **Everything outside memory management.** The index gives only names.

Properties that held by construction were dropped. These include returns-liveness with an always-enabled failure path, frame conservation under all-or-nothing growth, and isolation stated on actions that leave the other heap unchanged by definition. So were properties that asked more than the spec promises: a retry that always succeeds after growth, production growth untouched by any other consumer, and list integrity under a double free.
