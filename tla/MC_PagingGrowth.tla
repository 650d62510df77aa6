--------------------------- MODULE MC_PagingGrowth ---------------------------
(* The heap of MC_heapmm with page tables of two pages each: the initial    *)
(* arena [4, 8) lies under table 0, which exists at boot; growing to 8 and  *)
(* beyond needs table 1, whose frame must come from the heap itself.        *)
EXTENDS PagingGrowth

MC_HeapStart == 4
MC_InitSize == 4
MC_CoreLimit == 16
MC_PageSize == 4
MC_MinBlock == 2
MC_Sizes == {1, 3}
MC_Aligns == {8}
MC_PTSpan == 8
====
