--------------------------- MODULE MC_KernelPaging ---------------------------
(* KernelPaging with page tables of two pages each.  The production heap   *)
(* [4, 8) lies under table 0 and the debugger heap [20, 24) under table 2; *)
(* the debugger heap's first growth, to [24, 28), needs table 3.            *)
EXTENDS KernelPaging

MC_PageSize == 4
MC_MinBlock == 2
MC_Aligns == {}
MC_P_Start == 4
MC_P_Init == 4
MC_P_Limit == 16
MC_P_Sizes == {3}
MC_D_Start == 20
MC_D_Init == 4
MC_D_Limit == 28
MC_D_Sizes == {1}
MC_Frames == 2
MC_PTSpan == 8
====
