CONSTANTS
  HeapStart <- MC_HeapStart
  InitSize <- MC_InitSize
  CoreLimit <- MC_CoreLimit
  PageSize <- MC_PageSize
  MinBlock <- MC_MinBlock
  Sizes <- MC_Sizes
  Aligns <- MC_Aligns
  Ctx = {task, irq}
SPECIFICATION Spec
INVARIANT NoLeak
