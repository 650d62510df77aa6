CONSTANTS
  PageSize <- MC_PageSize
  MinBlock <- MC_MinBlock
  Aligns <- MC_Aligns
  P_Start <- MC_P_Start
  P_Init <- MC_P_Init
  P_Limit <- MC_P_Limit
  P_Sizes <- MC_P_Sizes
  P_Ctx = {task}
  D_Start <- MC_D_Start
  D_Init <- MC_D_Init
  D_Limit <- MC_D_Limit
  D_Sizes <- MC_D_Sizes
  Kdbg = kdbg
  TotalFrames <- MC_Frames
  PTSpan <- MC_PTSpan
SPECIFICATION PagedSpec
PROPERTY PagedIsolation
