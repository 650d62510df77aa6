------------------------------ MODULE KernelMM ------------------------------
(***************************************************************************)
(* The two heaps of posnk and the debugger that owns one of them.          *)
(*                                                                          *)
(*   Prod  -- heapmm.c, called by task code and interrupt handlers.        *)
(*   Dbg   -- kdbgmm.c, a copy of heapmm.c (every heapmm_* function has a  *)
(*            kdbgmm_* twin) used only by the kernel debugger.             *)
(*                                                                          *)
(* Both heaps grow through the same heapmm_request_core of paging.c: the   *)
(* symbol index lists kdbgmm.c among its users and there is no             *)
(* kdbgmm_request_core.  The page source is reduced to a pool of free      *)
(* physical frames that every successful growth draws from.                *)
(*                                                                          *)
(* kdbg_enter stops the kernel: while the debugger runs, no production     *)
(* context takes a step (a production call caught between its critical    *)
(* sections stays where it is), and the debugger builds its call traces    *)
(* in the kdbgmm heap and frees them with kdbg_free_calltrace.             *)
(*                                                                          *)
(* This module holds the state and the debugger's own steps; KernelPaging  *)
(* adds how either heap's growth maps its pages and composes the system.   *)
(***************************************************************************)
EXTENDS Integers

CONSTANTS
  PageSize, MinBlock, Aligns,
  P_Start, P_Init, P_Limit, P_Sizes, P_Ctx,   \* the production heap
  D_Start, D_Init, D_Limit, D_Sizes, Kdbg,    \* the debugger heap
  TotalFrames                                 \* frames the page source can give

ASSUME /\ TotalFrames \in Nat
       /\ Kdbg \notin P_Ctx
       /\ P_Start + P_Init <= D_Start \/ D_Start + D_Init <= P_Start

VARIABLES
  p_free, p_top, p_held, p_pc, p_req,   \* heapmm state
  d_free, d_top, d_held, d_pc, d_req,   \* kdbgmm state
  frames,                               \* free physical frames
  in_kdbg                               \* between kdbg_enter and kdbg_exit

prod_vars == << p_free, p_top, p_held, p_pc, p_req >>
dbg_vars  == << d_free, d_top, d_held, d_pc, d_req >>
vars == << prod_vars, dbg_vars, frames, in_kdbg >>

Prod == INSTANCE heapmm WITH
          free_blocks <- p_free, heap_top <- p_top, held <- p_held,
          pc <- p_pc, req <- p_req,
          HeapStart <- P_Start, InitSize <- P_Init, CoreLimit <- P_Limit,
          Sizes <- P_Sizes, Ctx <- P_Ctx

Dbg == INSTANCE heapmm WITH
         free_blocks <- d_free, heap_top <- d_top, held <- d_held,
         pc <- d_pc, req <- d_req,
         HeapStart <- D_Start, InitSize <- D_Init, CoreLimit <- D_Limit,
         Sizes <- D_Sizes, Ctx <- {Kdbg}

FramesOf(n) == n \div PageSize

(***************************************************************************)
(* heapmm_request_core(address, size) of paging.c, shared by both heaps:   *)
(* a growth from top to top2 of n cells takes n / PageSize frames; it      *)
(* cannot succeed when fewer are free; a refused growth takes none.        *)
(***************************************************************************)
RequestCore(top, top2, n) ==
  IF top2 > top
  THEN /\ FramesOf(n) <= frames
       /\ frames' = frames - FramesOf(n)
  ELSE UNCHANGED frames

(***************************************************************************)
(* Actions                                                                  *)
(***************************************************************************)
Init ==
  /\ Prod!Init
  /\ Dbg!Init
  /\ frames = TotalFrames
  /\ in_kdbg = FALSE

\* kdbg_enter: the debugger takes over between two critical sections.
kdbg_enter ==
  /\ ~in_kdbg
  /\ in_kdbg' = TRUE
  /\ UNCHANGED << prod_vars, dbg_vars, frames >>

\* kdbg_exit: the shell returns once the debugger's own call has returned.
kdbg_exit ==
  /\ in_kdbg
  /\ d_pc[Kdbg] = "idle"
  /\ in_kdbg' = FALSE
  /\ UNCHANGED << prod_vars, dbg_vars, frames >>

\* kdbg_do_calltrace: the trace list is allocated with kdbgmm_alloc, which
\* may grow the kdbgmm heap through the shared page source.
kdbg_do_calltrace ==
  /\ in_kdbg
  /\ \E r \in Dbg!Requests : Dbg!Call(Kdbg, r)
  /\ UNCHANGED << prod_vars, frames, in_kdbg >>

\* The single retry of kdbgmm_alloc after kdbgmm_morecore.
KdbgRetry ==
  /\ in_kdbg
  /\ Dbg!Retry(Kdbg)
  /\ UNCHANGED << prod_vars, frames, in_kdbg >>

\* kdbg_free_calltrace: the trace list goes back with kdbgmm_free.
kdbg_free_calltrace ==
  /\ in_kdbg
  /\ \E h \in d_held : Dbg!Free(Kdbg, h)
  /\ UNCHANGED << prod_vars, frames, in_kdbg >>

============================================================================
