--------------------------- MODULE MCKernelEntry ---------------------------
(***************************************************************************)
(* Two user tasks (the second is forked), the boot task and a kernel task  *)
(* that exits.                                                             *)
(***************************************************************************)
EXTENDS KernelEntry, TLC

CONSTANTS u1, u2, k1

MCUsers == {u1, u2}
MCKernels == {Boot, k1}
=============================================================================
