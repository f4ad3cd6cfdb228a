------------------------------ MODULE MCKernel ------------------------------
(***************************************************************************)
(* Kernel for TLC: three slots for processes beside the kernel's own.       *)
(***************************************************************************)
EXTENDS Kernel
=============================================================================
