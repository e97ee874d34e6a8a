--------------------------- MODULE MCKernelModuleHost ---------------------------
(***************************************************************************)
(* The module host for TLC: two modules of which the second depends on the *)
(* first.                                                                  *)
(***************************************************************************)
EXTENDS KernelModuleHost

CONSTANTS m1, m2

MCOrder == <<m1, m2>>

=============================================================================
