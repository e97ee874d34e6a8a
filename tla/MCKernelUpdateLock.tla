------------------------- MODULE MCKernelUpdateLock -------------------------
(***************************************************************************)
(* The update lock for TLC. Processes that cannot end are interchangeable; *)
(* used by the run without liveness only.                                  *)
(***************************************************************************)
EXTENDS KernelUpdateLock, TLC

LivingSymmetry == Permutations(Procs \ Mortal)

=============================================================================
