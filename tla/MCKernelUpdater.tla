--------------------------- MODULE MCKernelUpdater ---------------------------
(***************************************************************************)
(* The updater for TLC. Its run checks liveness, so there is no symmetry.  *)
(***************************************************************************)
EXTENDS KernelUpdater

=============================================================================
