-------------------------- MODULE MCRemoteNodeLink --------------------------
(***************************************************************************)
(* The remote node link for TLC. Call objects are interchangeable; used by *)
(* the runs without liveness.                                              *)
(***************************************************************************)
EXTENDS RemoteNodeLink, TLC

RunSymmetry == Permutations(Runs)

=============================================================================
