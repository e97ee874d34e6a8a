----------------------- MODULE MCRemoteNodeCallRunner -----------------------
(***************************************************************************)
(* The call runner for TLC. Its run checks liveness, so call objects and   *)
(* callIds are not declared symmetric.                                     *)
(***************************************************************************)
EXTENDS RemoteNodeCallRunner

=============================================================================
