------------------------------- MODULE MCQueues -------------------------------
(***************************************************************************)
(* The queues for TLC, with the scan of the path locks as it is written.   *)
(***************************************************************************)
EXTENDS Queues, LockManagerScan

=============================================================================
