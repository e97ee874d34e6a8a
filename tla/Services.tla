-------------------------------- MODULE Services --------------------------------
(***************************************************************************)
(* The services of one process, which share no state: the operation        *)
(* runtime, the module host, the supervisor of agents, the run service of  *)
(* an act session and the pairing of a node.  A behaviour is one of any of *)
(* them, and the others stay where they begin.  What is checked of all of  *)
(* them together is what would be checked of each alone.                   *)
(***************************************************************************)
EXTENDS OperationRuntime, KernelModuleHost, AgentSupervisor, ActRunService, RemoteNodePairing

VARIABLE subject  \* which component it is

Subjects == {"operations", "host", "supervisor", "act", "pairing"}

AllVars == <<subject, runtimeVars, hostVars, supervisorVars, actVars, pairingVars>>

ServicesInit ==
  /\ subject \in Subjects
  /\ RuntimeInit /\ HostInit /\ SupervisorInit /\ ActInit /\ PairingInit

OnlyOperations ==
  subject = "operations" /\ UNCHANGED <<subject, hostVars, supervisorVars, actVars, pairingVars>>
OnlyHost ==
  subject = "host" /\ UNCHANGED <<subject, runtimeVars, supervisorVars, actVars, pairingVars>>
OnlySupervisor ==
  subject = "supervisor" /\ UNCHANGED <<subject, runtimeVars, hostVars, actVars, pairingVars>>
OnlyAct ==
  subject = "act" /\ UNCHANGED <<subject, runtimeVars, hostVars, supervisorVars, pairingVars>>
OnlyPairing ==
  subject = "pairing" /\ UNCHANGED <<subject, runtimeVars, hostVars, supervisorVars, actVars>>

ServicesNext ==
  \/ OnlyOperations /\ RuntimeNext
  \/ OnlyHost /\ HostNext
  \/ OnlySupervisor /\ SupervisorNext
  \/ OnlyAct /\ ActNext
  \/ OnlyPairing /\ PairingNext

ServicesSpec == ServicesInit /\ [][ServicesNext]_AllVars

=============================================================================
