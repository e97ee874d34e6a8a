--------------------------------- MODULE Queues ---------------------------------
(***************************************************************************)
(* The components that make others wait: the update lock, the path locks,  *)
(* the project gate, the effect scheduler, the queue by key and the        *)
(* delivery of events.  They share no state: a behaviour is one of any of  *)
(* them, and the others stay where they begin.  What is checked of all of  *)
(* them together is what would be checked of each alone.                   *)
(***************************************************************************)
EXTENDS KernelUpdateLock, LockManager, ProjectExecutionGate, EffectScheduler,
        KeyedSerialQueue, EventDelivery

VARIABLE subject  \* which component it is

Subjects == {"updateLock", "pathLocks", "gate", "effects", "serial", "delivery"}

AllVars == <<subject, lockVars, lockManagerVars, gateVars, effectVars, serialVars, deliveryVars>>

QueuesInit ==
  /\ subject \in Subjects
  /\ LockInit /\ LockManagerInit /\ GateInit /\ EffectInit /\ SerialInit /\ DeliveryInit

OnlyUpdateLock ==
  subject = "updateLock" /\ UNCHANGED <<subject, lockManagerVars, gateVars, effectVars, serialVars, deliveryVars>>
OnlyPathLocks ==
  subject = "pathLocks" /\ UNCHANGED <<subject, lockVars, gateVars, effectVars, serialVars, deliveryVars>>
OnlyGate ==
  subject = "gate" /\ UNCHANGED <<subject, lockVars, lockManagerVars, effectVars, serialVars, deliveryVars>>
OnlyEffects ==
  subject = "effects" /\ UNCHANGED <<subject, lockVars, lockManagerVars, gateVars, serialVars, deliveryVars>>
OnlySerial ==
  subject = "serial" /\ UNCHANGED <<subject, lockVars, lockManagerVars, gateVars, effectVars, deliveryVars>>
OnlyDelivery ==
  subject = "delivery" /\ UNCHANGED <<subject, lockVars, lockManagerVars, gateVars, effectVars, serialVars>>

QueuesNext ==
  \/ OnlyUpdateLock /\ LockNext
  \/ OnlyPathLocks /\ LockManagerNext
  \/ OnlyGate /\ GateNext
  \/ OnlyEffects /\ EffectNext
  \/ OnlySerial /\ SerialNext
  \/ OnlyDelivery /\ DeliveryNext

\* What they assume: the file operations of a process that lives complete, who holds
\* paths unlocks, tasks end, writes and hand-overs of events complete.  As a behaviour
\* has one subject, fairness to w is fairness to whoever bears that name there.
Proceed(w) ==
  \/ OnlyUpdateLock /\ w \in Procs /\ Continue(w)
  \/ OnlyPathLocks /\ w \in Requests /\ Unlock(w)
  \/ OnlyGate /\ w \in Tasks /\ EndTask(w)

QueuesFairness ==
  /\ \A w \in Procs \cup Requests \cup Tasks : WF_AllVars(Proceed(w))
  /\ WF_AllVars(OnlyDelivery /\ Storing)
  /\ WF_AllVars(OnlyDelivery /\ Handing)

FairQueues == QueuesInit /\ [][QueuesNext]_AllVars /\ QueuesFairness

-----------------------------------------------------------------------------

\* Each of the four queues implements OrderedAdmission: transactions that touch a common
\* path, commands of a project of which one writes, effects on a common resource and
\* operations of one key run one at a time, in the order in which they came.
AdmittedInOrder == LocksInOrder /\ GateInOrder /\ EffectsInOrder /\ SerialInOrder

\* In the middle of an acquire, waiting for paths, or for a turn at a project; who waits
\* for a flush has no name.
InLine(w) ==
  \/ w \in Procs /\ pc[w] \in {"open", "writing", "reading", "judging", "stale"}
  \/ w \in Requests /\ state[w] = "waiting"
  \/ w \in Tasks /\ task[w].at = "queued"
  \/ flush.at = "waiting"

\* Whoever waits gets an answer while others come and go: an acquire of the update lock
\* ends, with the lock or an error, and no reader spins on an owner that never writes its
\* pid; no transaction starves; no writer is left behind by readers and no task forgotten
\* in a gate that was removed; a flush or close of the delivery answers, also when a write
\* or the handler has failed.
EveryoneServed == \A w \in Procs \cup Requests \cup Tasks : InLine(w) ~> ~InLine(w)

=============================================================================
