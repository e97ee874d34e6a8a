--------------------------- MODULE EffectScheduler ---------------------------
(***************************************************************************)
(* The effect scheduler of an act session: operations declare the          *)
(* resources they change, or none, which means all of them; those that     *)
(* share one run in the order in which they came.                          *)
(*                                                                         *)
(* acquire is synchronous up to its await.  What the await waits for is    *)
(* fixed there; the abort of the caller may come before it or together     *)
(* with it.                                                                *)
(***************************************************************************)
CONSTANTS Operations,
          Resources  \* what operations may change; one that declares nothing takes all

ASSUME EffectAssumption == Resources # {}

VARIABLES
  pending,       \* the map pending: operations that hold their promise unresolved
  scopeOf,       \* operation -> its resources
  predecessors,  \* operation -> the promises its await waits for, not yet resolved
  effect         \* operation -> idle, waiting, or running in its handler

effectVars == <<pending, scopeOf, predecessors, effect>>

EffectScopes == (SUBSET Resources) \ {{}}

EffectInit ==
  /\ pending = {}
  /\ scopeOf = [o \in Operations |-> Resources]
  /\ predecessors = [o \in Operations |-> {}]
  /\ effect = [o \in Operations |-> "idle"]

Overlap(s, t) == s \cap t # {}

\* What is in the map and in conflict.
Before(s) == {p \in pending : Overlap(s, scopeOf[p])}

\* acquire up to Promise.race
AcquireEffect(o, s) ==
  /\ effect[o] = "idle"
  /\ predecessors' = [predecessors EXCEPT ![o] = Before(s)]
  /\ pending' = pending \cup {o}
  /\ scopeOf' = [scopeOf EXCEPT ![o] = s]
  /\ effect' = [effect EXCEPT ![o] = "waiting"]

\* All of them are resolved, and the signal is not aborted: the handler runs.
StartEffect(o) ==
  /\ effect[o] = "waiting" /\ predecessors[o] = {}
  /\ effect' = [effect EXCEPT ![o] = "running"]
  /\ UNCHANGED <<pending, scopeOf, predecessors>>

\* release: the promise leaves the map and is resolved.
Resolve(o) ==
  /\ pending' = pending \ {o}
  /\ predecessors' = [p \in Operations |-> IF p = o THEN {} ELSE predecessors[p] \ {o}]
  /\ effect' = [effect EXCEPT ![o] = "idle"]
  /\ UNCHANGED scopeOf

\* The signal is aborted while acquire waits, or when its await has just ended.
AbortEffect(o) == effect[o] = "waiting" /\ Resolve(o)

\* The caller releases when its handler has really ended.
EndEffect(o) == effect[o] = "running" /\ Resolve(o)

EffectNext ==
  \E o \in Operations :
    \/ \E s \in EffectScopes : AcquireEffect(o, s)
    \/ StartEffect(o) \/ AbortEffect(o) \/ EndEffect(o)

EffectSpec == EffectInit /\ [][EffectNext]_effectVars

-----------------------------------------------------------------------------

\* The scheduler is a queue like the others: the state of its promises, which it
\* keeps on the heap, is what the abstract queue calls rivals.
EffectState == [o \in Operations |-> IF effect[o] = "running" THEN "granted" ELSE effect[o]]
EffectQueue == INSTANCE OrderedAdmission WITH
                 Requests <- Operations, Scopes <- EffectScopes, Conflict <- Overlap,
                 state <- EffectState, scope <- scopeOf, rivals <- predecessors

\* Operations that share a resource, or do not say what they change, run one at a
\* time and in order, also when some of those that wait are aborted.
EffectsInOrder == EffectQueue!AdmissionSpec

=============================================================================
