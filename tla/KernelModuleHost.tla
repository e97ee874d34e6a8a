--------------------------- MODULE KernelModuleHost ---------------------------
(***************************************************************************)
(* The host of the kernel's modules: it activates and readies them in the  *)
(* order of their dependencies, replaces a running one by a new            *)
(* generation, suspends and disposes them.  Each of these is an async      *)
(* function of its own, and they may overlap.                              *)
(*                                                                         *)
(* One action is what such a function does between two awaits of module    *)
(* code.  A module provides one capability; it registers the service while *)
(* it activates, or not at all.  A record is the host's entry for one      *)
(* generation of a module, known by the module or by the call that         *)
(* replaces it.                                                            *)
(***************************************************************************)
EXTENDS Naturals, Sequences, SequencesExt

CONSTANTS Order,         \* the modules in the order of the plan
          Replacements,  \* the calls of replaceModule
          NoRecord

Modules == ToSet(Order)
Records == Modules \cup Replacements

ASSUME HostAssumption ==
  /\ Order \in Seq(Modules) /\ Order # <<>> /\ IsInjective(Order)
  /\ NoRecord \notin Records /\ Modules \cap Replacements = {}

VARIABLES
  current,   \* module -> its record (modules)
  rec,       \* record -> its module, generation, status and contextActive
  entries,   \* the records whose service is registered
  active,    \* module -> the record whose service is visible (activeEntries), or NoRecord
  starter, suspender, disposer,  \* startOnce, suspend, disposeOnce: where they are
  culprit,   \* the module that failed to become ready during the start, or NoRecord
  replacer,  \* replacement -> where its call is, and the record that was there before
  crossed    \* history: modules of which a replacement was under way when another one
             \* began, or a dispose

hostVars == <<current, rec, entries, active, starter, suspender, disposer, culprit, replacer, crossed>>

NoWalk == [at |-> "none", i |-> 0, record |-> NoRecord]

HostInit ==
  /\ current = [m \in Modules |-> m]
  /\ rec = [r \in Records |-> [module |-> IF r \in Modules THEN r ELSE NoRecord, generation |-> 1,
                               status |-> "registered", context |-> FALSE]]
  /\ entries = {}
  /\ active = [m \in Modules |-> NoRecord]
  /\ starter = NoWalk /\ suspender = NoWalk /\ disposer = NoWalk
  /\ replacer = [r \in Replacements |-> [at |-> "none", previous |-> NoRecord]]
  /\ culprit = NoRecord /\ crossed = {}

Disposed == disposer.at # "none"
RecordAt(i) == current[Order[i]]
WithStatus(all, r, status) == [all EXCEPT ![r].status = status]

\* removeOwner goes by the module and the generation.
SameOwner(e, r) == rec[e].module = rec[r].module /\ rec[e].generation = rec[r].generation

\* cleanupModule for these records: their contexts end, what is registered under their
\* module and generation goes.
Cleanup(gone, all) ==
  LET owned == {e \in entries : \E r \in gone : SameOwner(e, r)}
  IN /\ rec' = [r \in Records |-> IF r \in gone THEN [all[r] EXCEPT !.context = FALSE] ELSE all[r]]
     /\ entries' = entries \ owned
     /\ active' = [m \in Modules |-> IF active[m] \in owned THEN NoRecord ELSE active[m]]

\* Module code, in its activate hook: registerService, while its context is active, once for
\* a module and generation. The service of a replacement is kept back.
RegisterService(r) ==
  /\ rec[r].context /\ rec[r].status = "activating"
  /\ ~\E e \in entries : SameOwner(e, r)
  /\ r \in Modules => active[rec[r].module] = NoRecord
  /\ entries' = entries \cup {r}
  /\ active' = IF r \in Modules THEN [active EXCEPT ![rec[r].module] = r] ELSE active
  /\ UNCHANGED <<current, rec, starter, suspender, disposer, culprit, replacer, crossed>>

-----------------------------------------------------------------------------
(* startOnce.  The record of a step is looked up when the step begins. *)

StartGoes(at, i) == starter' = [at |-> at, i |-> i, record |-> IF i = 0 THEN NoRecord ELSE RecordAt(i)]
Activating(i, all) == [all EXCEPT ![RecordAt(i)].status = "activating", ![RecordAt(i)].context = TRUE]

StartHost ==
  /\ starter.at = "none" /\ ~Disposed
  /\ StartGoes("activating", 1)
  /\ rec' = Activating(1, rec)
  /\ UNCHANGED <<current, entries, active, suspender, disposer, culprit, replacer, crossed>>

StartActivated ==
  /\ starter.at = "activating"
  /\ LET done == WithStatus(rec, starter.record, "active")
     IN IF starter.i < Len(Order)
        THEN rec' = Activating(starter.i + 1, done) /\ StartGoes("activating", starter.i + 1)
        ELSE rec' = WithStatus(done, RecordAt(1), "readying") /\ StartGoes("readying", 1)
  /\ UNCHANGED <<current, entries, active, suspender, disposer, culprit, replacer, crossed>>

StartReady ==
  /\ starter.at = "readying"
  /\ LET done == WithStatus(rec, starter.record, "ready")
     IN IF starter.i < Len(Order)
        THEN rec' = WithStatus(done, RecordAt(starter.i + 1), "readying") /\ StartGoes("readying", starter.i + 1)
        ELSE rec' = done /\ StartGoes("started", 0)
  /\ UNCHANGED <<current, entries, active, suspender, disposer, culprit, replacer, crossed>>

\* A module fails to activate or to become ready: those before it, or all of them, are
\* rolled back from the last to the first. Only the first kind is cleaned up at once.
StartFails ==
  /\ starter.at \in {"activating", "readying"}
  /\ LET failed == WithStatus(rec, starter.record, "failed")
         first == IF starter.at = "activating" THEN starter.i - 1 ELSE Len(Order)
     IN /\ IF starter.at = "activating" THEN Cleanup({starter.record}, failed)
           ELSE rec' = failed /\ UNCHANGED <<entries, active>>
        /\ StartGoes(IF first = 0 THEN "failed" ELSE "rolling", first)
        /\ culprit' = IF starter.at = "readying" THEN Order[starter.i] ELSE NoRecord
  /\ UNCHANGED <<current, suspender, disposer, replacer, crossed>>

\* The dispose hook of one module has ended, or failed; the status of the module that
\* failed to become ready is left.
RollbackNext ==
  /\ starter.at = "rolling"
  /\ \E status \in IF Order[starter.i] = culprit THEN {rec[starter.record].status} ELSE {"disposed", "failed"} :
       Cleanup({starter.record}, WithStatus(rec, starter.record, status))
  /\ StartGoes(IF starter.i = 1 THEN "failed" ELSE "rolling", starter.i - 1)
  /\ UNCHANGED <<current, suspender, disposer, culprit, replacer, crossed>>

-----------------------------------------------------------------------------
(* replaceModule *)

InFlight(r) == replacer[r].at \in {"activating", "readying", "dropping"}
BeingReplaced(m) == \E r \in Replacements : InFlight(r) /\ rec[r].module = m

ReplaceModule(r, m) ==
  /\ ~Disposed
  /\ replacer[r].at = "none" /\ rec[current[m]].status \in {"ready", "active", "suspended"}
  /\ replacer' = [replacer EXCEPT ![r] = [at |-> "activating", previous |-> current[m]]]
  /\ rec' = [rec EXCEPT ![r] = [module |-> m, generation |-> rec[current[m]].generation + 1,
                                status |-> "activating", context |-> TRUE]]
  /\ crossed' = IF BeingReplaced(m) THEN crossed \cup {m} ELSE crossed
  /\ UNCHANGED <<current, entries, active, starter, suspender, disposer, culprit>>

ReplacementActivated(r) ==
  /\ replacer[r].at = "activating"
  /\ replacer' = [replacer EXCEPT ![r].at = "readying"]
  /\ rec' = WithStatus(rec, r, "readying")
  /\ UNCHANGED <<current, entries, active, starter, suspender, disposer, culprit, crossed>>

\* activateOwner: what is registered under the module and generation becomes visible.
MadeVisible(r) ==
  LET staged == {e \in entries : SameOwner(e, r)}
  IN IF staged = {} THEN active ELSE [active EXCEPT ![rec[r].module] = CHOOSE e \in staged : TRUE]

\* MUTATED SwapIn: the old generation is released first.
SwapInAfterRelease(r) ==
  /\ replacer[r].at = "readying"
  /\ replacer' = [replacer EXCEPT ![r].at = "releasing"]
  /\ current' = [current EXCEPT ![rec[r].module] = r]
  /\ rec' = WithStatus(WithStatus(rec, r, "ready"), replacer[r].previous, "disposing")
  /\ active' = [active EXCEPT ![rec[r].module] = NoRecord]
  /\ UNCHANGED <<entries, starter, suspender, disposer, culprit, crossed>>

\* The new generation is ready: without another look at the host it becomes visible and
\* current, then the dispose hook of the old one begins.
SwapIn(r) ==
  /\ replacer[r].at = "readying"
  /\ replacer' = [replacer EXCEPT ![r].at = "releasing"]
  /\ active' = MadeVisible(r)
  /\ current' = [current EXCEPT ![rec[r].module] = r]
  /\ rec' = WithStatus(WithStatus(rec, r, "ready"), replacer[r].previous, "disposing")
  /\ UNCHANGED <<entries, starter, suspender, disposer, culprit, crossed>>

ReleaseEnds(r) ==
  /\ replacer[r].at = "releasing"
  /\ replacer' = [replacer EXCEPT ![r].at = "done"]
  /\ \E status \in {"disposed", "failed"} :
       Cleanup({replacer[r].previous}, WithStatus(rec, replacer[r].previous, status))
  /\ UNCHANGED <<current, starter, suspender, disposer, culprit, crossed>>

\* The new generation fails to activate or to become ready: its dispose hook begins.
ReplacementFails(r) ==
  /\ replacer[r].at \in {"activating", "readying"}
  /\ replacer' = [replacer EXCEPT ![r].at = "dropping"]
  /\ rec' = WithStatus(rec, r, "failed")
  /\ UNCHANGED <<current, entries, active, starter, suspender, disposer, culprit, crossed>>

DropEnds(r) ==
  /\ replacer[r].at = "dropping"
  /\ replacer' = [replacer EXCEPT ![r].at = "failed"]
  /\ Cleanup({r}, rec)
  /\ UNCHANGED <<current, starter, suspender, disposer, culprit, crossed>>

-----------------------------------------------------------------------------
(* suspend and dispose, from the last module to the first *)

\* The last module at or before place i that runs is asked to suspend.
SuspendFrom(limit, all) ==
  LET able == {i \in 1..limit : all[RecordAt(i)].status \in {"ready", "active"}}
      i == Max(able)
  IN IF able = {} THEN rec' = all /\ suspender' = NoWalk
     ELSE /\ rec' = WithStatus(all, RecordAt(i), "suspending")
          /\ suspender' = [at |-> "suspending", i |-> i, record |-> RecordAt(i)]

SuspendHost ==
  /\ ~Disposed /\ suspender.at = "none" /\ starter.at # "none"
  /\ SuspendFrom(Len(Order), rec)
  /\ UNCHANGED <<current, entries, active, starter, disposer, culprit, replacer, crossed>>

SuspendNext ==
  /\ suspender.at = "suspending"
  /\ \E status \in {"suspended", "failed"} :
       SuspendFrom(suspender.i - 1, WithStatus(rec, suspender.record, status))
  /\ UNCHANGED <<current, entries, active, starter, disposer, culprit, replacer, crossed>>

\* dispose waits for the start that is under way.
DisposeHost ==
  /\ ~Disposed
  /\ disposer' = [NoWalk EXCEPT !.at = "waiting"]
  /\ crossed' = crossed \cup {m \in Modules : BeingReplaced(m)}
  /\ UNCHANGED <<current, rec, entries, active, starter, suspender, culprit, replacer>>

\* The last module at or before the place limit that is not disposed is asked to go; those
\* passed over, and the ones gone before, are cleaned up.
DisposeFrom(limit, all, gone) ==
  LET left == {i \in 1..limit : all[RecordAt(i)].status # "disposed"}
      i == IF left = {} THEN 0 ELSE Max(left)
      passed == {RecordAt(j) : j \in (i + 1)..limit}
  IN /\ Cleanup(gone \cup passed, IF i = 0 THEN all ELSE WithStatus(all, RecordAt(i), "disposing"))
     /\ disposer' = IF i = 0 THEN [NoWalk EXCEPT !.at = "done"]
                    ELSE [at |-> "disposing", i |-> i, record |-> RecordAt(i)]

\* MUTATED StartIsOver: dispose does not wait for it.
StartMayGoOn == TRUE

StartIsOver == starter.at \in {"none", "started", "failed"}

DisposeBegins ==
  /\ disposer.at = "waiting" /\ StartIsOver
  /\ DisposeFrom(Len(Order), rec, {})
  /\ UNCHANGED <<current, starter, suspender, culprit, replacer, crossed>>

DisposeNext ==
  /\ disposer.at = "disposing"
  /\ \E status \in {"disposed", "failed"} :
       DisposeFrom(disposer.i - 1, WithStatus(rec, disposer.record, status), {disposer.record})
  /\ UNCHANGED <<current, starter, suspender, culprit, replacer, crossed>>

HostNext ==
  \/ StartHost \/ StartActivated \/ StartReady \/ StartFails \/ RollbackNext
  \/ SuspendHost \/ SuspendNext \/ DisposeHost \/ DisposeBegins \/ DisposeNext
  \/ \E r \in Records : RegisterService(r)
  \/ \E r \in Replacements :
       \/ \E m \in Modules : ReplaceModule(r, m)
       \/ ReplacementActivated(r) \/ SwapIn(r) \/ ReleaseEnds(r) \/ ReplacementFails(r) \/ DropEnds(r)

HostSpec == HostInit /\ [][HostNext]_hostVars

-----------------------------------------------------------------------------
\* A service that can be resolved is a registered one of a module whose context is active;
\* and when dispose has ended none is left but one whose release by a replacement still
\* goes on, however start, suspend and replacements overlapped with it (a replacement not
\* yet ready when dispose began excepted: it becomes visible on the disposed host).
OnlyLiveServices ==
  /\ \A m \in Modules : active[m] # NoRecord => active[m] \in entries
  /\ \A e \in entries : rec[e].context
  /\ disposer.at = "done" => \A m \in Modules \ crossed :
       /\ ~rec[current[m]].context
       /\ active[m] # NoRecord =>
            \E r \in Replacements : replacer[r].at = "releasing" /\ replacer[r].previous = active[m]

\* While a module is replaced its service is at no moment gone: it stays the one it was, or
\* becomes that of the current generation, unless the new generation registered none
\* ("service visibility and event delivery switch synchronously").
SwapKeepsService ==
  [][\A m \in Modules \ crossed' :
       active[m] # NoRecord /\ ~Disposed' /\ starter'.at \notin {"rolling", "failed"}
         => active'[m] \in {active[m], current'[m]} \/ current'[m] \notin entries]_hostVars

\* The comment on replaceModule: "A failed replacement is removed without disturbing the
\* current graph."
FailedReplacementHarmless ==
  [][\A r \in Replacements :
       replacer[r].at = "dropping" /\ replacer'[r].at = "failed" => active' = active]_hostVars

=============================================================================
