---------------------------- MODULE KernelUpdater ----------------------------
(***************************************************************************)
(* The updater of the shared installation: version directories, a staging  *)
(* area and the active pointer, changed by several processes under the     *)
(* lock file of KernelUpdateLock.  A process that dies leaves the disk as  *)
(* it is at that moment.                                                   *)
(*                                                                         *)
(* One action is what happens between two awaits that a process may die    *)
(* in with a different result on disk.                                     *)
(***************************************************************************)
EXTENDS KernelUpdateLock

CONSTANTS Versions,  \* the published versions
          Ailing,    \* the sets of versions whose health check may turn out to fail
          Retained,  \* versions kept by pruneVersions
          MaxCalls   \* bound: operations asked of all updaters together

ASSUME UpdaterAssumption ==
  /\ Versions \subseteq Nat /\ IsFiniteSet(Versions) /\ Ailing \subseteq SUBSET Versions
  /\ Retained \in Nat \ {0} /\ MaxCalls \in Nat /\ None \notin Versions

VARIABLES
  sick,         \* the versions whose health check fails
  dirs,         \* version -> what its directory holds
  pointer,      \* current.json: the active version and the one to roll back to
  staging,      \* process -> its staging directory
  job,          \* process -> the operation under the lock, with its locals
  calls,        \* operations asked for so far
  interrupted,  \* history: versions whose removal was not finished, or not followed by a rename
  upset         \* history: a process died while it tried out a version

updaterVars == <<sick, dirs, pointer, staging, job, calls, interrupted, upset>>
History == <<sick, calls, interrupted, upset>>
vars == <<lockVars, updaterVars>>

\* partial: no install record; torn: a record, but files are missing.
Contents == {"absent", "partial", "torn", "whole"}
\* readKernelInstallRecord finds one, which the code takes for a whole installation; of a
\* directory whose removal was cut short it may be what is left.
Complete(v) == dirs[v] \in {"torn", "whole"}

NoPointer == [version |-> None, previous |-> None]
NoJob == [at |-> "none", version |-> None, then |-> "done", prev |-> NoPointer, list |-> {}]

\* An installation that earlier updaters have left: some versions, of which one may
\* be active and another one the rollback target.
Init ==
  /\ LockInit
  /\ sick \in Ailing
  /\ \E S \in SUBSET Versions :
       /\ dirs = [v \in Versions |-> IF v \in S THEN "whole" ELSE "absent"]
       /\ \/ pointer = NoPointer
          \/ /\ pointer \in [version : S \ sick, previous : (S \ sick) \cup {None}]
             /\ pointer.version # pointer.previous
  /\ staging = [p \in Procs |-> "none"]
  /\ job = [p \in Procs |-> NoJob]
  /\ calls = 0
  /\ interrupted = {} /\ upset = FALSE

At(p, label) == pc[p] = "held" /\ job[p].at = label
Set(p, new) == job' = [job EXCEPT ![p] = new]
Become(p, label) == Set(p, [job[p] EXCEPT !.at = label])
Finish(p) == Become(p, "done")

-----------------------------------------------------------------------------
(* The operations start, with the lock held. *)

\* MUTATED Install: the active version is replaced in place as well.
InstallActive(p, v, force, then) ==
  IF Complete(v) /\ ~force THEN Set(p, [NoJob EXCEPT !.at = then, !.version = v])
  ELSE Set(p, [NoJob EXCEPT !.at = "staging", !.version = v, !.then = then])

\* installVersion up to the download: an installed version is reused unless the
\* caller forces, and one that is active is not replaced.
Install(p, v, force, then) ==
  IF Complete(v) /\ ~force THEN Set(p, [NoJob EXCEPT !.at = then, !.version = v])
  ELSE IF Complete(v) /\ pointer.version = v THEN Finish(p)
  ELSE Set(p, [NoJob EXCEPT !.at = "staging", !.version = v, !.then = then])

EnsureInstalled(p, v, force) ==
  /\ At(p, "none")
  /\ Install(p, v, force, "done")
  /\ UNCHANGED <<lockVars, dirs, pointer, staging, History>>

Latest(v, set) == v \in set /\ \A w \in set : w <= v

\* resolveCompatible: what runs, else the latest that is installed, else the latest
\* that is published; allowed is the requirement's range.
EnsureCompatible(p, allowed) ==
  /\ At(p, "none")
  /\ LET local == {v \in allowed : Complete(v)}
     IN IF pointer.version \in local THEN Finish(p)
        ELSE \E v \in allowed :
               IF local # {} THEN Latest(v, local) /\ Set(p, [NoJob EXCEPT !.at = "activating", !.version = v])
               ELSE Latest(v, allowed) /\ Install(p, v, FALSE, "activating")
  /\ UNCHANGED <<lockVars, dirs, pointer, staging, History>>

ActivateVersion(p, v) ==
  /\ At(p, "none")
  /\ Set(p, [NoJob EXCEPT !.at = "activating", !.version = v])
  /\ UNCHANGED <<lockVars, dirs, pointer, staging, History>>

Rollback(p) ==
  /\ At(p, "none")
  /\ IF pointer.previous = None THEN Finish(p)
     ELSE Set(p, [NoJob EXCEPT !.at = "activating", !.version = pointer.previous])
  /\ UNCHANGED <<lockVars, dirs, pointer, staging, History>>

\* MUTATED Protected: only the active version is.
ProtectedActive == {pointer.version} \ {None}

\* pruneVersions: the oldest that are neither active nor the rollback target.
Protected == {pointer.version, pointer.previous} \ {None}
Removable == {v \in Versions : dirs[v] # "absent" /\ v \notin Protected}
Excess == LET keep == IF Retained > Cardinality(Protected) THEN Retained - Cardinality(Protected) ELSE 0
          IN {v \in Removable : Cardinality({w \in Removable : w >= v}) > keep}

PruneVersions(p) ==
  /\ At(p, "none")
  /\ Set(p, [NoJob EXCEPT !.at = "pruning", !.list = Excess])
  /\ UNCHANGED <<lockVars, dirs, pointer, staging, History>>

-----------------------------------------------------------------------------
(* installVersion *)

\* discardOrphanedStaging, mkdtemp
Stage(p) ==
  /\ At(p, "staging")
  /\ staging' = [q \in Procs |-> IF q = p THEN "made" ELSE "none"]
  /\ Become(p, "fetching")
  /\ UNCHANGED <<lockVars, dirs, pointer, History>>

\* The manifest cannot be loaded or names no artifact for this target.
ManifestFails(p) ==
  /\ At(p, "staging")
  /\ Finish(p)
  /\ UNCHANGED <<lockVars, dirs, pointer, staging, History>>

\* Download, checks, extraction and the install record, all in the staging
\* directory.  When somebody has removed it meanwhile, part of it may be missing.
Fetch(p) ==
  /\ At(p, "fetching")
  /\ \E got \in IF staging[p] = "made" THEN {"whole"} ELSE {"none", "torn"} :
       staging' = [staging EXCEPT ![p] = got]
  /\ Become(p, IF staging'[p] = "none" THEN "done" ELSE "removing")
  /\ UNCHANGED <<lockVars, dirs, pointer, History>>

\* The download, the digest or the signature fails; the staging directory goes.
FetchFails(p) ==
  /\ At(p, "fetching")
  /\ staging' = [staging EXCEPT ![p] = "none"]
  /\ Finish(p)
  /\ UNCHANGED <<lockVars, dirs, pointer, History>>

\* rm of a version directory is under way: some files are gone, the record perhaps.
Tearing(v) == \E left \in {"partial", "torn"} :
                dirs' = [dirs EXCEPT ![v] = IF @ = "absent" THEN @
                                            ELSE IF @ = "partial" THEN @ ELSE left]

\* rm of the destination: begun, then done.
BeginRemove(p) ==
  /\ At(p, "removing")
  /\ Tearing(job[p].version)
  /\ interrupted' = IF dirs[job[p].version] = "absent" THEN interrupted
                    ELSE interrupted \cup {job[p].version}
  /\ Become(p, "removed")
  /\ UNCHANGED <<lockVars, pointer, staging, sick, calls, upset>>

Remove(p) ==
  /\ At(p, "removed")
  /\ dirs' = [dirs EXCEPT ![job[p].version] = "absent"]
  /\ Become(p, "placing")
  /\ UNCHANGED <<lockVars, pointer, staging, History>>

\* MUTATED Place: the record is written first and the files are copied.
PlaceByCopy(p) ==
  /\ At(p, "placing")
  /\ LET v == job[p].version
     IN /\ dirs' = [dirs EXCEPT ![v] = IF @ = "absent" THEN "torn" ELSE "whole"]
        /\ interrupted' = interrupted \ {v}
        /\ Become(p, IF dirs[v] = "absent" THEN "placing" ELSE job[p].then)
  /\ UNCHANGED <<lockVars, staging, pointer, sick, calls, upset>>

\* rename of the staged directory; it fails when that is gone or when another
\* process has put something there.  The staging directory goes.
Place(p) ==
  /\ At(p, "placing")
  /\ LET v == job[p].version
         placed == staging[p] # "none" /\ dirs[v] = "absent"
     IN /\ dirs' = IF placed THEN [dirs EXCEPT ![v] = staging[p]] ELSE dirs
        /\ interrupted' = IF placed THEN interrupted \ {v} ELSE interrupted
        /\ Become(p, IF placed THEN job[p].then ELSE "done")
  /\ staging' = [staging EXCEPT ![p] = "none"]
  /\ UNCHANGED <<lockVars, pointer, sick, calls, upset>>

Prune(p) ==
  /\ At(p, "pruning") /\ job[p].list # {}
  /\ \E v \in job[p].list :
       /\ \A w \in job[p].list : v <= w
       /\ \/ /\ dirs[v] \notin {"absent", "partial"} /\ Tearing(v)
             /\ interrupted' = interrupted \cup {v}
             /\ UNCHANGED job
          \/ /\ dirs' = [dirs EXCEPT ![v] = "absent"]
             /\ Set(p, [job[p] EXCEPT !.list = @ \ {v}])
             /\ UNCHANGED interrupted
  /\ UNCHANGED <<lockVars, pointer, staging, sick, calls, upset>>

Pruned(p) ==
  /\ At(p, "pruning") /\ job[p].list = {}
  /\ Finish(p)
  /\ UNCHANGED <<lockVars, dirs, pointer, staging, History>>

-----------------------------------------------------------------------------
(* activate *)

\* The record is there; the pointer is read and backed up.
ReadPointer(p) ==
  /\ At(p, "activating")
  /\ IF Complete(job[p].version)
     THEN Set(p, [job[p] EXCEPT !.at = "switching", !.prev = pointer])
     ELSE Finish(p)
  /\ UNCHANGED <<lockVars, dirs, pointer, staging, History>>

\* A version that is activated again keeps the rollback target.
Successor(prev, v) == [version |-> v, previous |-> IF prev.version = v THEN prev.previous ELSE prev.version]

\* The pointer file is replaced as a whole; a health check follows when the caller
\* has one (the callers of this model have one for the sick versions).
SwitchPointer(p) ==
  /\ At(p, "switching")
  /\ pointer' = Successor(job[p].prev, job[p].version)
  /\ \E check \in IF job[p].version \in sick THEN {TRUE} ELSE BOOLEAN :
       Become(p, IF check THEN "checking" ELSE "done")
  /\ UNCHANGED <<lockVars, dirs, staging, History>>

HealthCheck(p) ==
  /\ At(p, "checking")
  /\ Become(p, IF job[p].version \in sick THEN "reverting" ELSE "done")
  /\ UNCHANGED <<lockVars, dirs, pointer, staging, History>>

\* MUTATED RevertPointer: it is left as it is.
NoRevert(p) ==
  /\ At(p, "reverting")
  /\ Finish(p)
  /\ UNCHANGED <<lockVars, pointer, dirs, staging, History>>

RevertPointer(p) ==
  /\ At(p, "reverting")
  /\ pointer' = job[p].prev
  /\ Finish(p)
  /\ UNCHANGED <<lockVars, dirs, staging, History>>
-----------------------------------------------------------------------------
(* The lock around it all. *)

\* exclusively: release comes after the operation.
ReleaseLock(p) ==
  /\ At(p, "done")
  /\ Release(p)
  /\ Set(p, NoJob)
  /\ UNCHANGED <<dirs, pointer, staging, History>>

Die(p) ==
  /\ End(p)
  /\ upset' = (upset \/ job[p].at \in {"checking", "reverting"})
  /\ Set(p, NoJob)
  /\ UNCHANGED <<dirs, pointer, staging, sick, calls, interrupted>>

Ask(p) ==
  /\ calls < MaxCalls /\ calls' = calls + 1
  /\ Acquire(p)
  /\ UNCHANGED <<dirs, pointer, staging, job, sick, interrupted, upset>>

Locking(p) == Continue(p) /\ UNCHANGED updaterVars

Work(p) ==
  \/ ManifestFails(p) \/ Stage(p) \/ Fetch(p) \/ FetchFails(p)
  \/ BeginRemove(p) \/ Remove(p) \/ Place(p)
  \/ Prune(p) \/ Pruned(p)
  \/ ReadPointer(p) \/ SwitchPointer(p) \/ HealthCheck(p) \/ RevertPointer(p)

Request(p) ==
  \/ \E v \in Versions : ActivateVersion(p, v) \/ \E force \in BOOLEAN : EnsureInstalled(p, v, force)
  \/ \E allowed \in (SUBSET Versions) \ {{}} : EnsureCompatible(p, allowed)
  \/ Rollback(p) \/ PruneVersions(p)

Next == \E p \in Procs : Ask(p) \/ Locking(p) \/ Request(p) \/ Work(p) \/ ReleaseLock(p) \/ Die(p)

Spec == Init /\ [][Next]_vars

\* Operations complete in a process that lives, the lock is released after them.
FairSpec == Spec /\ \A p \in Procs : WF_vars(Locking(p) \/ Request(p) \/ Work(p) \/ ReleaseLock(p))

-----------------------------------------------------------------------------
(* What the installation promises. *)

Pointers == [version : Versions \cup {None}, previous : Versions \cup {None}]
Jobs == [at : {"none", "staging", "fetching", "removing", "removed", "placing", "activating",
               "switching", "checking", "reverting", "pruning", "done"},
         version : Versions \cup {None}, then : {"done", "activating"},
         prev : Pointers, list : SUBSET Versions]

UpdaterTypeOK ==
  /\ sick \subseteq Versions
  /\ dirs \in [Versions -> Contents]
  /\ pointer \in Pointers
  /\ staging \in [Procs -> {"none", "made", "torn", "whole"}]
  /\ job \in [Procs -> Jobs]
  /\ \A p \in Procs : /\ job[p].at # "none" => pc[p] = "held"
                      /\ job[p].at \notin {"none", "done", "pruning"} => job[p].version \in Versions
                      /\ job[p].at \in {"removing", "removed", "placing"} => staging[p] # "made"
  /\ calls \in 0..MaxCalls
  /\ interrupted \subseteq Versions /\ upset \in BOOLEAN

\* The active version has its install record and is a whole installation, wherever a
\* process died, as long as the lock file of a living process was not taken. The
\* exception is a version whose removal was cut short before it was made active: rm may
\* have spared its record, and activate asks for no more, so its files may be missing.
ActiveIsInstalled ==
  ~robbed /\ pointer.version # None =>
    Complete(pointer.version) /\ (dirs[pointer.version] = "whole" \/ pointer.version \in interrupted)

\* The rollback target has its record, unless its own reinstallation was cut short between
\* the removal of the old directory and the rename of the new one.
RollbackTargetKept ==
  ~robbed /\ pointer.previous # None => Complete(pointer.previous) \/ pointer.previous \in interrupted

\* A directory with an install record is a whole installation, unless a removal of
\* it was cut short.
RecordMeansWhole == ~robbed => \A v \in Versions \ interrupted : dirs[v] # "torn"

\* "Under the lock, any staging directory left behind belongs to a dead run."
OrphansAreDead ==
  [][\A p \in Procs : ~robbed /\ staging[p] # "none" /\ staging'[p] = "none" =>
       ~Alive(p) \/ job'[p] # job[p]]_vars

\* A version that fails its health check does not stay active, unless a process
\* died while it tried a version out, or lost its lock.
SickIsLeft == pointer.version \in sick ~> pointer.version \notin sick \/ upset \/ robbed

=============================================================================
