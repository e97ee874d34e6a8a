-------------------------- MODULE KernelUpdaterProofs --------------------------
(***************************************************************************)
(* The update lock, for any number of processes: unless a living process   *)
(* was robbed of its lock file, one process owns the lock.  And what a     *)
(* crash of an updater leaves on disk, for any versions: as long as nobody *)
(* was robbed, one process works at a time, and the others have nothing    *)
(* under way.                                                              *)
(***************************************************************************)
EXTENDS KernelUpdater, TLAPS

-----------------------------------------------------------------------------
(* KernelUpdateLock *)

LEMMA LockInitInv == LockInit => LockInv
<1>. SUFFICES ASSUME LockInit PROVE LockInv
  OBVIOUS
<1>1. Retries \in Nat /\ None \notin Procs
  BY LockAssumption DEF LockAssumption
<1>2. LockTypeOK
  <2>1. reads \in [Procs -> 0..(Retries + 1)] /\ tries \in [Procs -> 0..2]
    BY <1>1 DEF LockInit
  <2>. QED  BY <2>1 DEF LockInit, LockTypeOK, NoFile
<1>. QED  BY <1>2 DEF LockInit, LockInv, NoFile, Owning

\* Every step keeps the invariant: a file changes hands only through its owner's
\* own release, or through a reclaim, which sets robbed if the owner is alive.
LEMMA LockNextInv == LockInv /\ [LockNext]_lockVars => LockInv'
<1>. SUFFICES ASSUME LockInv, [LockNext]_lockVars
              PROVE  LockInv'
  OBVIOUS
<1>. USE DEF LockInv, LockTypeOK, Owning, Goto
<1>a. None \notin Procs /\ Retries \in Nat
  BY LockAssumption DEF LockAssumption
<1>1. CASE UNCHANGED lockVars
  BY <1>1 DEF lockVars
<1>2. ASSUME NEW p \in Procs, Acquire(p) PROVE LockInv'
  BY <1>2, <1>a DEF Acquire
<1>3. ASSUME NEW p \in Procs, Open(p) PROVE LockInv'
  <2>1. /\ tries' \in [Procs -> 0..2] /\ reads' \in [Procs -> 0..(Retries + 1)]
        /\ \A q \in Procs : reads'[q] = IF q = p THEN 0 ELSE reads[q]
    BY <1>3, <1>a DEF Open
  <2>2. LockTypeOK'
    <3>1. file' \in [owner : Procs \cup {None}, written : BOOLEAN]
      <4>1. file' = [owner |-> p, written |-> FALSE] \/ file' = file
        BY <1>3 DEF Open
      <4>2. file \in [owner : Procs \cup {None}, written : BOOLEAN]
        OBVIOUS
      <4>3. [owner |-> p, written |-> FALSE] \in [owner : Procs \cup {None}, written : BOOLEAN]
        OBVIOUS
      <4>. HIDE DEF LockInv
      <4>. QED  BY <4>1, <4>2, <4>3
    <3>2. pc' \in [Procs -> {"idle", "open", "writing", "reading", "judging", "stale",
                             "held", "releasing", "ended"}]
      BY <1>3 DEF Open
    <3>. QED  BY <1>3, <2>1, <3>1, <3>2 DEF Open
  <2>3. /\ file'.written => file'.owner # None
        /\ ~robbed' => \A q \in Procs : Owning(q)' => file'.owner = q
    BY <1>3, <1>a DEF Open
  <2>4. \A q \in Procs : /\ pc'[q] = "judging" => seen'[q] \in Procs
                         /\ pc'[q] = "reading" => reads'[q] <= Retries
    BY <1>3, <1>a, <2>1 DEF Open
  <2>. QED  BY <2>2, <2>3, <2>4
<1>4. ASSUME NEW p \in Procs, GiveUp(p) PROVE LockInv'
  BY <1>4, <1>a DEF GiveUp
<1>5. ASSUME NEW p \in Procs, WriteOwner(p) PROVE LockInv'
  BY <1>5, <1>a DEF WriteOwner
<1>6. ASSUME NEW p \in Procs, WriteOwnerFails(p) PROVE LockInv'
  BY <1>6, <1>a DEF WriteOwnerFails
<1>7. ASSUME NEW p \in Procs, ReadOwner(p) PROVE LockInv'
  <2>1. CASE file.written
    BY <1>7, <1>a, <2>1 DEF ReadOwner
  <2>2. CASE ~file.written
    <3>1. reads[p] \in Nat /\ reads[p] <= Retries
      BY <1>7, <1>a DEF ReadOwner
    <3>2. reads' \in [Procs -> 0..(Retries + 1)]
      BY <1>7, <1>a, <2>2, <3>1 DEF ReadOwner
    <3>3. /\ pc' = [pc EXCEPT ![p] = IF reads[p] < Retries THEN "reading" ELSE "idle"]
          /\ reads' = [reads EXCEPT ![p] = @ + 1] /\ UNCHANGED <<file, tries, seen, robbed>>
      BY <1>7, <2>2 DEF ReadOwner
    <3>4. \A q \in Procs : pc'[q] = "reading" => reads'[q] <= Retries
      BY <1>a, <3>1, <3>3
    <3>5. \A q \in Procs : pc'[q] \in {"judging", "writing", "held", "releasing"} => pc'[q] = pc[q]
      BY <3>3
    <3>6. LockTypeOK'
      BY <3>2, <3>3
    <3>. QED  BY <3>3, <3>4, <3>5, <3>6
  <2>. QED  BY <2>1, <2>2
<1>8. ASSUME NEW p \in Procs, Judge(p) PROVE LockInv'
  BY <1>8, <1>a DEF Judge
<1>9. ASSUME NEW p \in Procs, Reclaim(p) PROVE LockInv'
  BY <1>9, <1>a DEF Reclaim, NoFile, Alive
<1>10. ASSUME NEW p \in Procs, Release(p) PROVE LockInv'
  BY <1>10, <1>a DEF Release
<1>11. ASSUME NEW p \in Procs, Unlink(p) PROVE LockInv'
  BY <1>11, <1>a DEF Unlink, NoFile
<1>12. ASSUME NEW p \in Procs, End(p) PROVE LockInv'
  BY <1>12, <1>a DEF End
<1>. QED
  BY <1>1, <1>2, <1>3, <1>4, <1>5, <1>6, <1>7, <1>8, <1>9, <1>10, <1>11, <1>12
  DEF LockNext, Continue

\* The invariant the two theorems below rest on.
THEOREM LockInvariant == LockSpec => []LockInv
BY LockInitInv, LockNextInv, PTL DEF LockSpec

\* Two updaters hold the lock at once only after a reclaim has unlinked the file
\* of a living process: that is the only hole of the protocol.
THEOREM ExclusionUnlessRobbed == LockSpec => []ExclusiveUnlessRobbed
<1>1. LockInv => ExclusiveUnlessRobbed
  BY DEF LockInv, ExclusiveUnlessRobbed, MutualExclusion, Owning
<1>. QED  BY <1>1, LockInvariant, PTL

\* A file is judged stale, and a living process robbed, only after some process
\* has ended.
DeathFirst ==
  (robbed \/ \E p \in Procs : pc[p] = "stale") => \E q \in Procs : ~Alive(q)

LEMMA DeathComesFirst == LockInv /\ DeathFirst /\ [LockNext]_lockVars => DeathFirst'
<1>. SUFFICES ASSUME LockInv, DeathFirst, [LockNext]_lockVars
              PROVE  DeathFirst'
  OBVIOUS
<1>. USE DEF LockInv, LockTypeOK, DeathFirst, Goto, Alive
<1>1. CASE UNCHANGED lockVars
  BY <1>1 DEF lockVars
<1>2. ASSUME NEW p \in Procs,
             Acquire(p) \/ Open(p) \/ GiveUp(p) \/ WriteOwner(p) \/ WriteOwnerFails(p) \/ ReadOwner(p)
      PROVE  DeathFirst'
  BY <1>2 DEF Acquire, Open, GiveUp, WriteOwner, WriteOwnerFails, ReadOwner
<1>3. ASSUME NEW p \in Procs, Judge(p) PROVE DeathFirst'
  <2>1. CASE pc[seen[p]] = "ended"
    <3>1. seen[p] \in Procs /\ seen[p] # p
      BY <1>3, <2>1 DEF Judge
    <3>2. pc'[seen[p]] = "ended"
      BY <1>3, <2>1, <3>1 DEF Judge
    <3>. QED  BY <3>1, <3>2
  <2>2. CASE pc[seen[p]] # "ended"
    BY <1>3, <2>2 DEF Judge
  <2>. QED  BY <2>1, <2>2
<1>4. ASSUME NEW p \in Procs, Reclaim(p) \/ Release(p) \/ Unlink(p) PROVE DeathFirst'
  BY <1>4 DEF Reclaim, Release, Unlink
<1>5. ASSUME NEW p \in Procs, End(p) PROVE DeathFirst'
  BY <1>5 DEF End
<1>. QED  BY <1>1, <1>2, <1>3, <1>4, <1>5 DEF LockNext, Continue

\* As long as no process has ended, the lock is exclusive, however opens, writes,
\* reads, failed writes and releases interleave.
THEOREM ExclusionAmongLiving == LockSpec => []ExclusiveWhileAllLive
<1>1. LockInit => DeathFirst
  BY DEF LockInit, DeathFirst
<1>2. LockInv /\ DeathFirst => ExclusiveWhileAllLive
  BY DEF LockInv, DeathFirst, ExclusiveWhileAllLive, MutualExclusion, Owning
<1>. QED  BY <1>1, <1>2, DeathComesFirst, LockInvariant, PTL DEF LockSpec

-----------------------------------------------------------------------------
(* KernelUpdater *)

\* A pointer to which one may go back.
Good(x) ==
  /\ x.version # None => Complete(x.version)
  /\ x.previous # None => Complete(x.previous) \/ x.previous \in interrupted

DiskSound ==
  /\ Good(pointer)
  /\ \A v \in Versions \ interrupted : dirs[v] # "torn"

Staged == {"fetching", "removing", "removed", "placing"}
Installing == Staged \cup {"staging"}
Ready == {"removing", "removed", "placing"}

\* What an operation under way relies on: what it installs is not active, its staging
\* directory is its own, what it removes is noted, the pointer is as it read it.
JobSound(p) ==
  /\ job[p].at \in Installing => job[p].version # pointer.version
  /\ job[p].at = "fetching" => staging[p] = "made"
  /\ job[p].at \in Ready => staging[p] = "whole"
  /\ job[p].at = "removed" => dirs[job[p].version] = "absent" \/ job[p].version \in interrupted
  /\ job[p].at = "switching" => Complete(job[p].version) /\ job[p].prev = pointer
  /\ job[p].at \in {"checking", "reverting"} => Good(job[p].prev)
  /\ job[p].at = "pruning" => pointer.version \notin job[p].list /\ pointer.previous \notin job[p].list

\* A staging directory belongs to an installation under way or to a process that is dead.
StagingOwned(p) == staging[p] # "none" => ~Alive(p) \/ job[p].at \in Staged

UpdaterInv ==
  /\ LockInv
  /\ UpdaterTypeOK
  /\ ~robbed => DiskSound /\ \A p \in Procs : JobSound(p) /\ StagingOwned(p)

-----------------------------------------------------------------------------
(* The lock *)

\* Every step of an updater is one of its lock, or leaves the lock alone.
LEMMA UpdaterTakesLockSteps == [Next]_vars => [LockNext]_lockVars
BY DEF Next, vars, Ask, Locking, Request, Work, ReleaseLock, Die, LockNext, ActivateVersion,
       EnsureInstalled, EnsureCompatible, Rollback, PruneVersions, ManifestFails, Stage, Fetch,
       FetchFails, BeginRemove, Remove, Place, Prune, Pruned, ReadPointer, SwitchPointer,
       HealthCheck, RevertPointer

\* Nothing makes a robbery undone, or a dead process alive.
LEMMA LockHistory ==
  ASSUME LockTypeOK, [LockNext]_lockVars
  PROVE  /\ robbed => robbed'
         /\ \A p \in Procs : ~Alive(p) => ~Alive(p)'
BY DEF LockTypeOK, LockNext, lockVars, Goto, Alive, Acquire, Continue, Release, End, Open, GiveUp,
       WriteOwner, WriteOwnerFails, ReadOwner, Judge, Reclaim, Unlink

\* Who holds the lock is alone: the others have nothing under way.
LEMMA Alone ==
  ASSUME UpdaterInv, ~robbed, NEW p \in Procs, pc[p] = "held", NEW q \in Procs, q # p
  PROVE  job[q].at = "none" /\ pc[q] # "held"
BY DEF UpdaterInv, UpdaterTypeOK, LockInv, Owning

-----------------------------------------------------------------------------
(* The inductive invariant *)

\* It holds at the beginning.
LEMMA UpdaterInvInit == Init => UpdaterInv
<1>. SUFFICES ASSUME Init PROVE UpdaterInv
  OBVIOUS
<1>1. LockInv
  BY LockInitInv DEF Init
<1>2. None \notin Versions /\ MaxCalls \in Nat /\ Ailing \subseteq SUBSET Versions
  BY UpdaterAssumption DEF UpdaterAssumption
<1>3. PICK S \in SUBSET Versions :
        /\ dirs = [v \in Versions |-> IF v \in S THEN "whole" ELSE "absent"]
        /\ \/ pointer = NoPointer
           \/ /\ pointer \in [version : S \ sick, previous : (S \ sick) \cup {None}]
              /\ pointer.version # pointer.previous
  BY DEF Init
<1>4. pointer \in Pointers /\ Good(pointer)
  BY <1>2, <1>3 DEF NoPointer, Pointers, Good, Complete
<1>5. NoJob \in Jobs /\ NoJob.at = "none"
  BY DEF NoJob, Jobs, NoPointer, Pointers
<1>6. /\ job = [p \in Procs |-> NoJob] /\ staging = [p \in Procs |-> "none"] /\ sick \subseteq Versions
      /\ calls = 0 /\ interrupted = {} /\ upset = FALSE
  BY <1>2 DEF Init
<1>7. UpdaterTypeOK
  <2>1. dirs \in [Versions -> Contents]
    BY <1>3 DEF Contents
  <2>2. /\ staging \in [Procs -> {"none", "made", "torn", "whole"}] /\ job \in [Procs -> Jobs]
        /\ \A q \in Procs : job[q].at = "none"
    BY <1>5, <1>6
  <2>3. calls \in 0..MaxCalls
    BY <1>2, <1>6
  <2>4. interrupted \subseteq Versions
    BY <1>6
  <2>5. upset \in BOOLEAN
    BY <1>6, Zenon
  <2>. QED  BY <1>4, <1>6, <2>1, <2>2, <2>3, <2>4, <2>5 DEF UpdaterTypeOK
<1>8. DiskSound
  BY <1>3, <1>4 DEF DiskSound
<1>9. \A p \in Procs : JobSound(p) /\ StagingOwned(p)
  BY <1>5, <1>6 DEF JobSound, StagingOwned, Installing, Staged, Ready
<1>. QED  BY <1>1, <1>7, <1>8, <1>9 DEF UpdaterInv

\* An operation ends, or is cut short, or the lock is taken: the disk stays as it is.
LEMMA LockStepKeeps ==
  ASSUME UpdaterInv, NEW p \in Procs, Ask(p) \/ Locking(p) \/ ReleaseLock(p) \/ Die(p),
         LockInv', robbed => robbed', \A q \in Procs : ~Alive(q) => ~Alive(q)'
  PROVE  UpdaterInv'
<1>1. UpdaterTypeOK /\ LockTypeOK
  BY DEF UpdaterInv, LockInv
<1>2. NoJob \in Jobs /\ NoJob.at = "none"
  BY DEF NoJob, Jobs, NoPointer, Pointers
<1>3. /\ UNCHANGED <<dirs, pointer, staging, sick, interrupted>>
      /\ calls' \in 0..MaxCalls /\ upset' \in BOOLEAN
      /\ job' = job \/ job' = [job EXCEPT ![p] = NoJob]
  <2>1. MaxCalls \in Nat
    BY UpdaterAssumption DEF UpdaterAssumption
  <2>2. CASE Ask(p)
    BY <1>1, <2>1, <2>2 DEF Ask, UpdaterTypeOK
  <2>3. CASE Locking(p)
    BY <1>1, <2>3 DEF Locking, updaterVars, UpdaterTypeOK
  <2>4. CASE ReleaseLock(p)
    BY <1>1, <2>4 DEF ReleaseLock, Set, History, UpdaterTypeOK
  <2>5. CASE Die(p)
    BY <1>1, <2>5 DEF Die, Set, UpdaterTypeOK
  <2>. QED  BY <2>2, <2>3, <2>4, <2>5
<1>4. \A q \in Procs : q # p => pc'[q] = pc[q]
  BY <1>1 DEF LockTypeOK, Ask, Locking, ReleaseLock, Die, Acquire, Continue, Release, End, Open, GiveUp,
              WriteOwner, WriteOwnerFails, ReadOwner, Judge, Reclaim, Unlink, Goto
<1>5. job'[p].at = "none"
  <2>1. CASE Ask(p) \/ Locking(p)
    <3>1. pc[p] # "held" /\ job' = job
      BY <2>1 DEF Ask, Locking, updaterVars, Acquire, Continue, Open, GiveUp, WriteOwner,
                  WriteOwnerFails, ReadOwner, Judge, Reclaim, Unlink
    <3>. QED  BY <1>1, <3>1 DEF UpdaterTypeOK
  <2>2. CASE ReleaseLock(p) \/ Die(p)
    BY <1>1, <1>2, <2>2 DEF ReleaseLock, Die, Set, UpdaterTypeOK
  <2>. QED  BY <2>1, <2>2
<1>6. \A q \in Procs : q # p => job'[q] = job[q]
  BY <1>1, <1>3 DEF UpdaterTypeOK
<1>7. UpdaterTypeOK'
  <2>1. job' \in [Procs -> Jobs]
    BY <1>1, <1>2, <1>3 DEF UpdaterTypeOK
  <2>2. \A q \in Procs : /\ job'[q].at # "none" => pc'[q] = "held"
                         /\ job'[q].at \notin {"none", "done", "pruning"} => job'[q].version \in Versions
                         /\ job'[q].at \in Ready => staging'[q] # "made"
    BY <1>1, <1>3, <1>4, <1>5, <1>6 DEF UpdaterTypeOK, Ready
  <2>. QED  BY <1>1, <1>3, <2>1, <2>2 DEF UpdaterTypeOK, Ready
<1>8. ASSUME ~robbed'
      PROVE  DiskSound' /\ \A q \in Procs : JobSound(q)' /\ StagingOwned(q)'
  <2>1. ~robbed /\ DiskSound /\ \A q \in Procs : JobSound(q) /\ StagingOwned(q)
    BY <1>8 DEF UpdaterInv
  <2>2. DiskSound'
    BY <1>3, <2>1 DEF DiskSound, Good, Complete
  <2>3. ASSUME NEW q \in Procs
        PROVE  JobSound(q)'
    <3>1. CASE q = p
      BY <1>5, <3>1 DEF JobSound, Installing, Staged, Ready
    <3>2. CASE q # p
      BY <1>3, <1>6, <2>1, <3>2 DEF JobSound, Good, Complete
    <3>. QED  BY <3>1, <3>2
  <2>4. ASSUME NEW q \in Procs
        PROVE  StagingOwned(q)'
    <3>1. CASE q # p
      BY <1>3, <1>6, <2>1, <3>1 DEF StagingOwned
    <3>2. CASE q = p
      <4>1. CASE Die(p)
        BY <1>1, <3>2, <4>1 DEF Die, End, Goto, Alive, LockTypeOK, StagingOwned
      <4>2. CASE Ask(p) \/ Locking(p) \/ ReleaseLock(p)
        <5>1. job[p].at \notin Staged
          BY <1>1, <1>5, <4>2 DEF Ask, Locking, updaterVars, ReleaseLock, At, Staged
        <5>. QED  BY <1>3, <2>1, <3>2, <5>1 DEF StagingOwned
      <4>. QED  BY <4>1, <4>2
    <3>. QED  BY <3>1, <3>2
  <2>. QED  BY <2>2, <2>3, <2>4
<1>. QED  BY <1>7, <1>8 DEF UpdaterInv

\* A step of the process that holds the lock disturbs nobody else.
LEMMA HolderKeeps ==
  ASSUME UpdaterInv, NEW p \in Procs, pc[p] = "held", UNCHANGED <<lockVars, sick, calls, upset>>,
         NEW new \in Jobs, job' = [job EXCEPT ![p] = new],
         new.at \notin {"none", "done", "pruning"} => new.version \in Versions,
         new.at \in Ready => staging'[p] # "made",
         dirs' \in [Versions -> Contents], pointer' \in Pointers, interrupted' \subseteq Versions,
         staging' \in [Procs -> {"none", "made", "torn", "whole"}],
         \A q \in Procs : q # p => staging'[q] \in {staging[q], "none"},
         ~robbed => DiskSound' /\ JobSound(p)' /\ StagingOwned(p)'
  PROVE  UpdaterInv'
<1>1. UpdaterTypeOK
  BY DEF UpdaterInv
<1>2. LockInv'
  BY DEF UpdaterInv, LockInv, LockTypeOK, Owning, lockVars
<1>3. job'[p] = new /\ \A q \in Procs : q # p => job'[q] = job[q]
  BY <1>1 DEF UpdaterTypeOK
<1>4. UpdaterTypeOK'
  BY <1>1, <1>3 DEF UpdaterTypeOK, Ready, lockVars
<1>5. ASSUME ~robbed, NEW q \in Procs, q # p
      PROVE  JobSound(q)' /\ StagingOwned(q)'
  <2>1. job'[q].at = "none" /\ job[q].at = "none"
    BY <1>3, <1>5, Alone
  <2>2. JobSound(q)'
    BY <2>1 DEF JobSound, Installing, Staged, Ready
  <2>3. staging[q] # "none" => ~Alive(q)
    BY <1>5, <2>1 DEF UpdaterInv, StagingOwned, Staged
  <2>4. Alive(q)' = Alive(q)
    BY DEF Alive, lockVars
  <2>5. StagingOwned(q)'
    BY <1>5, <2>3, <2>4 DEF StagingOwned
  <2>. QED  BY <2>2, <2>5
<1>. QED  BY <1>2, <1>4, <1>5 DEF UpdaterInv, lockVars

-----------------------------------------------------------------------------
(* The steps of an operation *)

\* What stays the same when the holder only turns to something else.
LEMMA TurnKeeps ==
  ASSUME UpdaterInv, NEW p \in Procs, pc[p] = "held",
         UNCHANGED <<lockVars, dirs, pointer, staging, History>>,
         NEW new \in Jobs, job' = [job EXCEPT ![p] = new],
         new.at \notin {"none", "done", "pruning"} => new.version \in Versions, new.at \notin Ready,
         ~robbed => JobSound(p)' /\ (staging[p] # "none" => new.at \in Staged)
  PROVE  UpdaterInv'
<1>1. UpdaterTypeOK /\ job'[p] = new
  BY DEF UpdaterInv, UpdaterTypeOK
<1>2. ~robbed => DiskSound'
  BY DEF UpdaterInv, DiskSound, Good, Complete, History
<1>3. ~robbed => StagingOwned(p)'
  BY <1>1 DEF StagingOwned
<1>4. UNCHANGED <<lockVars, sick, calls, upset, dirs, pointer, staging, interrupted>>
  BY DEF History
<1>5. /\ dirs' \in [Versions -> Contents] /\ pointer' \in Pointers /\ interrupted' \subseteq Versions
      /\ staging' \in [Procs -> {"none", "made", "torn", "whole"}]
  BY <1>1, <1>4 DEF UpdaterTypeOK
<1>. QED  BY <1>2, <1>3, <1>4, <1>5, HolderKeeps

\* An operation starts, in one of the ways in which they do.
LEMMA StartKeeps ==
  ASSUME UpdaterInv, NEW p \in Procs, At(p, "none"),
         UNCHANGED <<lockVars, dirs, pointer, staging, History>>,
         NEW new \in Jobs, job' = [job EXCEPT ![p] = new],
         new.at \in {"staging", "activating", "pruning", "done"},
         new.at \in {"staging", "activating"} => new.version \in Versions,
         new.at = "staging" /\ ~robbed => new.version # pointer.version,
         new.at = "pruning" => pointer.version \notin new.list /\ pointer.previous \notin new.list
  PROVE  UpdaterInv'
<1>1. pc[p] = "held" /\ job'[p] = new
  BY DEF At, UpdaterInv, UpdaterTypeOK
<1>2. ~robbed => staging[p] = "none"
  BY <1>1 DEF UpdaterInv, StagingOwned, At, Staged, Alive
<1>3. ~robbed => JobSound(p)'
  BY <1>1 DEF JobSound, Installing, Staged, Ready
<1>. QED  BY <1>1, <1>2, <1>3, TurnKeeps DEF Ready

\* Install reuses what is there, refuses, or begins to install what is not active.
LEMMA InstallKeeps ==
  ASSUME UpdaterInv, NEW p \in Procs, At(p, "none"), NEW v \in Versions, NEW force \in BOOLEAN,
         NEW then \in {"done", "activating"}, Install(p, v, force, then),
         UNCHANGED <<lockVars, dirs, pointer, staging, History>>
  PROVE  UpdaterInv'
<1>1. UpdaterTypeOK /\ v # None
  BY UpdaterAssumption DEF UpdaterInv, UpdaterAssumption
<1>2. CASE Complete(v) /\ ~force
  <2> DEFINE new == [NoJob EXCEPT !.at = then, !.version = v]
  <2>1. new \in Jobs /\ new.at = then /\ new.version = v
    BY DEF NoJob, Jobs, NoPointer, Pointers
  <2>2. job' = [job EXCEPT ![p] = new]
    BY <1>2 DEF Install, Set
  <2> HIDE DEF new
  <2>. QED  BY <2>1, <2>2, StartKeeps
<1>3. CASE ~(Complete(v) /\ ~force) /\ Complete(v) /\ pointer.version = v
  <2> DEFINE new == [job[p] EXCEPT !.at = "done"]
  <2>1. new \in Jobs /\ new.at = "done"
    BY <1>1 DEF UpdaterTypeOK, Jobs
  <2>2. job' = [job EXCEPT ![p] = new]
    BY <1>3 DEF Install, Finish, Become, Set
  <2> HIDE DEF new
  <2>. QED  BY <2>1, <2>2, StartKeeps
<1>4. CASE ~(Complete(v) /\ ~force) /\ ~(Complete(v) /\ pointer.version = v)
  <2> DEFINE new == [NoJob EXCEPT !.at = "staging", !.version = v, !.then = then]
  <2>1. new \in Jobs /\ new.at = "staging" /\ new.version = v
    BY DEF NoJob, Jobs, NoPointer, Pointers
  <2>2. job' = [job EXCEPT ![p] = new]
    BY <1>4 DEF Install, Set
  <2>3. ~robbed => v # pointer.version
    BY <1>1, <1>4 DEF UpdaterInv, DiskSound, Good
  <2> HIDE DEF new
  <2>. QED  BY <2>1, <2>2, <2>3, StartKeeps
<1>. QED  BY <1>2, <1>3, <1>4

\* The other operations start.
LEMMA RequestKeeps == ASSUME UpdaterInv, NEW p \in Procs, Request(p) PROVE UpdaterInv'
<1>1. UpdaterTypeOK
  BY DEF UpdaterInv
<1> DEFINE Go(v) == [NoJob EXCEPT !.at = "activating", !.version = v]
           Over == [job[p] EXCEPT !.at = "done"]
<1>2. \A v \in Versions : Go(v) \in Jobs /\ Go(v).at = "activating" /\ Go(v).version = v
  BY DEF NoJob, Jobs, NoPointer, Pointers
<1>3. Over \in Jobs /\ Over.at = "done"
  BY <1>1 DEF UpdaterTypeOK, Jobs
<1>4. ASSUME NEW v \in Versions, ActivateVersion(p, v) PROVE UpdaterInv'
  <2>1. job' = [job EXCEPT ![p] = Go(v)] /\ At(p, "none")
        /\ UNCHANGED <<lockVars, dirs, pointer, staging, History>>
    BY <1>4 DEF ActivateVersion, Set
  <2> HIDE DEF Go, Over
  <2>. QED  BY <1>2, <2>1, StartKeeps
<1>5. ASSUME NEW v \in Versions, NEW force \in BOOLEAN, EnsureInstalled(p, v, force) PROVE UpdaterInv'
  BY <1>5, InstallKeeps DEF EnsureInstalled
<1>6. ASSUME NEW allowed \in (SUBSET Versions) \ {{}}, EnsureCompatible(p, allowed) PROVE UpdaterInv'
  <2>1. At(p, "none") /\ UNCHANGED <<lockVars, dirs, pointer, staging, History>>
    BY <1>6 DEF EnsureCompatible
  <2>2. \/ job' = [job EXCEPT ![p] = Over]
        \/ \E v \in allowed : job' = [job EXCEPT ![p] = Go(v)]
        \/ \E v \in allowed : Install(p, v, FALSE, "activating")
    BY <1>6 DEF EnsureCompatible, Finish, Become, Set
  <2>3. allowed \subseteq Versions
    OBVIOUS
  <2> HIDE DEF Go, Over
  <2>. QED  BY <1>2, <1>3, <2>1, <2>2, <2>3, StartKeeps, InstallKeeps
<1>7. CASE Rollback(p)
  <2>1. At(p, "none") /\ UNCHANGED <<lockVars, dirs, pointer, staging, History>>
    BY <1>7 DEF Rollback
  <2>2. \/ job' = [job EXCEPT ![p] = Over]
        \/ pointer.previous # None /\ job' = [job EXCEPT ![p] = Go(pointer.previous)]
    BY <1>7 DEF Rollback, Finish, Become, Set
  <2>3. pointer.previous # None => pointer.previous \in Versions
    BY <1>1 DEF UpdaterTypeOK, Pointers
  <2> HIDE DEF Go, Over
  <2>. QED  BY <1>2, <1>3, <2>1, <2>2, <2>3, StartKeeps
<1>8. CASE PruneVersions(p)
  <2> DEFINE new == [NoJob EXCEPT !.at = "pruning", !.list = Excess]
  <2>1. Excess \subseteq Versions /\ pointer.version \notin Excess /\ pointer.previous \notin Excess
    <3>1. None \notin Versions
      BY UpdaterAssumption DEF UpdaterAssumption
    <3>2. Excess \subseteq Removable
      BY DEF Excess
    <3>3. Removable \subseteq Versions /\ pointer.version \notin Removable /\ pointer.previous \notin Removable
      BY <3>1 DEF Removable, Protected
    <3>. QED  BY <3>2, <3>3
  <2>2. new \in Jobs /\ new.at = "pruning" /\ new.list = Excess
    BY <2>1 DEF NoJob, Jobs, NoPointer, Pointers
  <2>3. At(p, "none") /\ UNCHANGED <<lockVars, dirs, pointer, staging, History>> /\ job' = [job EXCEPT ![p] = new]
    BY <1>8 DEF PruneVersions, Set
  <2> HIDE DEF new
  <2>. QED  BY <2>1, <2>2, <2>3, StartKeeps
<1>. QED  BY <1>4, <1>5, <1>6, <1>7, <1>8 DEF Request

\* What is known of the holder and its operation.
LEMMA HolderFacts ==
  ASSUME UpdaterInv, NEW p \in Procs
  PROVE  /\ UpdaterTypeOK /\ None \notin Versions /\ job[p] \in Jobs
         /\ ~robbed => DiskSound /\ JobSound(p) /\ StagingOwned(p)
         /\ \A label : [job[p] EXCEPT !.at = label].at = label
BY UpdaterAssumption DEF UpdaterInv, UpdaterTypeOK, UpdaterAssumption, Jobs

\* The operation turns to its next step.
LEMMA BecomeGives ==
  ASSUME UpdaterTypeOK, NEW p \in Procs, NEW label, Become(p, label),
         label \in {"none", "staging", "fetching", "removing", "removed", "placing", "activating",
                    "switching", "checking", "reverting", "pruning", "done"}
  PROVE  /\ [job[p] EXCEPT !.at = label] \in Jobs
         /\ job' = [job EXCEPT ![p] = [job[p] EXCEPT !.at = label]]
         /\ job'[p].at = label /\ job'[p].version = job[p].version
         /\ job'[p].prev = job[p].prev /\ job'[p].list = job[p].list
BY DEF UpdaterTypeOK, Jobs, Become, Set

\* Steps that leave the disk alone and turn to a step without conditions, or back to what
\* went before.
LEMMA QuietKeeps ==
  ASSUME UpdaterInv, NEW p \in Procs, ManifestFails(p) \/ Pruned(p) \/ HealthCheck(p)
  PROVE  UpdaterInv'
<1>0. UpdaterTypeOK /\ (~robbed => DiskSound /\ JobSound(p) /\ StagingOwned(p))
  BY HolderFacts
<1>1. PICK label \in {"done", "reverting"} :
        Become(p, label) /\ (label = "reverting" => job[p].at = "checking")
  BY DEF ManifestFails, Pruned, HealthCheck, Finish, At
<1>2. pc[p] = "held" /\ UNCHANGED <<lockVars, dirs, pointer, staging, History>>
      /\ job[p].at \in {"staging", "pruning", "checking"}
  BY DEF ManifestFails, Pruned, HealthCheck, At
<1> DEFINE new == [job[p] EXCEPT !.at = label]
<1>3. /\ new \in Jobs /\ job' = [job EXCEPT ![p] = new] /\ job'[p].at = label
      /\ job'[p].prev = job[p].prev /\ job'[p].version = job[p].version
  BY <1>0, <1>1, BecomeGives
<1>4. new = job'[p]
  BY <1>0, <1>3 DEF UpdaterTypeOK
<1>5. ~robbed => JobSound(p)' /\ staging[p] = "none"
  BY <1>0, <1>1, <1>2, <1>3 DEF JobSound, StagingOwned, Installing, Staged, Ready, Good, Complete, History, Alive
<1>6. (new.at \notin {"none", "done", "pruning"} => new.version \in Versions) /\ new.at \notin Ready
  BY <1>0, <1>1, <1>3, <1>4 DEF UpdaterTypeOK, Ready
<1> HIDE DEF new
<1>. QED  BY <1>2, <1>3, <1>5, <1>6, TurnKeeps DEF Ready

\* installVersion in its staging directory
LEMMA StagingKeeps ==
  ASSUME UpdaterInv, NEW p \in Procs, Stage(p) \/ Fetch(p) \/ FetchFails(p)
  PROVE  UpdaterInv'
<1>0. UpdaterTypeOK /\ (~robbed => DiskSound /\ JobSound(p) /\ StagingOwned(p))
  BY HolderFacts
<1>1. /\ pc[p] = "held" /\ job[p].at \in {"staging", "fetching"}
      /\ UNCHANGED <<lockVars, sick, calls, upset, dirs, pointer, interrupted>>
  BY DEF Stage, Fetch, FetchFails, At, History
<1>2. /\ staging' \in [Procs -> {"none", "made", "torn", "whole"}]
      /\ \A q \in Procs : q # p => staging'[q] \in {staging[q], "none"}
  BY <1>0 DEF Stage, Fetch, FetchFails, UpdaterTypeOK
<1>3. PICK label \in {"fetching", "removing", "done"} :
        /\ Become(p, label)
        /\ label = "removing" => staging'[p] # "made"
        /\ ~robbed => /\ label = "fetching" => staging'[p] = "made"
                      /\ label = "removing" => staging'[p] = "whole"
                      /\ label = "done" => staging'[p] = "none"
  <2>1. CASE Stage(p)
    BY <2>1 DEF Stage
  <2>2. CASE Fetch(p)
    <3>1. ~robbed => staging[p] = "made"
      BY <1>0, <2>2 DEF Fetch, At, JobSound
    <3>2. /\ Become(p, IF staging'[p] = "none" THEN "done" ELSE "removing")
          /\ staging'[p] # "made"
          /\ (staging[p] = "made" => staging'[p] = "whole")
      BY <1>0, <2>2 DEF Fetch, UpdaterTypeOK
    <3>. QED  BY <3>1, <3>2
  <2>3. CASE FetchFails(p)
    BY <1>0, <2>3 DEF FetchFails, Finish, UpdaterTypeOK
  <2>. QED  BY <2>1, <2>2, <2>3
<1> DEFINE new == [job[p] EXCEPT !.at = label]
<1>4. /\ new \in Jobs /\ job' = [job EXCEPT ![p] = new] /\ job'[p].at = label
      /\ job'[p].version = job[p].version
  BY <1>0, <1>3, BecomeGives
<1>5. new = job'[p]
  BY <1>0, <1>4 DEF UpdaterTypeOK
<1>6. /\ new.at \notin {"none", "done", "pruning"} => new.version \in Versions
      /\ new.at \in Ready => staging'[p] # "made"
  BY <1>0, <1>1, <1>3, <1>4, <1>5 DEF UpdaterTypeOK, Ready
<1>7. ~robbed => DiskSound'
  BY <1>0, <1>1 DEF DiskSound, Good, Complete
<1>8. ~robbed => JobSound(p)' /\ StagingOwned(p)'
  BY <1>0, <1>1, <1>3, <1>4 DEF JobSound, StagingOwned, Installing, Staged, Ready
<1>9. dirs' \in [Versions -> Contents] /\ pointer' \in Pointers /\ interrupted' \subseteq Versions
  BY <1>0, <1>1 DEF UpdaterTypeOK
<1> HIDE DEF new
<1>. QED  BY <1>1, <1>2, <1>4, <1>6, <1>7, <1>8, <1>9, HolderKeeps

\* The old directory goes: what is torn is noted, and is not the active version.
LEMMA BeginRemoveKeeps == ASSUME UpdaterInv, NEW p \in Procs, BeginRemove(p) PROVE UpdaterInv'
<1>0. UpdaterTypeOK /\ (~robbed => DiskSound /\ JobSound(p) /\ StagingOwned(p))
  BY HolderFacts
<1> DEFINE v == job[p].version
<1>1. /\ pc[p] = "held" /\ job[p].at = "removing" /\ Become(p, "removed")
      /\ UNCHANGED <<lockVars, pointer, staging, sick, calls, upset>>
      /\ interrupted' = IF dirs[v] = "absent" THEN interrupted ELSE interrupted \cup {v}
      /\ Tearing(v)
  BY DEF BeginRemove, At
<1>2. v \in Versions
  BY <1>0, <1>1 DEF UpdaterTypeOK
<1>3. /\ dirs' \in [Versions -> Contents] /\ \A w \in Versions : w # v => dirs'[w] = dirs[w]
      /\ dirs[v] = "absent" => dirs'[v] = "absent"
  BY <1>0, <1>1, <1>2 DEF Tearing, UpdaterTypeOK, Contents
<1> DEFINE new == [job[p] EXCEPT !.at = "removed"]
<1>4. /\ new \in Jobs /\ job' = [job EXCEPT ![p] = new] /\ job'[p].at = "removed"
      /\ job'[p].version = v
  BY <1>0, <1>1, BecomeGives
<1>5. new = job'[p]
  BY <1>0, <1>4 DEF UpdaterTypeOK
<1>6. ASSUME ~robbed
      PROVE  DiskSound' /\ JobSound(p)' /\ StagingOwned(p)'
  <2>1. v # pointer.version
    BY <1>0, <1>1, <1>6 DEF JobSound, Installing, Staged, Ready
  <2>2. pointer.version # None => Complete(pointer.version)'
    BY <1>0, <1>1, <1>3, <1>6, <2>1 DEF DiskSound, Good, Complete, UpdaterTypeOK, Pointers
  <2>3. pointer.previous # None => Complete(pointer.previous)' \/ pointer.previous \in interrupted'
    BY <1>0, <1>1, <1>2, <1>3, <1>6 DEF DiskSound, Good, Complete, UpdaterTypeOK, Pointers
  <2>4. \A w \in Versions \ interrupted' : dirs'[w] # "torn"
    BY <1>0, <1>1, <1>2, <1>3, <1>6 DEF DiskSound
  <2>5. DiskSound'
    BY <1>1, <2>2, <2>3, <2>4 DEF DiskSound, Good, Complete
  <2>6. JobSound(p)' /\ StagingOwned(p)'
    BY <1>0, <1>1, <1>3, <1>4, <1>6, <2>1 DEF JobSound, StagingOwned, Installing, Staged, Ready
  <2>. QED  BY <2>5, <2>6
<1>7. /\ new.at \notin {"none", "done", "pruning"} => new.version \in Versions
      /\ new.at \in Ready => staging'[p] # "made"
      /\ pointer' \in Pointers /\ interrupted' \subseteq Versions
      /\ staging' \in [Procs -> {"none", "made", "torn", "whole"}]
      /\ \A q \in Procs : q # p => staging'[q] \in {staging[q], "none"}
  BY <1>0, <1>1, <1>2, <1>4, <1>5 DEF UpdaterTypeOK, Ready
<1> HIDE DEF new
<1>. QED  BY <1>1, <1>3, <1>4, <1>6, <1>7, HolderKeeps

\* It is gone.
LEMMA RemoveKeeps == ASSUME UpdaterInv, NEW p \in Procs, Remove(p) PROVE UpdaterInv'
<1>0. UpdaterTypeOK /\ (~robbed => DiskSound /\ JobSound(p) /\ StagingOwned(p))
  BY HolderFacts
<1> DEFINE v == job[p].version
<1>1. /\ pc[p] = "held" /\ job[p].at = "removed" /\ Become(p, "placing")
      /\ UNCHANGED <<lockVars, pointer, staging, sick, calls, upset, interrupted>>
      /\ dirs' = [dirs EXCEPT ![v] = "absent"]
  BY DEF Remove, At, History
<1>2. v \in Versions
  BY <1>0, <1>1 DEF UpdaterTypeOK
<1>3. /\ dirs' \in [Versions -> Contents] /\ \A w \in Versions : w # v => dirs'[w] = dirs[w]
      /\ dirs'[v] = "absent"
  BY <1>0, <1>1, <1>2 DEF UpdaterTypeOK, Contents
<1> DEFINE new == [job[p] EXCEPT !.at = "placing"]
<1>4. /\ new \in Jobs /\ job' = [job EXCEPT ![p] = new] /\ job'[p].at = "placing"
      /\ job'[p].version = v
  BY <1>0, <1>1, BecomeGives
<1>5. new = job'[p]
  BY <1>0, <1>4 DEF UpdaterTypeOK
<1>6. ASSUME ~robbed
      PROVE  DiskSound' /\ JobSound(p)' /\ StagingOwned(p)'
  <2>1. v # pointer.version /\ (dirs[v] = "absent" \/ v \in interrupted)
    BY <1>0, <1>1, <1>6 DEF JobSound, Installing, Staged, Ready
  <2>2. pointer.version # None => Complete(pointer.version)'
    BY <1>0, <1>1, <1>3, <1>6, <2>1 DEF DiskSound, Good, Complete, UpdaterTypeOK, Pointers
  <2>3. pointer.previous # None => Complete(pointer.previous)' \/ pointer.previous \in interrupted
    BY <1>0, <1>1, <1>2, <1>3, <1>6, <2>1 DEF DiskSound, Good, Complete, UpdaterTypeOK, Pointers
  <2>4. \A w \in Versions \ interrupted : dirs'[w] # "torn"
    BY <1>0, <1>2, <1>3, <1>6 DEF DiskSound
  <2>5. DiskSound'
    BY <1>1, <2>2, <2>3, <2>4 DEF DiskSound, Good, Complete
  <2>6. JobSound(p)' /\ StagingOwned(p)'
    BY <1>0, <1>1, <1>4, <1>6, <2>1 DEF JobSound, StagingOwned, Installing, Staged, Ready
  <2>. QED  BY <2>5, <2>6
<1>7. /\ new.at \notin {"none", "done", "pruning"} => new.version \in Versions
      /\ new.at \in Ready => staging'[p] # "made"
      /\ pointer' \in Pointers /\ interrupted' \subseteq Versions
      /\ staging' \in [Procs -> {"none", "made", "torn", "whole"}]
      /\ \A q \in Procs : q # p => staging'[q] \in {staging[q], "none"}
  BY <1>0, <1>1, <1>2, <1>4, <1>5 DEF UpdaterTypeOK, Ready
<1> HIDE DEF new
<1>. QED  BY <1>1, <1>3, <1>4, <1>6, <1>7, HolderKeeps

\* The staged installation, which is whole, takes its place.
LEMMA PlaceKeeps == ASSUME UpdaterInv, NEW p \in Procs, Place(p) PROVE UpdaterInv'
<1>0. UpdaterTypeOK /\ (~robbed => DiskSound /\ JobSound(p) /\ StagingOwned(p))
  BY HolderFacts
<1> DEFINE v == job[p].version
           placed == staging[p] # "none" /\ dirs[v] = "absent"
<1>1. /\ pc[p] = "held" /\ job[p].at = "placing"
      /\ UNCHANGED <<lockVars, pointer, sick, calls, upset>>
      /\ dirs' = IF placed THEN [dirs EXCEPT ![v] = staging[p]] ELSE dirs
      /\ interrupted' = IF placed THEN interrupted \ {v} ELSE interrupted
      /\ staging' = [staging EXCEPT ![p] = "none"]
  BY DEF Place, At
<1>2. PICK label \in {"done", "activating"} : Become(p, label)
  BY <1>0 DEF Place, UpdaterTypeOK, Jobs
<1>3. v \in Versions
  BY <1>0, <1>1 DEF UpdaterTypeOK
<1>4. /\ \A w \in Versions : w # v => dirs'[w] = dirs[w] /\ (w \in interrupted' <=> w \in interrupted)
      /\ dirs'[v] = IF placed THEN staging[p] ELSE dirs[v]
  BY <1>0, <1>1, <1>3 DEF UpdaterTypeOK
<1> DEFINE new == [job[p] EXCEPT !.at = label]
<1>5. /\ new \in Jobs /\ job' = [job EXCEPT ![p] = new] /\ job'[p].at = label
      /\ job'[p].version = v
  BY <1>0, <1>2, BecomeGives
<1>6. new = job'[p]
  BY <1>0, <1>5 DEF UpdaterTypeOK
<1>7. ASSUME ~robbed
      PROVE  DiskSound' /\ JobSound(p)' /\ StagingOwned(p)'
  <2>1. staging[p] = "whole" /\ v # pointer.version
    BY <1>0, <1>1, <1>7 DEF JobSound, Installing, Staged, Ready
  <2>2. dirs'[v] = "whole" \/ (~placed /\ dirs' = dirs /\ interrupted' = interrupted)
    BY <1>1, <1>4, <2>1
  <2>3. pointer.version # None => Complete(pointer.version)'
    BY <1>0, <1>1, <1>4, <1>7, <2>1 DEF DiskSound, Good, Complete, UpdaterTypeOK, Pointers
  <2>4. pointer.previous # None => Complete(pointer.previous)' \/ pointer.previous \in interrupted'
    BY <1>0, <1>1, <1>4, <1>7, <2>2 DEF DiskSound, Good, Complete, UpdaterTypeOK, Pointers
  <2>5. \A w \in Versions \ interrupted' : dirs'[w] # "torn"
    BY <1>0, <1>4, <1>7, <2>2 DEF DiskSound
  <2>6. DiskSound'
    BY <1>1, <2>3, <2>4, <2>5 DEF DiskSound, Good, Complete
  <2>7. staging'[p] = "none"
    BY <1>0, <1>1 DEF UpdaterTypeOK
  <2>8. JobSound(p)' /\ StagingOwned(p)'
    BY <1>5, <2>7 DEF JobSound, StagingOwned, Installing, Staged, Ready
  <2>. QED  BY <2>6, <2>8
<1>8. /\ new.at \notin {"none", "done", "pruning"} => new.version \in Versions
      /\ new.at \in Ready => staging'[p] # "made"
      /\ pointer' \in Pointers /\ interrupted' \subseteq Versions
      /\ staging' \in [Procs -> {"none", "made", "torn", "whole"}]
      /\ \A q \in Procs : q # p => staging'[q] \in {staging[q], "none"}
  BY <1>0, <1>1, <1>3, <1>5, <1>6 DEF UpdaterTypeOK, Ready
<1>9. dirs' \in [Versions -> Contents]
  <2>0. staging[p] \in {"none", "torn", "whole"}
    BY <1>0, <1>1 DEF UpdaterTypeOK
  <2>1. placed => staging[p] \in Contents
    BY <2>0 DEF Contents
  <2>2. dirs \in [Versions -> Contents]
    BY <1>0 DEF UpdaterTypeOK
  <2> HIDE DEF placed
  <2>. QED  BY <1>1, <1>3, <2>1, <2>2
<1> HIDE DEF new
<1>. QED  BY <1>1, <1>5, <1>7, <1>8, <1>9, HolderKeeps

\* What is pruned is neither active nor the rollback target.
LEMMA PruneKeeps == ASSUME UpdaterInv, NEW p \in Procs, Prune(p) PROVE UpdaterInv'
<1>0. UpdaterTypeOK /\ (~robbed => DiskSound /\ JobSound(p) /\ StagingOwned(p))
  BY HolderFacts
<1>1. /\ pc[p] = "held" /\ job[p].at = "pruning"
      /\ UNCHANGED <<lockVars, pointer, staging, sick, calls, upset>>
  BY DEF Prune, At
<1>2. PICK v \in job[p].list :
        \/ /\ Tearing(v)
           /\ interrupted' = interrupted \cup {v}
           /\ UNCHANGED job
        \/ /\ dirs' = [dirs EXCEPT ![v] = "absent"]
           /\ job' = [job EXCEPT ![p] = [job[p] EXCEPT !.list = @ \ {v}]]
           /\ UNCHANGED interrupted
  BY DEF Prune, Set
<1>3. v \in Versions /\ job[p] \in Jobs
  BY <1>0 DEF UpdaterTypeOK, Jobs
<1>4. /\ dirs' \in [Versions -> Contents] /\ \A w \in Versions : w # v => dirs'[w] = dirs[w]
      /\ dirs'[v] # "torn" \/ v \in interrupted'
      /\ interrupted' \subseteq Versions /\ interrupted \subseteq interrupted'
  BY <1>0, <1>2, <1>3 DEF Tearing, UpdaterTypeOK, Contents
<1>5. PICK new \in Jobs : /\ job' = [job EXCEPT ![p] = new]
                          /\ new.at = "pruning" /\ new.list \subseteq job[p].list
  <2>1. CASE job' = job
    <3>1. job' = [job EXCEPT ![p] = job[p]]
      BY <1>0, <2>1 DEF UpdaterTypeOK
    <3>. QED  BY <1>1, <1>3, <3>1
  <2>2. CASE job' = [job EXCEPT ![p] = [job[p] EXCEPT !.list = @ \ {v}]]
    <3> DEFINE less == [job[p] EXCEPT !.list = @ \ {v}]
    <3>1. less \in Jobs /\ less.at = "pruning" /\ less.list \subseteq job[p].list
      BY <1>1, <1>3 DEF Jobs
    <3> HIDE DEF less
    <3>2. job' = [job EXCEPT ![p] = less]
      BY <2>2 DEF less
    <3>. QED  BY <3>1, <3>2
  <2>. QED  BY <1>2, <2>1, <2>2
<1>6. job'[p] = new
  BY <1>0, <1>5 DEF UpdaterTypeOK
<1>7. ASSUME ~robbed
      PROVE  DiskSound' /\ JobSound(p)' /\ StagingOwned(p)'
  <2>1. pointer.version \notin job[p].list /\ pointer.previous \notin job[p].list
    BY <1>0, <1>1, <1>7 DEF JobSound
  <2>2. pointer.version # None => Complete(pointer.version)'
    BY <1>0, <1>1, <1>2, <1>4, <1>7, <2>1 DEF DiskSound, Good, Complete, UpdaterTypeOK, Pointers
  <2>3. pointer.previous # None => Complete(pointer.previous)' \/ pointer.previous \in interrupted'
    BY <1>0, <1>1, <1>2, <1>4, <1>7, <2>1 DEF DiskSound, Good, Complete, UpdaterTypeOK, Pointers
  <2>4. \A w \in Versions \ interrupted' : dirs'[w] # "torn"
    BY <1>0, <1>4, <1>7 DEF DiskSound
  <2>5. DiskSound'
    BY <1>1, <2>2, <2>3, <2>4 DEF DiskSound, Good, Complete
  <2>6. staging[p] = "none"
    BY <1>0, <1>1, <1>7 DEF StagingOwned, Staged, Alive
  <2>7. JobSound(p)' /\ StagingOwned(p)'
    BY <1>1, <1>5, <1>6, <2>1, <2>6 DEF JobSound, StagingOwned, Installing, Staged, Ready
  <2>. QED  BY <2>5, <2>7
<1>8. /\ new.at \notin {"none", "done", "pruning"} => new.version \in Versions
      /\ new.at \in Ready => staging'[p] # "made"
      /\ pointer' \in Pointers
      /\ staging' \in [Procs -> {"none", "made", "torn", "whole"}]
      /\ \A q \in Procs : q # p => staging'[q] \in {staging[q], "none"}
  BY <1>0, <1>1, <1>5 DEF UpdaterTypeOK, Ready
<1>. QED  BY <1>1, <1>4, <1>5, <1>7, <1>8, HolderKeeps

-----------------------------------------------------------------------------
(* activate *)

\* The pointer is read when the version has its record.
LEMMA ReadPointerKeeps == ASSUME UpdaterInv, NEW p \in Procs, ReadPointer(p) PROVE UpdaterInv'
<1>0. UpdaterTypeOK /\ (~robbed => DiskSound /\ JobSound(p) /\ StagingOwned(p)) /\ job[p] \in Jobs
  BY HolderFacts
<1>1. /\ pc[p] = "held" /\ job[p].at = "activating"
      /\ UNCHANGED <<lockVars, dirs, pointer, staging, History>>
  BY DEF ReadPointer, At
<1>2. ~robbed => staging[p] = "none"
  BY <1>0, <1>1 DEF StagingOwned, Staged, Alive
<1>3. CASE Complete(job[p].version)
  <2> DEFINE new == [job[p] EXCEPT !.at = "switching", !.prev = pointer]
  <2>1. new \in Jobs /\ new.at = "switching" /\ new.prev = pointer /\ new.version = job[p].version
    BY <1>0 DEF Jobs, UpdaterTypeOK
  <2>2. job' = [job EXCEPT ![p] = new]
    BY <1>3 DEF ReadPointer, Set
  <2>3. job[p].version \in Versions
    BY <1>0, <1>1 DEF UpdaterTypeOK
  <2> HIDE DEF new
  <2>4. job'[p] = new
    BY <1>0, <2>2 DEF UpdaterTypeOK
  <2>5. JobSound(p)'
    BY <1>1, <1>3, <2>1, <2>4 DEF JobSound, Installing, Staged, Ready, Complete
  <2>. QED  BY <1>1, <1>2, <2>1, <2>2, <2>3, <2>5, TurnKeeps DEF Ready
<1>4. CASE ~Complete(job[p].version)
  <2> DEFINE new == [job[p] EXCEPT !.at = "done"]
  <2>1. new \in Jobs /\ new.at = "done"
    BY <1>0 DEF Jobs
  <2>2. job' = [job EXCEPT ![p] = new]
    BY <1>4 DEF ReadPointer, Set, Finish, Become
  <2> HIDE DEF new
  <2>3. job'[p] = new
    BY <1>0, <2>2 DEF UpdaterTypeOK
  <2>4. JobSound(p)'
    BY <2>1, <2>3 DEF JobSound, Installing, Staged, Ready
  <2>. QED  BY <1>1, <1>2, <2>1, <2>2, <2>4, TurnKeeps DEF Ready
<1>. QED  BY <1>3, <1>4

\* The active version changes to one that has its record; what was active is what one
\* may go back to.
LEMMA SwitchPointerKeeps == ASSUME UpdaterInv, NEW p \in Procs, SwitchPointer(p) PROVE UpdaterInv'
<1>0. UpdaterTypeOK /\ (~robbed => DiskSound /\ JobSound(p) /\ StagingOwned(p)) /\ job[p] \in Jobs
  BY HolderFacts
<1> DEFINE prev == job[p].prev
           v == job[p].version
<1>1. /\ pc[p] = "held" /\ job[p].at = "switching" /\ pointer' = Successor(prev, v)
      /\ UNCHANGED <<lockVars, dirs, staging, sick, calls, interrupted, upset>>
  BY DEF SwitchPointer, At, History
<1>2. PICK label \in {"checking", "done"} : Become(p, label)
  BY DEF SwitchPointer
<1>3. v \in Versions /\ prev \in Pointers
  BY <1>0, <1>1 DEF UpdaterTypeOK, Jobs
<1>4. pointer' \in Pointers
  BY <1>1, <1>3 DEF Successor, Pointers
<1> DEFINE new == [job[p] EXCEPT !.at = label]
<1>5. /\ new \in Jobs /\ job' = [job EXCEPT ![p] = new] /\ job'[p].at = label
      /\ job'[p].version = v /\ job'[p].prev = prev
  BY <1>0, <1>2, BecomeGives
<1>6. new = job'[p]
  BY <1>0, <1>5 DEF UpdaterTypeOK
<1>7. ASSUME ~robbed
      PROVE  DiskSound' /\ JobSound(p)' /\ StagingOwned(p)'
  <2>1. Complete(v) /\ Good(prev)
    BY <1>0, <1>1, <1>7 DEF JobSound, DiskSound
  <2>2. Good(Successor(prev, v))
    BY <2>1 DEF Good, Successor
  <2>3. Good(pointer)'
    BY <1>1, <2>2 DEF Good, Complete
  <2>4. DiskSound'
    BY <1>0, <1>1, <1>7, <2>3 DEF DiskSound
  <2>5. Good(job[p].prev)'
    BY <1>1, <1>5, <2>1 DEF Good, Complete
  <2>6. staging[p] = "none"
    BY <1>0, <1>1, <1>7 DEF StagingOwned, Staged, Alive
  <2>7. JobSound(p)' /\ StagingOwned(p)'
    BY <1>1, <1>5, <2>5, <2>6 DEF JobSound, StagingOwned, Installing, Staged, Ready
  <2>. QED  BY <2>4, <2>7
<1>8. /\ new.at \notin {"none", "done", "pruning"} => new.version \in Versions
      /\ new.at \in Ready => staging'[p] # "made"
      /\ dirs' \in [Versions -> Contents] /\ interrupted' \subseteq Versions
      /\ staging' \in [Procs -> {"none", "made", "torn", "whole"}]
      /\ \A q \in Procs : q # p => staging'[q] \in {staging[q], "none"}
  BY <1>0, <1>1, <1>3, <1>5, <1>6 DEF UpdaterTypeOK, Ready
<1> HIDE DEF new
<1>. QED  BY <1>1, <1>4, <1>5, <1>7, <1>8, HolderKeeps

\* It goes back to what it was.
LEMMA RevertPointerKeeps == ASSUME UpdaterInv, NEW p \in Procs, RevertPointer(p) PROVE UpdaterInv'
<1>0. UpdaterTypeOK /\ (~robbed => DiskSound /\ JobSound(p) /\ StagingOwned(p)) /\ job[p] \in Jobs
  BY HolderFacts
<1>1. /\ pc[p] = "held" /\ job[p].at = "reverting" /\ pointer' = job[p].prev /\ Become(p, "done")
      /\ UNCHANGED <<lockVars, dirs, staging, sick, calls, interrupted, upset>>
  BY DEF RevertPointer, Finish, At, History
<1> DEFINE new == [job[p] EXCEPT !.at = "done"]
<1>2. new \in Jobs /\ job' = [job EXCEPT ![p] = new] /\ job'[p].at = "done"
  BY <1>0, <1>1, BecomeGives
<1>3. new.at = "done" /\ new.at \notin Ready
  BY <1>0 DEF Jobs, Ready
<1>4. ASSUME ~robbed
      PROVE  DiskSound' /\ JobSound(p)' /\ StagingOwned(p)'
  <2>1. Good(job[p].prev)
    BY <1>0, <1>1, <1>4 DEF JobSound
  <2>2. Good(pointer)'
    BY <1>1, <2>1 DEF Good, Complete
  <2>3. DiskSound'
    BY <1>0, <1>1, <1>4, <2>2 DEF DiskSound
  <2>4. staging[p] = "none"
    BY <1>0, <1>1, <1>4 DEF StagingOwned, Staged, Alive
  <2>5. JobSound(p)' /\ StagingOwned(p)'
    BY <1>1, <1>2, <2>4 DEF JobSound, StagingOwned, Installing, Staged, Ready
  <2>. QED  BY <2>3, <2>5
<1>5. /\ pointer' \in Pointers /\ dirs' \in [Versions -> Contents] /\ interrupted' \subseteq Versions
      /\ staging' \in [Procs -> {"none", "made", "torn", "whole"}]
      /\ \A q \in Procs : q # p => staging'[q] \in {staging[q], "none"}
  BY <1>0, <1>1 DEF UpdaterTypeOK, Jobs
<1> HIDE DEF new
<1>. QED  BY <1>1, <1>2, <1>3, <1>4, <1>5, HolderKeeps

-----------------------------------------------------------------------------
(* The theorems *)

\* Every step keeps the invariant.
LEMMA UpdaterInvStep == UpdaterInv /\ [Next]_vars => UpdaterInv'
<1>. SUFFICES ASSUME UpdaterInv, [Next]_vars PROVE UpdaterInv'
  OBVIOUS
<1>1. LockInv /\ LockTypeOK /\ [LockNext]_lockVars
  BY UpdaterTakesLockSteps DEF UpdaterInv, LockInv
<1>2. LockInv' /\ (robbed => robbed') /\ \A q \in Procs : ~Alive(q) => ~Alive(q)'
  BY <1>1, LockNextInv, LockHistory
<1>3. CASE UNCHANGED vars
  <2>1. UpdaterTypeOK'
    BY <1>3 DEF UpdaterInv, UpdaterTypeOK, vars, lockVars, updaterVars
  <2>2. ~robbed => DiskSound' /\ \A p \in Procs : JobSound(p)' /\ StagingOwned(p)'
    BY <1>3 DEF UpdaterInv, DiskSound, JobSound, StagingOwned, Good, Complete, Alive,
                vars, lockVars, updaterVars
  <2>. QED  BY <1>2, <1>3, <2>1, <2>2 DEF UpdaterInv, vars, lockVars
<1>4. ASSUME NEW p \in Procs, Ask(p) \/ Locking(p) \/ ReleaseLock(p) \/ Die(p) PROVE UpdaterInv'
  BY <1>2, <1>4, LockStepKeeps
<1>5. ASSUME NEW p \in Procs, Request(p) PROVE UpdaterInv'
  BY <1>5, RequestKeeps
<1>6. ASSUME NEW p \in Procs, Work(p) PROVE UpdaterInv'
  BY <1>6, QuietKeeps, StagingKeeps, BeginRemoveKeeps, RemoveKeeps, PlaceKeeps, PruneKeeps,
     ReadPointerKeeps, SwitchPointerKeeps, RevertPointerKeeps DEF Work
<1>. QED  BY <1>3, <1>4, <1>5, <1>6 DEF Next

\* The inductive invariant holds: operations of the updaters take turns on the disk, and
\* each leaves it, at every step, in a state that the next one can start from.
THEOREM UpdaterInvariant == Spec => []UpdaterInv
BY UpdaterInvInit, UpdaterInvStep, PTL DEF Spec

\* activate and installVersion never leave the pointer on a version without its install
\* record, wherever a process died, nor on one of which only a part is there, unless that
\* part is what an unfinished removal had left before it was activated.
THEOREM ActiveStaysInstalled == Spec => []ActiveIsInstalled
<1>1. UpdaterInv => ActiveIsInstalled
  <2>. SUFFICES ASSUME UpdaterInv, ~robbed, pointer.version # None
                PROVE  /\ Complete(pointer.version)
                       /\ dirs[pointer.version] = "whole" \/ pointer.version \in interrupted
    BY DEF ActiveIsInstalled
  <2>1. Complete(pointer.version) /\ pointer.version \in Versions
    BY DEF UpdaterInv, DiskSound, Good, UpdaterTypeOK, Pointers
  <2>2. pointer.version \notin interrupted => dirs[pointer.version] # "torn"
    BY <2>1 DEF UpdaterInv, DiskSound
  <2>. QED  BY <2>1, <2>2 DEF Complete
<1>. QED  BY <1>1, UpdaterInvariant, PTL

\* pruneVersions and installVersion spare the rollback target, but for a reinstallation
\* that was cut short.
THEOREM RollbackStaysPossible == Spec => []RollbackTargetKept
<1>1. UpdaterInv => RollbackTargetKept
  BY DEF UpdaterInv, DiskSound, Good, RollbackTargetKept
<1>. QED  BY <1>1, UpdaterInvariant, PTL

\* installVersion puts a whole installation in place or none, so that its record can be
\* believed.
THEOREM RecordsAreBelievable == Spec => []RecordMeansWhole
<1>1. UpdaterInv => RecordMeansWhole
  BY DEF UpdaterInv, DiskSound, RecordMeansWhole
<1>. QED  BY <1>1, UpdaterInvariant, PTL

\* discardOrphanedStaging takes nothing from a living process.
THEOREM StagingIsLeftAlone == Spec => OrphansAreDead
<1>1. UpdaterInv /\ [Next]_vars =>
        [\A p \in Procs : ~robbed /\ staging[p] # "none" /\ staging'[p] = "none" =>
           ~Alive(p) \/ job'[p] # job[p]]_vars
  <2>. SUFFICES ASSUME UpdaterInv, Next, NEW p \in Procs, ~robbed,
                       staging[p] # "none", staging'[p] = "none", Alive(p)
                PROVE  job'[p] # job[p]
    OBVIOUS
  <2>1. UpdaterTypeOK /\ job[p].at \in Staged
    BY DEF UpdaterInv, StagingOwned
  <2>2. PICK q \in Procs : staging' # staging /\ (Stage(q) \/ Fetch(q) \/ FetchFails(q) \/ Place(q))
    BY DEF Next, Ask, Locking, updaterVars, Request, Work, ReleaseLock, Die, ActivateVersion,
           EnsureInstalled, EnsureCompatible, Rollback, PruneVersions, ManifestFails, BeginRemove,
           Remove, Prune, Pruned, ReadPointer, SwitchPointer, HealthCheck, RevertPointer
  <2>3. pc[q] = "held"
    BY <2>2 DEF Stage, Fetch, FetchFails, Place, At
  <2>4. q = p
    BY <2>1, <2>3, Alone DEF Staged
  <2>5. PICK label \in {"fetching", "removing", "done", "activating"} : 
          Become(p, label) /\ label # job[p].at
    BY <2>1, <2>2, <2>4 DEF Stage, Fetch, FetchFails, Place, Finish, At, UpdaterTypeOK, Jobs
  <2>6. job'[p].at # job[p].at
    BY <2>1, <2>5, BecomeGives
  <2>. QED  BY <2>6
<1>. QED  BY <1>1, UpdaterInvariant, PTL DEF Spec, OrphansAreDead

\* The updaters exclude one another as long as none of them ends: their lock does, and what
\* they do under it leaves it alone.
THEOREM UpdatersExclude == Spec => []ExclusiveWhileAllLive
<1>1. Init => LockInit
  BY DEF Init
<1>2. [][Next]_vars => [][LockNext]_lockVars
  BY UpdaterTakesLockSteps, PTL
<1>. QED  BY <1>1, <1>2, ExclusionAmongLiving, PTL DEF Spec, LockSpec

=============================================================================
