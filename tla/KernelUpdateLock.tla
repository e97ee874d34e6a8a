--------------------------- MODULE KernelUpdateLock ---------------------------
(***************************************************************************)
(* The lock file under which every change of the shared Kernel             *)
(* installation is made: several processes, one path.  Creating the file   *)
(* with the flag wx takes the lock; the owner writes its pid into it       *)
(* afterwards; a file whose pid is no longer alive is unlinked.            *)
(*                                                                         *)
(* One action is what happens between two awaits.  The file is known by    *)
(* its creator: unlinking and creating act on the path, writing on the     *)
(* open handle.  Pids are not reused.                                      *)
(***************************************************************************)
EXTENDS Naturals, FiniteSets

CONSTANTS Procs,    \* processes, each with one updater
          Mortal,   \* the processes that may end, in the middle of anything
          Retries,  \* ownerReadRetries
          None

ASSUME LockAssumption ==
  /\ Mortal \subseteq Procs
  /\ Retries \in Nat
  /\ None \notin Procs

VARIABLES
  file,    \* what is at the lock path: its creator and whether the pid is in it
  pc,      \* process -> where its acquire or release is
  tries,   \* process -> open attempts made by this acquire
  reads,   \* process -> owner reads made by this attempt
  seen,    \* process -> the pid read from the file
  robbed   \* history: a file was reclaimed although its owner is alive

lockVars == <<file, pc, tries, reads, seen, robbed>>

NoFile == [owner |-> None, written |-> FALSE]

LockTypeOK ==
  /\ file \in [owner : Procs \cup {None}, written : BOOLEAN]
  /\ pc \in [Procs -> {"idle", "open", "writing", "reading", "judging", "stale",
                       "held", "releasing", "ended"}]
  /\ tries \in [Procs -> 0..2]
  /\ reads \in [Procs -> 0..(Retries + 1)]
  /\ seen \in [Procs -> Procs \cup {None}]
  /\ robbed \in BOOLEAN

LockInit ==
  /\ file = NoFile
  /\ pc = [p \in Procs |-> "idle"]
  /\ tries = [p \in Procs |-> 0]
  /\ reads = [p \in Procs |-> 0]
  /\ seen = [p \in Procs |-> None]
  /\ robbed = FALSE

Goto(p, label) == pc' = [pc EXCEPT ![p] = label]

-----------------------------------------------------------------------------

\* acquire: the directory exists, the attempts start.
Acquire(p) ==
  /\ pc[p] = "idle"
  /\ Goto(p, "open")
  /\ tries' = [tries EXCEPT ![p] = 0]
  /\ UNCHANGED <<file, reads, seen, robbed>>

\* MUTATED Open: the file is opened with w, not wx.
OpenShared(p) ==
  /\ pc[p] = "open" /\ tries[p] < 2
  /\ tries' = [tries EXCEPT ![p] = @ + 1]
  /\ reads' = [reads EXCEPT ![p] = 0]
  /\ file' = [owner |-> p, written |-> FALSE]
  /\ Goto(p, "writing")
  /\ UNCHANGED <<seen, robbed>>

\* open(path, 'wx'): creates the file, or finds one.
Open(p) ==
  /\ pc[p] = "open" /\ tries[p] < 2
  /\ tries' = [tries EXCEPT ![p] = @ + 1]
  /\ reads' = [reads EXCEPT ![p] = 0]
  /\ IF file.owner = None
     THEN /\ file' = [owner |-> p, written |-> FALSE]
          /\ Goto(p, "writing")
     ELSE /\ Goto(p, "reading")
          /\ UNCHANGED file
  /\ UNCHANGED <<seen, robbed>>

\* Both attempts found a stale file: give up.
GiveUp(p) ==
  /\ pc[p] = "open" /\ tries[p] = 2
  /\ Goto(p, "idle")
  /\ UNCHANGED <<file, tries, reads, seen, robbed>>

\* The pid is written through the handle, also when the path is gone.
WriteOwner(p) ==
  /\ pc[p] = "writing"
  /\ file' = IF file.owner = p THEN [file EXCEPT !.written = TRUE] ELSE file
  /\ Goto(p, "held")
  /\ UNCHANGED <<tries, reads, seen, robbed>>

\* The write fails (a full disk): acquire throws, the empty file stays.
WriteOwnerFails(p) ==
  /\ pc[p] = "writing"
  /\ Goto(p, "idle")
  /\ UNCHANGED <<file, tries, reads, seen, robbed>>

\* MUTATED ReadOwner: a file without a pid is taken for a stale one at once.
ReadOwnerOnce(p) ==
  /\ pc[p] = "reading"
  /\ IF file.written
     THEN /\ seen' = [seen EXCEPT ![p] = file.owner]
          /\ Goto(p, "judging")
          /\ UNCHANGED reads
     ELSE /\ Goto(p, "stale")
          /\ UNCHANGED <<seen, reads>>
  /\ UNCHANGED <<file, tries, robbed>>

\* MUTATED ReadOwner: the reads are not counted.
ReadOwnerForever(p) ==
  /\ pc[p] = "reading"
  /\ IF file.written
     THEN /\ seen' = [seen EXCEPT ![p] = file.owner]
          /\ Goto(p, "judging")
          /\ UNCHANGED reads
     ELSE /\ Goto(p, "reading")
          /\ UNCHANGED <<seen, reads>>
  /\ UNCHANGED <<file, tries, robbed>>

\* resolveOwner: read the pid, again while there is none to read; an owner that
\* stays unreadable counts as a held lock and acquire throws.
ReadOwner(p) ==
  /\ pc[p] = "reading"
  /\ IF file.written
     THEN /\ seen' = [seen EXCEPT ![p] = file.owner]
          /\ Goto(p, "judging")
          /\ UNCHANGED reads
     ELSE /\ reads' = [reads EXCEPT ![p] = @ + 1]
          /\ Goto(p, IF reads[p] < Retries THEN "reading" ELSE "idle")
          /\ UNCHANGED seen
  /\ UNCHANGED <<file, tries, robbed>>

Alive(p) == pc[p] # "ended"

\* isOwnerAlive of the pid that was read: held, or stale.
Judge(p) ==
  /\ pc[p] = "judging"
  /\ Goto(p, IF Alive(seen[p]) THEN "idle" ELSE "stale")
  /\ UNCHANGED <<file, tries, reads, seen, robbed>>

\* unlink of what is at the path by now.
Reclaim(p) ==
  /\ pc[p] = "stale"
  /\ robbed' = (robbed \/ (file.owner # None /\ Alive(file.owner)))
  /\ file' = NoFile
  /\ Goto(p, "open")
  /\ UNCHANGED <<tries, reads, seen>>

\* release: the handle is closed, then the path unlinked, whoever created it.
Release(p) ==
  /\ pc[p] = "held"
  /\ Goto(p, "releasing")
  /\ UNCHANGED <<file, tries, reads, seen, robbed>>

Unlink(p) ==
  /\ pc[p] = "releasing"
  /\ file' = NoFile
  /\ Goto(p, "idle")
  /\ UNCHANGED <<tries, reads, seen, robbed>>

\* A process ends: killed in the middle of an update, or normally.
End(p) ==
  /\ p \in Mortal
  /\ Alive(p)
  /\ Goto(p, "ended")
  /\ UNCHANGED <<file, tries, reads, seen, robbed>>

Continue(p) ==
  \/ Open(p) \/ GiveUp(p) \/ WriteOwner(p) \/ WriteOwnerFails(p)
  \/ ReadOwner(p) \/ Judge(p) \/ Reclaim(p) \/ Unlink(p)

LockNext == \E p \in Procs : Acquire(p) \/ Continue(p) \/ Release(p) \/ End(p)

LockSpec == LockInit /\ [][LockNext]_lockVars

-----------------------------------------------------------------------------
(* What the lock promises. *)

\* One updater at a time works on the installation.
MutualExclusion == \A p, q \in Procs : pc[p] = "held" /\ pc[q] = "held" => p = q

\* While nobody has ended, it does: a file whose pid is not written yet is not
\* taken for one left behind.
ExclusiveWhileAllLive == (\A p \in Procs : Alive(p)) => MutualExclusion

\* The weaker promise the code does keep when processes die: two updaters work
\* at once only after a reclaim has unlinked the file of a living process.
ExclusiveUnlessRobbed == robbed \/ MutualExclusion

\* The lock file of a living process that holds the lock is left alone.
LivingOwnerKeepsFile ==
  [][\A p \in Procs : pc[p] = "held" /\ pc'[p] = "held" /\ file.owner = p => file'.owner = p]_lockVars

\* The inductive invariant: as long as nobody was robbed, a process that is past
\* its open owns what is at the path.
Owning(p) == pc[p] \in {"writing", "held", "releasing"}

LockInv ==
  /\ LockTypeOK
  /\ \A p \in Procs : /\ pc[p] = "judging" => seen[p] \in Procs
                      /\ pc[p] = "reading" => reads[p] <= Retries
  /\ file.written => file.owner # None
  /\ ~robbed => \A p \in Procs : Owning(p) => file.owner = p

=============================================================================
