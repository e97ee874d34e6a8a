------------------------- MODULE ProjectTransactions -------------------------
(***************************************************************************)
(* Transactions of the project kernel: a prepared set of edits is applied  *)
(* to several files, rolled back, and recovered after a crash from the     *)
(* record that was stored before the first write.                          *)
(*                                                                         *)
(* One action is what happens between two awaits of one command: so the    *)
(* comparison of a file's bytes and the rename or rm that replaces them    *)
(* are two.  A file holds its original content, what one transaction       *)
(* writes to it, or the content of an edit from outside.  A transaction    *)
(* has one patch per file.                                                 *)
(***************************************************************************)
EXTENDS Naturals, Sequences, SequencesExt, Subsequences

CONSTANTS Txs, Files,
          Changes,          \* transaction -> the files it changes (changedFiles)
          MaxTransactions,  \* ProjectTuning: retainedTransactions
          MaxTerminal,      \* ProjectTuning: retainedTerminalTransactions
          HistoryBytes,     \* ProjectTuning: historyBytes, one for each transaction
          Faults,           \* the environment moves of a run
          MaxFaults,        \* bound: how many of them
          Original, External, None

ASSUME TransactionAssumption ==
  /\ Changes \in [Txs -> (SUBSET Files) \ {{}}]
  /\ MaxTransactions \in Nat \ {0} /\ MaxTerminal \in Nat \ {0}
  /\ HistoryBytes \in Nat /\ MaxFaults \in Nat
  /\ {Original, External, None} \cap Txs = {}
  /\ Original # External /\ Original # None /\ External # None

VARIABLES
  files,      \* file -> content
  mem,        \* what the kernel holds in memory
  disk,       \* what the state file holds
  cmd,        \* transaction -> the command under way, with its locals
  life,       \* "up", "recovering" (createProjectKernel), "down"
  faults,     \* faults left
  undo,       \* history: transaction -> file -> what was read there last before its first
              \* unsettled write
  exposed,    \* history: transactions whose record was given up while files were unsettled
  replanned   \* history: transactions that another one's failure brought back, or whose
              \* byte plan another one replaced or, while their record is kept, dropped

vars == <<files, mem, disk, cmd, life, faults, undo, exposed, replanned>>

Contents == {Original, External} \cup Txs
Nothing == [f \in Files |-> None]

\* The statuses, and from which of them each command may start.
Statuses == {"prepared", "validated", "applied", "rolled_back"}
Allowed == [amend    |-> {"prepared", "validated"},
            validate |-> Statuses,
            apply    |-> {"prepared", "validated", "rolled_back"},
            rollback |-> {"applied"},
            discard  |-> {"prepared", "validated"}]
Terminal == {"applied", "rolled_back"}

Idle == [at |-> "idle", kind |-> "none", from |-> "none", read |-> Nothing,
         own |-> Nothing, todo |-> {}, seen |-> Nothing, saved |-> None]

Init ==
  /\ files = [f \in Files |-> Original]
  /\ mem = [repo |-> <<>>, terminal |-> <<>>,
            tx |-> [t \in Txs |-> [status |-> "new", old |-> Nothing]],
            plan |-> [t \in Txs |-> None], pending |-> [t \in Txs |-> None]]
  /\ disk = [repo |-> <<>>, tx |-> mem.tx, plan |-> mem.plan, pending |-> mem.pending]
  /\ cmd = [t \in Txs |-> Idle]
  /\ life = "up"
  /\ faults = MaxFaults
  /\ undo = [t \in Txs |-> Nothing]
  /\ exposed = {} /\ replanned = {}

-----------------------------------------------------------------------------
(* The kernel's memory and the state file. *)

Known(m) == ToSet(m.repo)
Busy(t) == cmd[t].at # "idle"
SmallerOf(m, n) == IF m < n THEN m ELSE n
Without(seq, S) == Kept(seq, Txs \ S)

\* Transactions leave the repository, with their byte plans.
Evict(m, S) == [m EXCEPT !.repo = Without(@, S), !.terminal = Without(@, S),
                         !.plan = [t \in Txs |-> IF t \in S THEN None ELSE @[t]]]

\* capTransactionHistoryBytes: while the history is over its budget the oldest
\* transaction goes that is neither open nor being written.
Evictable(m) == Kept(m.repo, {t \in Txs : m.pending[t] = None /\ m.tx[t].status \in Terminal})
Capped(m) == LET over == Len(m.repo) - HistoryBytes
             IN Evict(m, ToSet(SubSeq(Evictable(m), 1, SmallerOf(over, Len(Evictable(m))))))

\* assertTransactionStateSnapshot: a record names a stored transaction in the
\* status the operation began with.
Storable(m) == \A t \in Txs : m.pending[t] # None =>
                                t \in Known(m) /\ m.tx[t].status = m.pending[t].from

Stored(m) == [repo |-> m.repo, tx |-> m.tx, plan |-> m.plan, pending |-> m.pending]

\* A move of the environment.
Fault(kind) == kind \in Faults /\ faults > 0 /\ faults' = faults - 1

\* commit of the state file: replaced atomically, or the old one stays.
StoreOk(m) == Storable(m) /\ disk' = Stored(m) /\ UNCHANGED faults
StoreFails(m) == UNCHANGED disk /\ IF Storable(m) THEN Fault("store") ELSE UNCHANGED faults

Step(t, new) == cmd' = [cmd EXCEPT ![t] = new]
Goto(t, label) == Step(t, [cmd[t] EXCEPT !.at = label])
End(t) == Step(t, Idle)
History == <<undo, exposed, replanned>>

-----------------------------------------------------------------------------
(* prepareEdit, amendEdit, validate, discardTransaction *)

\* prepareEdit: snapshots are taken, then the plan is made.
Prepare(t) ==
  /\ life = "up" /\ ~Busy(t) /\ mem.tx[t].status = "new"
  /\ Step(t, [Idle EXCEPT !.at = "preparing",
                          !.saved = [repo |-> mem.repo, terminal |-> mem.terminal, plan |-> mem.plan]])
  /\ UNCHANGED <<files, mem, disk, life, faults, History>>

\* add with capTransactions, then publishTransactionChange; when that fails the
\* snapshots from before the await replace what is there by now.
PublishPrepared(t) ==
  /\ life = "up" /\ cmd[t].at = "preparing"
  /\ LET all == Append(mem.repo, t)
         over == IF Len(all) > MaxTransactions THEN {Head(all)} ELSE {}
         added == Evict([mem EXCEPT !.repo = all, !.tx[t].status = "prepared"], over)
         m == Capped(added)
     IN   \/ StoreOk(m) /\ mem' = m /\ UNCHANGED replanned
          \/ /\ StoreFails(m)
             /\ mem' = [mem EXCEPT !.repo = cmd[t].saved.repo, !.terminal = cmd[t].saved.terminal,
                                   !.plan = cmd[t].saved.plan]
             /\ replanned' = replanned \cup (ToSet(cmd[t].saved.repo) \ Known(mem))
                                       \cup {u \in Txs : mem.plan[u] # cmd[t].saved.plan[u]}
  /\ End(t)
  /\ UNCHANGED <<files, life, undo, exposed>>

\* amendEdit: more patches; the transaction is prepared again, its byte plan goes.
\* When publishing fails everything is put back.
Amend(t) ==
  /\ life = "up" /\ ~Busy(t)
  /\ t \in Known(mem) /\ mem.tx[t].status \in Allowed.amend
  /\ LET m == Capped([mem EXCEPT !.tx[t].status = "prepared", !.plan[t] = None])
     IN StoreOk(m) /\ mem' = m
  /\ UNCHANGED <<files, cmd, life, History>>

\* discardTransaction: refused while a record of it is kept or a command runs.
Discard(t) ==
  /\ life = "up" /\ ~Busy(t) /\ mem.pending[t] = None
  /\ t \in Known(mem) /\ mem.tx[t].status \in Allowed.discard
  /\ LET m == Capped(Evict(mem, {t})) IN StoreOk(m) /\ mem' = m
  /\ UNCHANGED <<files, cmd, life, History>>

\* validate by itself, and the first part of applyEdit.
Validate(t, kind) ==
  /\ life = "up" /\ ~Busy(t)
  /\ t \in Known(mem) /\ mem.tx[t].status \in Allowed[kind]
  /\ Step(t, [Idle EXCEPT !.at = "validating", !.kind = kind])
  /\ UNCHANGED <<files, mem, disk, life, faults, History>>

\* validateSerialized after the validators: the result is published, of a
\* transaction that is still known.  apply goes on when it passed.
Validated(t) ==
  /\ life = "up" /\ cmd[t].at = "validating"
  /\ LET next == IF cmd[t].kind = "apply" THEN [cmd[t] EXCEPT !.at = "locking"] ELSE Idle
         passed == [mem EXCEPT !.tx[t].status = IF @ = "prepared" THEN "validated" ELSE @]
     IN IF t \notin Known(mem)
        THEN Step(t, next) /\ UNCHANGED <<mem, disk, faults>>
        ELSE \/ StoreOk(Capped(passed)) /\ mem' = Capped(passed) /\ Step(t, next)
             \/ StoreOk(Capped(mem)) /\ mem' = Capped(mem) /\ End(t)
             \/ StoreFails(passed) /\ End(t) /\ UNCHANGED mem
  /\ UNCHANGED <<files, life, History>>

-----------------------------------------------------------------------------
(* applyEdit and rollback *)

\* rollback starts; apply comes from Validated.
Rollback(t) ==
  /\ life = "up" /\ ~Busy(t)
  /\ t \in Known(mem) /\ mem.tx[t].status \in Allowed.rollback
  /\ Step(t, [Idle EXCEPT !.at = "locking", !.kind = "rollback"])
  /\ UNCHANGED <<files, mem, disk, life, faults, History>>

\* Locked are the paths of the commands past LockManager.lock.
Locked(t) == life = "up" /\ cmd[t].at \in {"reading", "writing", "restoring", "rewriting", "finishing"}
\* MUTATED Lockable: the paths are not locked.
LockableAlways(t) == TRUE

Lockable(t) == \A u \in Txs \ {t} : Locked(u) => Changes[u] \cap Changes[t] = {}

\* What was in f before t, as its byte plan has it, or its patch.
Before(t, f) == IF mem.plan[t] # None THEN mem.plan[t][f] ELSE mem.tx[t].old[f]
\* MUTATED Target: a rollback writes what the apply wrote.
TargetOneWay(t, f) == t

\* What t writes to f.
Target(t, f) == IF cmd[t].kind = "apply" THEN t ELSE Before(t, f)
\* MUTATED AsExpected: the bytes on disk are not compared before a write.
NotCompared(t, f) == TRUE

\* What the byte plan expects to find there; without a plan nothing is compared.
Expected(t, f) == IF cmd[t].kind = "apply" THEN mem.plan[t][f] ELSE t
AsExpected(t, f) == mem.plan[t] # None => files[f] = Expected(t, f)

\* A rollback is refused when a file is no longer what the apply left.
Unchanged(t) == \A f \in Changes[t] : files[f] = t
\* The paths are locked, the plan of the failure is captured (apply: the
\* transaction and the whole map of byte plans), and the files are read.
Lock(t) ==
  /\ life = "up" /\ cmd[t].at = "locking" /\ Lockable(t)
  /\ \/ cmd[t].kind = "apply"
     \/ cmd[t].kind = "rollback" /\ Unchanged(t)
  /\ LET read == [f \in Files |-> IF f \in Changes[t] THEN files[f] ELSE None]
     IN Step(t, [cmd[t] EXCEPT !.at = "reading", !.read = read, !.from = mem.tx[t].status,
                               !.own = [f \in Files |-> IF f \in Changes[t] THEN Target(t, f) ELSE None],
                               !.saved = [tx |-> mem.tx[t], plan |-> mem.plan]])
  /\ UNCHANGED <<files, mem, disk, life, faults, History>>

\* The preflight of an apply fails: the transaction and the map of all byte plans
\* are put back as they were captured.
PutBack(t, m) ==
  [m EXCEPT !.tx[t] = cmd[t].saved.tx, !.plan = cmd[t].saved.plan,
            !.repo = IF t \in ToSet(@) THEN @ ELSE Append(@, t)]
Replanned(t, m) == {u \in Txs \ {t} : m.plan[u] # cmd[t].saved.plan[u]}

\* A mismatch that cannot be rebased, a validator, the caller's abort; for a
\* rollback the check of Lock.
Refuse(t) ==
  /\ life = "up"
  /\ \/ cmd[t].at = "locking" /\ cmd[t].kind = "rollback" /\ Lockable(t) /\ ~Unchanged(t)
        /\ UNCHANGED <<mem, replanned>>
     \/ cmd[t].at = "reading" /\ cmd[t].kind = "rollback" /\ UNCHANGED <<mem, replanned>>
     \/ /\ cmd[t].at = "reading" /\ cmd[t].kind = "apply"
        /\ mem' = PutBack(t, mem)
        /\ replanned' = replanned \cup Replanned(t, mem)
  /\ End(t)
  /\ UNCHANGED <<files, disk, life, faults, undo, exposed>>

\* MUTATED Record: the states that the operation is about to write are recorded.
RecordOfResult(t) == [kind |-> cmd[t].kind, from |-> mem.tx[t].status, read |-> cmd[t].own, own |-> cmd[t].own]

\* The record that recovery needs.
Record(t) == [kind |-> cmd[t].kind, from |-> mem.tx[t].status, read |-> cmd[t].read, own |-> cmd[t].own]

\* beginDurableOperation, for an apply after the byte plan was made: the record is
\* stored before the first write.  A failure deletes it, whatever was kept before.
BeginDurable(t) ==
  /\ life = "up" /\ cmd[t].at = "reading"
  /\ LET planned == IF cmd[t].kind = "rollback" THEN mem
                    ELSE [mem EXCEPT !.plan[t] = cmd[t].read, !.tx[t].old = cmd[t].read]
         m == Capped([planned EXCEPT !.pending[t] = Record(t)])
     IN   \/ /\ StoreOk(m)
             /\ mem' = m
             /\ Step(t, [cmd[t] EXCEPT !.at = "writing", !.todo = Changes[t], !.saved = None])
             /\ UNCHANGED replanned
          \/ /\ StoreFails(m)
             /\ LET undone == [m EXCEPT !.pending[t] = None]
                IN IF cmd[t].kind = "apply"
                   THEN /\ mem' = PutBack(t, undone)
                        /\ replanned' = replanned \cup Replanned(t, undone)
                   ELSE mem' = undone /\ UNCHANGED replanned
             /\ End(t)
  /\ exposed' = IF mem.pending[t] = None THEN exposed ELSE exposed \cup {t}
  /\ UNCHANGED <<files, life, undo>>

\* writePatch, removePatch: the new bytes are ready (in a file beside, when f is not
\* removed); the last thing read before the await is what is in f.
CheckWrite(t, f) ==
  /\ life = "up" /\ cmd[t].at = "writing" /\ f \in cmd[t].todo /\ cmd[t].seen = Nothing
  /\ AsExpected(t, f)
  /\ Step(t, [cmd[t] EXCEPT !.seen[f] = files[f]])
  /\ UNCHANGED <<files, mem, disk, life, faults, History>>

\* Rename or rm: whatever is in f by now is replaced.
Write(t, f) ==
  /\ life = "up" /\ cmd[t].at = "writing" /\ cmd[t].seen[f] # None
  /\ files' = [files EXCEPT ![f] = Target(t, f)]
  /\ undo' = IF undo[t][f] = None THEN [undo EXCEPT ![t][f] = cmd[t].seen[f]] ELSE undo
  /\ Step(t, [cmd[t] EXCEPT !.todo = @ \ {f}, !.seen = Nothing])
  /\ UNCHANGED <<mem, disk, life, faults, exposed, replanned>>

\* A file is not what was expected, or a file operation fails: before the rename or
\* after it (the sync of the directory, the snapshot of what was written).
WriteFails(t) ==
  /\ life = "up" /\ cmd[t].at = "writing"
  /\ \/ Fault("write")
     \/ /\ cmd[t].seen = Nothing /\ \E f \in cmd[t].todo : ~AsExpected(t, f)
        /\ UNCHANGED faults
  /\ Step(t, [cmd[t] EXCEPT !.at = "restoring", !.seen = Nothing])
  /\ UNCHANGED <<files, mem, disk, life, History>>

Result(t) == IF cmd[t].kind = "apply" THEN "applied" ELSE "rolled_back"

\* The status, the end of the record and the publishing are one turn.  When
\* publishing fails the status goes back and the files are restored: by then the
\* record is no longer among those the next store writes.
Commit(t) ==
  /\ life = "up" /\ cmd[t].at = "writing" /\ cmd[t].todo = {}
  /\ LET done == [mem EXCEPT !.tx[t].status = Result(t), !.pending[t] = None]
     IN \/  /\ StoreOk(Capped(done)) /\ mem' = Capped(done)
             /\ undo' = [undo EXCEPT ![t] = Nothing]
             /\ Goto(t, "finishing")
             /\ UNCHANGED exposed
        \/ /\ StoreFails(done)
           /\ mem' = [mem EXCEPT !.pending[t] = None, !.tx[t].status = cmd[t].from]
           /\ Goto(t, "restoring")
           /\ exposed' = exposed \cup {t}
           /\ UNCHANGED undo
  /\ UNCHANGED <<files, life, replanned>>

\* retainTerminal: t becomes the latest of the terminal ones; the oldest go.
RetainTerminal(m, t) ==
  IF t \notin Known(m) THEN m
  ELSE LET order == Append(Without(m.terminal, {t}), t)
           over == IF Len(order) > MaxTerminal THEN Len(order) - MaxTerminal ELSE 0
           gone == ToSet(SubSeq(order, 1, over)) \ {t}
       IN Evict([m EXCEPT !.terminal = order], gone)

\* After git: retention, and a store whose failure is only logged.  Retention spares no
\* transaction of which a rollback is under way.
Finish(t) ==
  /\ life = "up" /\ cmd[t].at = "finishing"
  /\ LET m == Capped(RetainTerminal(mem, t))
     IN /\ mem' = m
        /\ StoreOk(m) \/ StoreFails(m)
        /\ replanned' = replanned \cup {u \in Known(mem) \ Known(m) : mem.pending[u] # None}
  /\ End(t)
  /\ UNCHANGED <<files, life, undo, exposed>>

-----------------------------------------------------------------------------
(* restoreDurableOperation: after a failure, and in initializeTransactionState *)

\* The command ends with the record kept; a kernel that is being created is not.
GiveUp(t) ==
  IF life = "up" THEN End(t) /\ UNCHANGED life
  ELSE cmd' = [u \in Txs |-> Idle] /\ life' = "down"

\* MUTATED Dirty: every file counts as written.
DirtyAll(t) == Changes[t]

Dirty(t) == {f \in Changes[t] : files[f] # cmd[t].read[f]}
Owned(t, f) == files[f] = cmd[t].own[f]

\* Every path is checked before one is written: what is there is the original or
\* the transaction's own.
CheckRestore(t) ==
  /\ life # "down" /\ cmd[t].at = "restoring"
  /\ IF t \in Known(mem) /\ \A f \in Dirty(t) : Owned(t, f)
     THEN Step(t, [cmd[t] EXCEPT !.at = "rewriting", !.todo = Dirty(t)]) /\ UNCHANGED life
     ELSE GiveUp(t)
  /\ UNCHANGED <<files, mem, disk, faults, History>>

CheckRewrite(t, f) ==
  /\ life # "down" /\ cmd[t].at = "rewriting" /\ f \in cmd[t].todo /\ cmd[t].seen = Nothing
  /\ Owned(t, f)
  /\ Step(t, [cmd[t] EXCEPT !.seen[f] = files[f]])
  /\ UNCHANGED <<files, mem, disk, life, faults, History>>

Rewrite(t, f) ==
  /\ life # "down" /\ cmd[t].at = "rewriting" /\ cmd[t].seen[f] # None
  /\ files' = [files EXCEPT ![f] = cmd[t].read[f]]
  /\ Step(t, [cmd[t] EXCEPT !.todo = @ \ {f}, !.seen = Nothing])
  /\ UNCHANGED <<mem, disk, life, faults, History>>

RewriteFails(t) ==
  /\ life # "down" /\ cmd[t].at = "rewriting"
  /\ \/ Fault("write")
     \/ /\ cmd[t].seen = Nothing /\ \E f \in cmd[t].todo : ~Owned(t, f)
        /\ UNCHANGED faults
  /\ GiveUp(t)
  /\ UNCHANGED <<files, mem, disk, History>>

\* All paths are back: the status, the record, the store.
Restored(t) ==
  /\ life # "down" /\ cmd[t].at = "rewriting" /\ cmd[t].todo = {}
  /\ LET back == [mem EXCEPT !.tx[t].status = cmd[t].from, !.pending[t] = None]
         m == Capped(back)
     IN   /\ mem' = m
          /\ \/ StoreOk(m) /\ End(t) /\ UNCHANGED life
             \/ StoreFails(m) /\ GiveUp(t)
  /\ undo' = [undo EXCEPT ![t] = [f \in Files |-> IF @[f] = cmd[t].read[f] THEN None ELSE @[f]]]
  /\ UNCHANGED <<files, exposed, replanned>>

\* The process dies.
Crash ==
  /\ life # "down" /\ Fault("crash")
  /\ life' = "down"
  /\ cmd' = [t \in Txs |-> Idle]
  /\ UNCHANGED <<files, mem, disk, History>>

\* A kernel is created over the stored state: everything is loaded first.
Restart ==
  /\ life = "down"
  /\ life' = "recovering"
  /\ mem' = [repo |-> disk.repo, tx |-> disk.tx, plan |-> disk.plan, pending |-> disk.pending,
             terminal |-> Kept(disk.repo, {t \in Txs : disk.tx[t].status \in Terminal})]
  /\ UNCHANGED <<files, disk, cmd, faults, History>>

\* initializeTransactionState: the records one after another.
Recover(t) ==
  /\ life = "recovering" /\ mem.pending[t] # None /\ \A u \in Txs : ~Busy(u)
  /\ LET p == mem.pending[t]
     IN Step(t, [Idle EXCEPT !.at = "restoring", !.kind = p.kind, !.from = p.from,
                             !.read = p.read, !.own = p.own])
  /\ UNCHANGED <<files, mem, disk, life, faults, History>>

Recovered ==
  /\ life = "recovering" /\ \A t \in Txs : mem.pending[t] = None /\ ~Busy(t)
  /\ life' = "up"
  /\ UNCHANGED <<files, mem, disk, cmd, faults, History>>

\* Somebody else writes the file.
Edit(f) ==
  /\ files[f] # External /\ Fault("edit")
  /\ files' = [files EXCEPT ![f] = External]
  /\ UNCHANGED <<mem, disk, cmd, life, History>>

Restore(t) ==
  CheckRestore(t) \/ RewriteFails(t) \/ Restored(t) \/ \E f \in Files : CheckRewrite(t, f) \/ Rewrite(t, f)

Command(t) ==
  \/ PublishPrepared(t) \/ Validated(t) \/ Lock(t) \/ Refuse(t) \/ BeginDurable(t)
  \/ (\E f \in Files : CheckWrite(t, f) \/ Write(t, f)) \/ WriteFails(t) \/ Commit(t) \/ Finish(t)
  \/ Restore(t)

Request(t) ==
  \/ Prepare(t) \/ Amend(t) \/ Discard(t) \/ Rollback(t)
  \/ \E kind \in {"validate", "apply"} : Validate(t, kind)

Environment == Crash \/ \E f \in Files : Edit(f)
Creation == Restart \/ Recovered \/ \E t \in Txs : Recover(t)

Next == Creation \/ Environment \/ \E t \in Txs : Request(t) \/ Command(t)

Spec == Init /\ [][Next]_vars

\* createProjectKernel is one function that ends: its file operations complete.
\* The host calls it again after a crash, and when it failed.
FairSpec == Spec /\ WF_vars(Creation \/ (life = "recovering" /\ \E t \in Txs : Restore(t)))

-----------------------------------------------------------------------------
(* What transactions promise. *)

RecordTypes == [kind : {"apply", "rollback"}, from : Statuses,
                read : [Files -> Contents \cup {None}], own : [Files -> Contents \cup {None}]]

\* No byte plan and no record is taken for none at all.
ASSUME AbsenceAssumption == None \notin [Files -> Contents \cup {None}] \cup RecordTypes

\* The types, and what holds between commands and the records in memory.
TransactionInv ==
  /\ files \in [Files -> Contents]
  /\ life \in {"up", "recovering", "down"}
  /\ \A t \in Txs :
       /\ mem.pending[t] \in RecordTypes \cup {None} /\ disk.pending[t] \in RecordTypes \cup {None}
       /\ mem.tx[t].status \in Statuses \cup {"new"}
       /\ undo[t] \in [Files -> Contents \cup {None}]
       /\ cmd[t].todo \subseteq Changes[t]
       \* Between the write-ahead store and the commit the record is kept.
       /\ cmd[t].at = "writing" => mem.pending[t] # None /\ mem.pending[t].read = cmd[t].read
  /\ Storable([mem EXCEPT !.repo = disk.repo, !.tx = disk.tx, !.pending = disk.pending])
  \* Two commands past their lock change different files.
  /\ \A t, u \in Txs : t # u /\ Locked(t) /\ Locked(u) => Changes[t] \cap Changes[u] = {}

\* All or nothing across a crash: a file that an unfinished operation has written
\* can be put back, to what was in it when it was last compared before the write, from
\* the record in the state file.  An edit that comes between that comparison and the
\* rename is in no record: what it wrote is lost.
Recoverable(t) == \A f \in Files : undo[t][f] # None =>
                    disk.pending[t] # None /\ disk.pending[t].read[f] = undo[t][f]

\* spec/invariants.md INV-4: the code does not keep this.
AllOrNothing == \A t \in Txs : Recoverable(t)

\* It keeps it as long as no commit failed to be stored, no operation was begun over
\* the record of an earlier one, and no byte plan was replaced by another command.
AllOrNothingUnlessExposed == \A t \in Txs \ (exposed \cup replanned) : Recoverable(t)

\* An edit from outside is overwritten by nobody who has not read it first, unless
\* it came after the last comparison, while the rename or the rm was awaited, or the byte
\* plan that would have noticed it was replaced by another command.
OutsideEditsKept ==
  [][\A f \in Files : files[f] = External /\ files'[f] # External =>
       \E t \in Txs : /\ cmd[t].at \in {"writing", "rewriting"}
                      /\ \/ t \in replanned \/ External \in {cmd[t].read[f], cmd[t].own[f]}
                         \/ cmd[t].seen[f] \notin {External, None}]_vars

\* A rollback leaves in every file what was there before the apply, or an edit from
\* outside: nothing that some other transaction wrote since.
RollbackRestores ==
  [][\A t \in Txs : mem.tx[t].status = "applied" /\ mem'.tx[t].status = "rolled_back" /\ life' = "up" =>
       \A f \in Changes[t] : t \in replanned \/ files[f] \in {mem.tx[t].old[f], External}]_vars

\* A kernel is up again after a crash, whatever it left behind, unless a file of an
\* unfinished operation has a content that is not the operation's.
Conflicting == \E t \in Txs : /\ disk.pending[t] # None
                             /\ \E f \in Changes[t] :
                                  files[f] \notin {disk.pending[t].read[f], disk.pending[t].own[f]}
RecoveryCompletes == life = "down" ~> life = "up" \/ Conflicting

=============================================================================
