# VelarOS Platform in TLA+

This directory holds formal models of the parts of VelarOS Platform whose correctness depends on
interleavings, failures and ordering. Every definition is translated from the source under `src/`;
`PROJECT.json` maps each definition to the lines it stands for, lists the runs, the theorems, the
hazards and what the runs found.

## 1. The system

The platform is a TypeScript monorepo (`src/packages/`). What runs is a **Kernel** process that hosts
capability modules and serves operations, **clients** of it (in process, over a local socket, or over a
WebSocket to a headless node on another machine), an **agent** runtime that drives a model through
operations, and the domain packages under `velaros/` that implement the operations.

| Component | State it keeps | Operations | Hard because of | Correct when | Module |
| --- | --- | --- | --- | --- | --- |
| Remote node call runner, pool, result cache (`kernel/src/impl/remote-node/`) | calls in flight, FIFO cache of terminal results, pool counter and wait queue, audit, product stream | submit, cancel, deadline, answer, abortAll, forgetCompleted | five parties race to settle one call; a replay must find its result; slots change hands | a callId runs once while its outcome is remembered, one verdict per call, exact pool | `RemoteNodeCallRunner` |
| Remote node link (`remote-client/`, `RemoteNodeServer.ts`) | client state, ledger of pending calls, session; node phases, ready connection, epoch | connect, handshake, track, flush, result, close, heartbeat, stop, start | connections break with frames queued, each end learns of it by itself; node restarts | no call runs twice or is lost, what the client reports is true | `RemoteNodeLink`, `RemoteCall` |
| Operation runtime, invocation journal (`runtime/OperationRuntime.ts`, `context/.../ContextInvocationJournal.ts`) | journal records, dispatches, active controllers | invoke (claim, prepare, dispatch, settle), reconcile, dispose | crash between prepare and settle, reconcile beside a late settle | an effect is never repeated; an unknown effect is reconciled once | `OperationRuntime`, `InvocationJournal` |
| Project transactions (`velaros/project/impl/kernel/LocalProjectKernel.ts`, `impl/transactions/`) | transactions and their byte plans, the stored state with its recovery records, files | prepare, amend, validate, apply, roll back, recover | commands await files and storage; a crash or a failed store in the middle of an apply | what is half-written can be restored; no edit from outside that a comparison saw is overwritten | `ProjectTransactions` |
| Project path locks (`LockManager.ts`) | granted locks, wait queue | lock, unlock | fairness without preemption, no timeout | overlapping transactions exclude each other, nobody starves | `LockManager` |
| Project execution gate (`impl/operations/ProjectExecutionGate.ts`) | per root: readers, writer flag, queue | run, abort, end | readers beside writers, gates that come and go | writers alone, in order of arrival | `ProjectExecutionGate` |
| Kernel update lock (`updater/KernelUpdateLock.ts`) | lock file, owner record | acquire, release | several processes, stale files of dead ones | one updater at a time | `KernelUpdateLock` |
| Kernel updater (`updater/KernelUpdater.ts`) | version directories, staging, active pointer | install, ensure, activate, roll back, prune | death between any two file operations, a health check after the pointer moved | the pointer names an installed version that is whole, a sick one is left | `KernelUpdater` |
| Kernel module host (`runtime/KernelModuleHost.ts`, `KernelServiceStore.ts`) | modules, generations and statuses, registered and visible services | start, replace, suspend, dispose | lifecycle calls overlap across awaits of module code | only live generations serve; a replacement is never a gap | `KernelModuleHost` |
| Agent supervision (`agent/src/impl/AgentSupervisor.ts`) | jobs in storage, active runs, gate, waiters | start, resume, wait, cancel, close | checks and launches across a write; close beside both | limits hold, closed is quiet, stored ends are true | `AgentSupervisor` |
| Act run service (`agent/src/impl/ActRunService.ts`) | inputs, events, the run's status | submit, steer, cancel, events of the loop | steers race the turns and the end; writes fail; restart | each input is consumed once, none forgotten, one end | `ActRunService` |
| Effects, delivery, keyed queue (`velaros/act/runtime/impl/`, `core/src/utils/KeyedSerialQueue.ts`) | pending effects, delivery tail, tails by key | acquire, release, abort; append, flush, close; run | cancelled waiters, writes that complete out of order | conflicting effects exclude each other, delivery in order | `EffectScheduler`, `EventDelivery`, `KeyedSerialQueue` |
| Remote node pairing (`RemoteNodePairingGate.ts`, `RemoteNodeServer.ts`, `FileRemoteNodeServerCredentialStore.ts`) | pairing window, failure counter, lockout, credential in memory and on disk, the device's key | startPairing, hello, pair, authenticate, save, unpair, stop, start | the credential is saved and removed across awaits while connections, devices and the host go on | whoever is connected is whom the node is paired with, and will be after a restart | `RemoteNodePairing` |

Not candidates for a model: model provider adapters, browser, computer and office automation, image,
memory, web, sandbox and skill packages, the script runners, `agent-lab` and the type and schema
layers. They are I/O around third-party systems or pure data conversion, without concurrent state of
their own worth a model. `RuntimeSession`, `ContextMemory`, `ProgramContext` and `CompletionReview` of the
act runtime are large, but evaluate data that a model and its programs produce; what they share with
concurrent parties goes through the effect scheduler, the event delivery and the run service.

How the parts interact.

* The remote client (`RemoteNodeClient`) owns one socket at a time and a ledger
  (`RemoteNodePendingCalls`) that outlives it. The node (`RemoteNodeServer`) owns any number of
  connections, of which one is *ready*; invoke and cancel frames of that connection call the runner
  (`RemoteNodeCallRunner.submit`, `.cancel`); the runner answers through the callback `deliver`, which
  writes to whatever connection is ready at that moment, or to none.
* The updater does everything under the lock file: `KernelUpdater` extends `KernelUpdateLock`, and an
  operation begins and ends with the acquire and release modelled there.
* A project command passes the execution gate, then the serial queue of its transaction
  (`TransactionCoordinator`, a `KeyedSerialQueue`), then the path locks. In `ProjectTransactions` the
  last two are what they promise: one command per transaction (`Busy`), no common file under the locks
  (`Lockable`); `LockManager` and `KeyedSerialQueue` are shown to keep that promise by themselves, as is the
  gate, through one abstract specification, `OrderedAdmission`.
* The runtimes of operations, modules, agents and act sessions live in one process and call each other
  through interfaces that return promises; they share no state. Each model leaves the other side free.

## 2. Modules

| Module | What it is | Extends |
| --- | --- | --- |
| `RemoteNodeCallRunner` | the node's call side | |
| `RemoteNodeLink` | client and node over a sequence of connections | `RemoteNodeCallRunner` |
| `RemoteCall` | abstract: what a caller of a remote capability may rely on | |
| `InvocationJournal` | the durable record of one invocation, with its compare-and-swap operations | |
| `OperationRuntime` | processes that dispatch and reconcile one invocation id over that record | `InvocationJournal` |
| `ProjectTransactions` | transactions over files, memory and the state file, with crash and recovery | |
| `KernelUpdateLock` | the lock file of the shared installation | |
| `KernelUpdater` | version directories and active pointer, changed under the lock file | `KernelUpdateLock` |
| `OrderedAdmission` | abstract: a queue that admits in order of arrival whoever is in conflict with nobody before it | |
| `LockManager` | the path locks of project transactions; implements `OrderedAdmission` | |
| `LockManagerScan` | the queue scan of `drainQueue` as it is written, against the one-pass form | `LockManager` |
| `ProjectExecutionGate` | readers and writers of a project; implements `OrderedAdmission` | |
| `EffectScheduler` | effects on shared resources; implements `OrderedAdmission` | |
| `KeyedSerialQueue` | one operation per key at a time; implements `OrderedAdmission` | |
| `EventDelivery` | the ordered stream of act events | |
| `KernelModuleHost` | lifecycle of modules and visibility of their services | |
| `AgentSupervisor` | child runs of an agent | |
| `ActRunService` | the inputs and events of one act session | |
| `RemoteNodePairing` | pairing window, handshakes of several devices, the credential of a node | |
| `Queues` | the components that make others wait, for one run | six of the above |
| `Services` | the services of one process, for one run | five of the above |
| `Subsequences` | what a filter leaves of a list, as a function a proof can reason about | |
| `RemoteNodeLinkProofs`, `OrderedAdmissionProofs`, `ProjectTransactionsProofs`, `KernelUpdaterProofs`, `ActRunServiceProofs` | theorems about the module of that name (those about the link include the call runner's, those about the updater `KernelUpdateLock`'s) | the module and TLAPS |
| `QueuesProofs` | theorems about every component of `Queues`, and about `LockManagerScan` | these and TLAPS |
| `ServicesProofs` | theorems about the other components of `Services` | these and TLAPS |
| `SubsequencesProofs` | lemmas about `Kept` and about the elements of lists | `Subsequences` and TLAPS |
| `MC...` | constants and symmetry sets for the model checker; `MCQueues` adds the scan of the lock queue as the code has it | the module |

An operator whose comment starts with MUTATED is a wrong version of the definition it precedes. It is
used by no specification; `PROJECT.json` pairs it with the property that notices the difference.

`Queues` and `Services` put independent components into one state space, so that questions of one kind are
asked in one place. A variable `subject` says which component a behaviour is about; only that one moves, so
nothing is checked of a component beside the others that would not be checked of it alone, and the state
space is the sum, not the product.

### RemoteNodeCallRunner

State: `calls` is the Map of the runner, a *call object* (an element of `Runs`) stands for the
object `submit` makes, with `owner`, `client`, `settled`; `stage` says where its task is in the pool
(`RemoteNodeInvocationPool`: `active`, `waiting`); `completed` is `RemoteNodeResultCache`; `activity` is
what the product stream shows, `audit` counts audit entries; `sent` is the frame the last step handed to
`deliver`. `lost` is a history variable: the callIds whose outcome the node no longer has (evicted,
forgotten, aborted by a stop). One action is one turn of the event loop. A woken waiter whose call has
been settled returns at once and wakes the next one; that chain of microtasks is part of `Leave`.

Actions: `Submit` (= `Replay`, `Duplicate`, `RejectStale`, `Accept`), `Cancel`, `Deadline`, `Finish`,
`AbortAll` (stop), `NewRunner` (start), `FinishDetached` (a task of a runner that was replaced),
`ForgetCompleted` (unpair, another client), `ProcessExit`.

### RemoteNodeLink

A connection is two FIFO queues, `up` and `down`, and a transport state `wire`. `Cut` breaks it at any
moment; frames still queued are read or lost depending on which end notices first. The client's state is
`cstate`, `sock`, `session` (epoch and manifest revision of the last ready frame) and the ledger
(`entries` in insertion order, `dispatched`, `frameRev` for the revision frozen into the cached frame,
`outcome` for how the promise settled). The node's is `phase` per connection, `ready`, `epoch`,
`revision`. `HandleReady` does what the handler does: it compares epochs, fails what was on the wire of
another process, and writes every remaining call again. `Stop`/`Start` keep the epoch, because the server
makes it in its constructor; `Crash`/`NewProcess` change it. A connection whose frame the node cannot
place in the handshake is closed as unauthorised or as a protocol error: which of the two depends on the
frame's contents, and the model chooses either.

`Faults` is the set of environment moves a run allows; each run below names the ones it studies, so that
each question has a small state space of its own.

`RemoteCall` states the caller's view: a call is asked, its capability is started at most once, and how the
promise settles limits what may still happen (`unsent`: never started; `success` and `denied`: the answer
of the one execution; `unknown` and `aborted`: may have run, may still run). `RemoteNodeLink` implements it
through `Contract`, a refinement mapping that reads the promise from ledger and outcomes and the work
from the started call objects.

### InvocationJournal and OperationRuntime

One invocation id. `record` is the journal's object and its version. `claim`, `prepare`, `settle` and
`recordReconciliation` of `ContextInvocationJournal` load the record, check it, and swap in a new object:
the operators `LoadedFor...` are the checks, `Claim`, `Prepare`, `Settle`, `Reconcile` the swaps. Each swap
builds the object the code builds; that of `settle` and `prepare` has no `reconciliation`, so one stored
before is gone.

`OperationRuntime` runs the id in several processes. `dispatch[r]` is the promise chain of `dispatch` in
process `r`: its label `at` is the await it is at, the other fields are its locals and its abort signal;
`checking[r]` is the same for `reconcileRecord`. Further calls of an id under way join its promise and
change nothing, so they have no action. `world` is what the operation has really done, `runs` how often a
handler was entered. A handler commits at some moment while it runs, returns or throws whether or not it
was aborted, and reports the true effect or `unknown`: the code cannot check what a handler declares. The
domain's reconciler answers with what it finds in `world` at that moment. The storage may fail at every
journal call, `Restart` ends a process anywhere. Released leases, denied modes, failing preparation and a
closing runtime are choices of the actions that read them. The handler is entered in the same turn as the
check for cancellation (operations are registered without permissions, so `KernelCapabilityInvoker.invoke`
does not await before it).

### KernelUpdateLock

`file` is what is at the lock path: who created it and whether the pid has been written. The steps of
`acquire` are separate actions because each is an await: `Open` (flag `wx`), `WriteOwner` (may fail),
`ReadOwner` (a bounded number of reads), `Judge` (is the pid alive), `Reclaim` (unlink whatever is at the
path now), and of `release` `Release` (close the handle) and `Unlink`. `End` ends a process of `Mortal`
anywhere, by a kill or normally: a process that has exited is as dead to `isOwnerAlive` as a killed one.
Pids are not reused. `robbed` is a history variable: a file was unlinked by a reclaimer while its creator
was alive.

### LockManager

`lock` and `unlock` are synchronous up to the promise, so each is one action together with `drainQueue`.
The queue is kept as the set of requests `ahead` of each waiting one. `Drain` grants in one pass what the
code grants in repeated scans; `LockManagerScan` writes the scan down as the code has it, over an array, and
says that both grant the same and leave the same queue: TLC checks it, and it is proved. The reason that
`LockManager.ts:12-13` gives for the repeated scan does not hold (section 5).

### OrderedAdmission and its four implementations

An abstract request comes with a scope and waits for exactly the requests that are there and in conflict
with it; it is admitted when they have left. The queues decide in different ways: `LockManager` rescans a
queue (an entry is granted when it touches no path held or asked for before it), `ProjectExecutionGate`
lets in the readers in front of the first writer or that writer, `EffectScheduler` collects at arrival
the releases of everyone it overlaps with, `KeyedSerialQueue` chains on the tail of the key. Each module
gives the mapping: the state of a request, its scope, and whom it still waits for (`rivals`).
`LockManagerScan` says by `ScanIsOnePass` that the repeated scan of `drainQueue` grants what one pass
would.

In `ProjectExecutionGate` a gate is named by the task that made it: tasks keep the gate they found, and a
gate that nobody uses is removed from its root. A task that was let in starts a microtask later and may be
aborted before. In `EffectScheduler` `Overlap` is the test on the normalised resource list, with an
absent list being all resources. In `KeyedSerialQueue` `Forget` removes the tail only when it is still its
own.

### EventDelivery

`append` starts a write and chains a task on the tail; writes end in any order, the tail's turn waits for
the write of its event and then calls the handler. The first failure is kept, whoever is behind it is not
handed over, and every `append` and `flush` behind it is told. Cloning an event can fail: it is a write that
fails.

### ProjectTransactions

`mem` is what the kernel holds (transactions by age, statuses, byte plans, pending durable operations), `disk`
what the state file holds, `cmd` the command under way on each transaction, with its locals. One action is
what a command does between two awaits: prepare and publish; amend and validate; under the locks the check of
the bytes (`Unchanged`, `AsExpected`), the plan (`Target`), the recovery record that is stored before the
first write (`BeginDurable`), one write after the other, the commit (`Commit`, `Finish`), and after a failure
the restore of what was written (`CheckRestore`, `Rewrite`, `Restored`). Each write is two actions:
`replaceFileAtomically` awaits its last comparison of the bytes (`CheckWrite`, `CheckRewrite`; `seen` is what
was found) and then awaits the rename, `FileStore.remove` the same before `rm`, and what is at the path by
then is replaced (`Write`, `Rewrite`). A failure comes before or after the replacement. `Lock` reads all files
of a transaction in one step, where the code reads one after the other; what it read is compared again before
each write. `Stored` caps the history first, as `persistTransactionState` does, and a store may fail with or
without effect. Contents are the original, what one transaction writes, or an edit from outside. `Crash` loses
`mem` and `cmd`; `Restart` loads `disk`, and `Recover` restores every pending operation with the same actions
before commands are taken.

History variables: `undo` is what a file held when it was last compared before the first unsettled write to
it, `exposed` are the transactions whose record was given up while their files were unsettled, `replanned`
those whose byte plan was replaced by the failure of another command, or dropped by retention while their
record was kept.

### KernelUpdater

`dirs` is what each version directory holds: nothing, something without an install record (`partial`), a
record with files missing (`torn`: `rm` was cut short), everything. `job[p]` is the operation under the lock
with its locals. A step is cut wherever a process may die with a different result on disk: `rm` of a directory
may stop in the middle (`BeginRemove`, `Remove`), the rename is one step (`Place`), the pointer is replaced
atomically (`SwitchPointer`), and the health check comes after it, with `RevertPointer` when it fails.
`EnsureInstalled` and `EnsureCompatible` start an install only when they find nothing suitable. `sick`
versions fail their check. History: `interrupted` are versions whose removal was cut short, `upset` says that
a process died while it tried out a version.

### KernelModuleHost

A *record* is the host's entry for one generation of a module. `starter`, `suspender`, `disposer` and one
`replacer` per call say at which await of module code each async function is. `entries` are registered
services, `active` the visible ones. A module registers a service while it activates or does not.
`removeOwner` goes by module and generation (`SameOwner`), which two overlapping replacements share.
`crossed` is history: modules of which a replacement met another one or a dispose.

### AgentSupervisor and ActRunService

`AgentSupervisor`: the gate is a chain of calls (`inGate`); each checks the limits, writes the job and then
launches. A run reports to the storage when it asks, is answered, or ends; a write may fail; `close` may come
at any time, as may a crash that keeps the storage only.

`ActRunService`: `run.at` is the await at which the run is. Every event is written before the consumer sees
it; `writes` are the events under way in order (the storage answers in the order of the calls), `eventLog` is
what is stored, `said` what the consumer was told. Of `ActLoop` the model has what concerns inputs: what a
turn takes up, that a pending input gives up a turn or a completion check, when inputs are reported as
applied, and the ways a run ends or pauses (`Pause`, `Stalled`, `BudgetSpent`, `InputAskedFor`). `Steer`,
`Ingest`, `SteerEmits`, `SteerEnds` are the awaits of one steer. What a pause or a refused completion tells
beside its state is one event with it.

### RemoteNodePairing

A connection is numbered as it is dialed and has two queues of frames; `carrier` is its socket as the node sees
it, `hand` its `phase`, `who` its `clientId`. `device[d]` is the client of one host: the socket it holds, the
clientId and key it would store, `fresh` the key pair of a pairing it has begun, and the code it was given. A
clientId or a key is named by the connection on which it was made, a code by its window, so that equality is all
that is left of signatures and digests. `window`, `refusals` and `blocked` are the gate; expiry of the window and
of the lockout are actions.

`credential` and `onDisk` are the node's memory and file. What the code awaits is cut there: `handlePair` is
`AcceptPair`, then `CredentialSaved` (the rename) or `CredentialSaveFails`, then `FinishPair`; `unpair` is
`Unpair`, then `ClearLands` or `ClearFails`; `start` is `StartReads`, then `StartListens`. `load` gives nothing when
the file cannot be read or is not valid, at any start of a node that has one. `Closing` and
`Granting` are `closeConnection` and `grantReady`. `StopNode` cancels the window and closes every connection; a
save or removal under way goes on. `NodeCrash` keeps the file only, `RenewClient` what the device has stored.

History: `entangled` says that two of save, removal and load have overlapped, or a removal failed, since the
node was started; `revived` are connections made ready after they had been closed; `unread` says that the last start
did not get the credential in the file. The two properties exempt exactly these (section 5).

## 3. Runs

| Run | What it asks | Bounds |
| --- | --- | --- |
| `runner` | every race around one runner, and the deadline as a backstop when no capability returns | 2 callIds, 3 call objects, pool of 1, cache of 1: a call can queue, be evicted and come back, and a callId can run twice after its outcome was lost |
| `link_safety` | what replay, abort, timeout, idle timeout, disposal, stop and start and an unwritable result may do | 2 callIds, 3 call objects, 2 connections, 1 restart: one break with every state of the queues, and a replay after it |
| `link_refinement` | the caller's contract under breaks, silence, process death, timeouts, manifest changes | 1 callId, 3 connections, 1 restart, 2 revisions |
| `link_liveness` | every pending call is settled | 1 callId, 3 connections |
| `transactions` | what a failing, crashing, recovering kernel does to the files of two transactions | 2 transactions of which one changes both files and the other one of them, 2 faults of failing stores, failing writes, crashes and edits from outside, a history that holds one transaction |
| `updater` | what dying updaters leave behind | 3 processes of which one may die, 2 versions of which one may be sick, 1 version retained, 3 calls |
| `queues` | order, exclusion and answers of everything that queues | 3 processes (one mortal) and 1 further read for the update lock; 3 requests for every subset of 3 paths; 3 tasks, 2 roots; 4 effects, 2 resources; 3 operations, 2 keys; 3 events |
| `services` | the services of one process | 2 processes with 2 requests of one invocation id; 2 modules and 1 replacement; 3 calls for 2 jobs, concurrency 1, 1 waiter; 3 inputs and 1 fault; 2 devices, 3 connections, 2 pairing windows, lockout after 2 wrong codes, 1 upset (break, failed save, new client, unpair, stop or crash) |
| `link_stop_start`, `update_lock_stolen`, `transactions_lost_record`, `module_host_replace` | what the documentation says and the code does not do (section 5) | the smallest that shows it |

What the properties say is in the comment before each; the run's `about` in `PROJECT.json` sums it up, and
the hazard list there says which hazard each is for.

Why these bounds. In the link, a second callId matters where calls share the pool, the cache and the
replay loop (`link_safety`, `runner`) and not for the contract of one call (`link_refinement`). A result
too large for a frame occurs in `link_safety` and not in `link_refinement`; that it keeps the contract is what
the theorem adds there. Three
connections are the current one, its predecessor whose end the node has not noticed, and the one before.
Two transactions with a common file have every conflict two commands can have; two faults are a failing
store and the crash that makes it matter, or a failed write and a failed restore. Three processes on the
lock file are a dead owner, the reclaimer and the one it robs; three calls of the updater are an install,
an activation cut short, and what the next one makes of it. Three or four entries of a queue make chains in
which one waits behind another that itself waits. In the operation runtime two processes are enough for every
race of two parties on the record. Three inputs of a session are the one it was submitted with and two steers,
or one that an earlier run left over; a crash after which the session goes on uses the one fault. Three connections
are two devices that pair at once and one of them again; the pairing model alone was also run with two upsets, which
shows no more. Where there is
a theorem (section 4) it removes the bound.

`MaxConns`, `MaxRevision`, `MaxRestarts`, `MaxFaults`, `MaxCalls`, `MaxEvents`, `MaxLinks`, `MaxWindows`,
`MaxUpsets` appear in guards of the environment's moves only. The last connection cannot break, so that the
bound on dials does not make a client give up.

Deadlock is not checked: in all of them there is nothing left to do once everything asked for is done, the
process has ended, or the bounds are used up. Where waiting for ever would be the fault, a liveness
property says so (`DeadlineBackstop`, `EventuallyAnswered`, `EveryoneServed`, `RecoveryCompletes`, `SickIsLeft`).

### Fairness

* `runner` assumes that timers fire (weak fairness of `Deadline`), because the event loop runs them;
  nothing is assumed of capabilities.
* `link_liveness` assumes in addition that the reconnect timer fires and that each end handles the frames
  and close events that have arrived (weak fairness per connection). No fairness is given to answers of
  capabilities, to callers and to faults. The client's own timeout is switched off there: the claim is that
  the node's deadline, its cache and the replay suffice.
* `transactions` assumes that the creation of a kernel goes on: it is one async function, its file operations
  complete, and a host that finds no kernel creates one. Commands may stop anywhere.
* `updater` assumes that in a living process the file operations of an operation and the release in its
  `finally` block complete (weak fairness per process).
* `queues` assumes that file operations and timers complete in a process that lives, that a granted
  transaction unlocks and a running task ends (both in `finally` blocks), and that storage and handler of the
  delivery answer. Nobody has to come.

## 4. Proofs

All theorems are about the specification with constants of any size, under the assumption named in the module
(`RunnerAssumption`, `JournalAssumption`, `LockAssumption`, `LockManagerAssumption`, `UpdaterAssumption`,
`EffectAssumption`, `DeliveryAssumption`, `TransactionAssumption`, `HostAssumption`, ...); a stronger
hypothesis is in the theorem itself.

**RemoteNodeLinkProofs**, the call runner: `PoolDiscipline`, `OneVerdict`, `NoSecondExecution`,
`ActivityMatchesBook`, and the types. They are not inductive by themselves. `RunnerInv` adds what they rest
on: `BookConsistent` (a call in the book is unsettled and in the pool, an unsettled call is in the book, a
stopped runner has an empty book), `QueueConsistent` (the wait queue holds exactly the waiting tasks, each
once: needed for the slot count), `MemoryConsistent` (a settled callId is cached or lost, and never cached
while in flight: needed for `NoSecondExecution`) and `AuditConsistent`. There is one lemma per action; the
four shared effects (writing the cache, `Settle`, `Enter`, `Leave`) are lemmas of their own. The counting
argument of the pool is in `EnterEffect` and `LeaveEffect`: one task leaves `Executing`, at most one enters
it. `OneTerminalResult` follows from one cache entry per callId (`CacheKeys`) and from the two kinds of steps
(`CacheStep`): a step that settles writes an entry for a callId that was not cached, every other step that
sends a verdict reads it from the cache.

**ServicesProofs**, operation runtime: `RunsOnce`, `PreparedBeforeHandler`, `ReceiptIsTrue`, `AnswersAreDurable`,
`SoundReconciliation`. `RuntimeInv` adds where the record stands when its owner is at a given await
(`OwnerConsistent`: there is one owner, it found no receipt, the handler has not run before `handler`),
what the record alone implies (`RecordConsistent`), and that an answer of the domain stays true until it is
stored (`CheckConsistent`). The first lemmas translate updates of the functions of records into what they
do to each field; `MoveKeepsInv` and `CheckKeepsInv` handle every step that moves one dispatch or one
reconcile and nothing else, so that the actions that write the record or the world remain.

**KernelUpdaterProofs**, the lock: `LockInv` (unless a living process was robbed, a process past its `Open` is the
creator of what is at the path), `ExclusiveUnlessRobbed`, and `ExclusiveWhileAllLive`, which needs that
nobody judges an owner dead while all live.

**KernelUpdaterProofs**, the updater: `UpdaterInv` is `LockInv`, the types, and what the holder of the lock knows: the
directories named by the pointer have their record, and one with a record is whole unless its removal was cut
short (`DiskSound`), what a job is about to do to a directory is
something the pointer does not name, and a staging directory that is not the holder's belongs to a dead
process. Every step of the updater is a step of the lock or leaves it alone (`UpdaterTakesLockSteps`), so the
theorems about the lock carry over; unless the lock was robbed there is one process with a job, and its
knowledge stays true until it acts. It gives `ActiveIsInstalled`, `RollbackTargetKept`, `RecordMeansWhole`, the
action property `OrphansAreDead` and `ExclusiveWhileAllLive`.

**OrderedAdmissionProofs**: of the abstract queue that admitted requests are not in conflict and that nobody is
admitted past an earlier one in conflict with it, for any symmetric conflict.

**QueuesProofs**, the four queues implement `OrderedAdmission`.
* Path locks: `LockManagerInv` (registry, queue and grants agree; the queue is a line), `Exclusive`,
  `NothingGrantable` and the action property `NoOvertaking`. The argument is about `Drain`: what it grants
  has no path in common with the holders, with each other, or with those in front, so a pass over a consistent
  queue admits exactly those who wait for nobody (`DrainAdmits`).
* The loop of `drainQueue` (`ScanIsFaithful`, the action property `ScanIsOnePass`): those that wait are the entries of
  one array (`QueueStands`, kept by every step), and who is in front of whom fixes it (`ArrangedUnique`). Wherever
  the loop stands, after granting any of those that the pass grants, it can grant exactly the others of
  them (`AbleIsGrantable`): what an entry in front leaves behind when it is granted are its locks, and those that the
  pass grants share no path. So each round grants one more of them until there is none (`RoundGrants`), and as many
  rounds as there are entries are enough (`ScanGrants`).
* Effects: by the invariant the map holds exactly who waits or runs, and only who waits has predecessors;
  exclusion then follows from that of the abstract queue.
* Project gate: `GatesInv` says of each gate that its queue holds exactly who waits at it, each once
  (`LineSound`), that it counts its readers and that who writes is alone (`WorkSound`), and that whoever is
  there is at the gate of its root, of which each root has one (`MapSound`); so a gate that nobody uses can go
  and a new one starts empty.
* Queue by key: of a key, the tail and the chain before it are exactly the operations that are there (`SerialInv`).
* `QueuesAdmitInOrder` and `QueuesDeliverInOrder` state this for the composition that the run `queues` checks: a
  behaviour of it is a behaviour of each component's specification (`EachQueueBehaves`).

**QueuesProofs**, the delivery: `PrefixHandedOver`. The invariant relates the tail's turn to what was handed over
and to the first failure, and says who was answered.

**ServicesProofs**, agent supervision: `SupervisorInv` and the action property `ClosedIsQuiet`. The inductive invariant
adds that only the first request in the gate is past its check and that its place is still free (`GateInv`), and that
while a request is past its check `close` still waits for the gate, for that request or one behind it (`CloserInv`).

**ServicesProofs**, pairing: `MemoryMatchesDisk` and `ReadyIsPaired`. `DiskInv`: unless save,
removal and load overlapped, memory and file agree but between the two ends of the one operation under way, or memory
is empty because the file was not read.
`DevicesInv`: by the phase of a connection, what its one device and the node have told each other on it (`Exchange`);
after the last word of the node the device has, or is about to have, the key of the credential.

**ServicesProofs**, module host: `OnlyLiveServices` and the action property `SwapKeepsService`, for a plan of any length
and any number of replacements. `HostInv` adds:
* `BelongInv`: a record stays with its module, and so do the current record, the visible one and the one that a
  replacement replaces; a record that no call has begun is not referred to by anyone.
* `StartInv`: the start alone activates the first records, in the order of the plan, and a module whose first
  record is still in its activate hook (`Young`) has that record as its current one. It is why `startOnce`,
  which looks a record up when its step begins, never takes a replacement for the record it is to activate.
* `Older`, of a module on which no two calls crossed: at most one replacement is under way, one generation ahead of the
  current record; whatever else is registered is of the current generation or one before. Hence what becomes visible is
  the new record itself, and a clean-up of the old or the failed generation cannot meet the current one, although
  `removeOwner` goes by module and generation only.
* `DisposeInv`: what dispose has passed has no active context, and stays so.

Most actions register nothing and begin no generation (`Calm`); for those `BelongInv` and `Older` are kept by one lemma
each. `RegisterService`, `ReplaceModule` and `SwapIn` have proofs of their own.

**ActRunServiceProofs**: `ConsumedOnce`, `NothingForgotten` and `EndIsLast`, for any inputs and any number of
runs, failed writes and crashes. They rest on each other: that nothing is applied twice needs that what a turn took up
is not yet applied, and that nothing is forgotten needs that an input leaves the line only into the storage.
`ActInv` adds what each await relies on:
* `LineInv` and `WritesInv`: the line holds exactly the steers that have not settled, only the first of them is past
  `Ingest`; of the events to be written at most one is a steer's and at most one the run's, and the place of the run
  says which (`RunWrites`). So a write that ends, or fails, finds its writer where it was left.
* `LogInv` and `InputsInv`: what is still to be written is not stored, and the lists `inputs` and `prepared` hold each
  input once, stored, not applied, and not the run's own (`Waiting`). `WhatIsLeft` says what a first turn restores.
* `EndInv`: the run waits for the last input of the line and takes no more, so the line is empty when it begins to tell
  of the unapplied inputs, and none is added; what it has told so far is a prefix of them. A pause tells no terminal
  state, and its line may grow.

Lemmas of `SubsequencesProofs` translate appending, removing, joining and filtering of lists into sets; with them no
proof of an action speaks of places in a list.

**RemoteNodeLinkProofs**, the link: the properties of client and node over any number of connections, calls
and restarts.
* `LinkInv` is the runner's invariant with five parts about the link: what the phase of a connection allows to be under
  way in either direction (`UpInv`, `DownInv`), how wire, phase and the client's state go together (`ConnInv`), what the
  ledger implies (`LedgerInv`: an entry that was never dispatched has no frame anywhere), and where a dispatched call is
  (`TracedInv`: its frame is still under way, or the node knows it, or its answer is on the way). It gives
  `NeverUnauthorized`, `NoCallForgotten`, `UnsentNeverRuns` and `SettledOnce`.
* `OnceInv`: until the server is first stopped no outcome is lost and no callId has two call objects; it gives
  `AtMostOnceUntilStopped`.
* `LinkImplementsRemoteCall` is the refinement: `LostInv`, `OneRun`, `WorkIsBegun` and `Agreed` tie what the client was
  told to what the runs of the call have done, and one lemma per action maps it to a step of `RemoteCall` or none. The
  delicate steps are the settlement (`success` and `denied` must be the answer of the one run), the ready frame that
  fails all calls of a former process, and the begin of a run, which must not follow a refusal.

The last two are proved under hypotheses that the code needs too. `CacheSuffices`: the result cache has room for
every callId; with a smaller one a result may be evicted during a break and the replay runs the call again (section 5,
`lost`). For the refinement also `OneProcess`: no `stop()` with a `start()` of the same server object; with it the
contract is false, as `link_stop_start` shows.

**ProjectTransactionsProofs**: `TransactionInv`, `AllOrNothingUnlessExposed` and the action properties
`OutsideEditsKept` and `RollbackRestores`, for any transactions, files and faults (liveness of the recovery
stays with TLC). `TxInv` says of each transaction, besides the types:
* `SoundAt`, of memory and of the state file alike: a record names the status its operation began with and has a content
  for every file of the transaction; an applied transaction that is known has the byte plan with which it was applied.
* `Stage`: what a command relies on at each of its awaits. At "reading" the captured transaction is still the one in
  memory, so putting it back changes no status; at "writing" the record with what was read is in memory,
  and the byte plan is there, so each write is compared with it; a file that has been compared and not yet replaced
  (`InHand`) was found as the record has it, whatever is in it by now; a rollback that has written a file finds there
  what the apply found, or an edit from outside; while files are put back the record is still there. The
  conjuncts that another command can take away (the plan, the record) hold unless it is in `replanned` or `exposed`.
* `Recorded`: what is unsettled is in the record in memory, and the record in memory is the one on disk. The second half
  is why a crash at any moment finds it: a store writes the whole memory, and a store that fails leaves the old file,
  which has the record from before the first write.

Of the lists only membership matters: `Lighter` says of evicting, capping and retaining that they drop transactions
with their plans and touch neither status nor record. `StepKeeps` splits a step into the transactions it is about and
the others, for which `Elsewhere` (memory spared, command continued or over) suffices; each action then has one lemma
about its own transaction. `AbsenceAssumption` states that the value for "no plan" or "no record" is neither.

**SubsequencesProofs**: what is in `Kept(q, S)`, and in a list that is appended to, joined or loses its head.
`SelectSeq` takes an operator, about which nothing can be proved here, so the models filter with `Kept`, and remove
one element by its place.

Only model-checked: liveness (`DeadlineBackstop`, `EventuallyAnswered`, `RecoveryCompletes`, `SickIsLeft`,
`EveryoneServed`), which is outside the prover's reach, and so is `ENABLED`. Every invariant and every action property
of the passing runs is a theorem.

## 5. What the runs found

* `link_stop_start`: `stop()` followed by `start()` on one `RemoteNodeServer` makes a new runner with an
  empty cache and keeps the epoch. The client replays and the call runs twice.
* `update_lock_stolen`: between judging the old owner dead and unlinking the path another reclaimer may have
  created its own file; the unlink takes the lock away from a living process.
* `transactions_lost_record`: a commit drops the recovery record (`LocalProjectKernel.ts:1082`) before it is
  published. When publishing fails the files are restored, but another command that stores meanwhile stores
  no record of them; after a crash some files are written, and nothing says so.
* `module_host_replace`: two overlapping `replaceModule` calls of one module get the same generation number.
  When the second one fails, its clean-up removes the services of the first one, which is live.

Seen while modelling, not counted as a finding:

* Nothing keeps a writer out between the last comparison of a file and its replacement: `replaceFileAtomically` awaits
  `assertBytesOnDisk` and then `rename` (core `text-files/utils/file-io.ts:184-187`), `FileStore.remove` awaits
  `assertUnchanged` and then `rm` (`FileStore.ts:693-697`). An edit from outside made in that gap is overwritten, and
  no recovery record holds it. The project's INV-5 (`spec/invariants.md:33`) and its README (line 80) promise without
  reservation that an undo does not overwrite such an edit; the code keeps the promise up to the gap.
  The properties say the same: `OutsideEditsKept` exempts the edits of the gap (`seen`), and in
  `AllOrNothingUnlessExposed` a file goes back to what it was when it was last compared.
* `drainQueue` rescans "because granting changes what can be granted behind: an entry blocked by one that has
  left may now be grantable" (`LockManager.ts:12-13`). It never happens: a granted entry holds the very paths it
  had been waiting for, so whoever overlapped it in the queue overlaps it among the locks. `ScanIsOnePass` checks,
  and `ScanIsFaithful` proves, that one linear scan grants the same; the loop is harmless and its reason is wrong.
* A process that dies while a version is being removed can leave the installation record with files missing.
  `installation.ts:23` takes the record for a complete install, and `activate` and `resolveCompatible`
  (`KernelUpdater.ts:256-273`, 410) ask for nothing else, so they make such a version active. `ActiveIsInstalled`
  therefore promises whole files only for versions whose removal was not cut short (`interrupted`).
* `FileRemoteNodeServerCredentialStore.load` (45-65) logs an unreadable or invalid file and returns null. The node
  then runs unpaired although the file is still there, and a later start that can read it brings
  the credential back. `MemoryMatchesDisk` says so (`unread`).
* The deadline verdict of a remote call is reported as final while the capability may still execute.
* `OperationRuntime.reconcile` looks for a running dispatch before its first await only; a dispatch that claims
  the id in between is asked about while it runs. `SoundReconciliation` is about domains asked after the dispatch
  has ended.
* The result cache is bounded, so a call whose result was evicted during a break runs again when it is replayed
  (`lost` in `NoSecondExecution`, which for the same reason does not notice the second execution after `stop()` and
  `start()`: `link_stop_start` does). An authenticate frame of an abandoned connection can replace the newer one,
  and the client then stops as superseded.
* `replaceModule` that overlaps `dispose` swaps a live module into a disposed host
  (`KernelModuleHost.ts:338-341`); `OnlyLiveServices` and `SwapKeepsService` exempt such modules (`crossed`).
* A process that dies between the removal of an installed version and the rename of the new one leaves the
  rollback target missing (`interrupted`); one that dies during the health check leaves the version it tried
  active (`upset`).
* A refused operation puts back the byte plans of all transactions as they were at its start
  (`LocalProjectKernel.ts:1038`): another command's plan can be replaced. `AllOrNothingUnlessExposed`,
  `OutsideEditsKept` and `RollbackRestores` exempt such plans (`replanned`) and would not notice this one.
* The byte budget spares a transaction that is being written (`TransactionRepository.capBytes`, as its comment
  promises); the limit on terminal transactions does not (`capTerminalTransactions`, line 182). When an apply ends
  while the rollback of an older transaction is under way, that one leaves the repository with its byte plan: its
  further writes are compared with nothing, an edit from outside made meanwhile is overwritten, and
  the recovery record is not what was there. Two transactions without a common file show it; `replanned` exempts them.
* `AgentSupervisor.status()` can call a run interrupted while its resume is being written, and a run paused at
  a limit of the user is stored as waiting, which a restart reads as interrupted.
* `handlePair` asks nothing about its connection after the save: one that has been closed meanwhile, by the network
  or by `stop()`, becomes the ready connection, its phase leaves `closed`, and stays it until
  its close event, if that is still to come, or until another connection replaces it (`revived`).
* `unpair()`, a second pairing, or `stop()` and `start()` beside a save that is under way can leave the node with one
  credential in memory and another on disk until its next start (`entangled`). With `unpair()` before the end of the
  save, the client is paired again as soon as the save is over.
* A device whose `paired` frame was lost is known to the node and has no key. On its next connection it answers the
  challenge with `pair`, as `handshake.ts:28-29` intends, and the node refuses it as unauthorised
  (`RemoteNodeServer.ts:334-336`); it stops, and has to come back with another clientId or after an `unpair()`.
* A call of the previous client that settles after `forgetCompleted` stays in the result cache. Call ids are distinct
  random values, so nobody asks for it.

## 6. Not modelled

* Remote node pairing: a second `unpair()` while the first removes the file, `start()` calls that overlap each other
  or a `stop()`, a fixed pairing code of the operator, the file in which the device keeps its credential (a
  save or a removal that fails there is a choice of `RenewClient`).
* Project transactions: `fixTransaction`, hooks, git's index, the change feed and the rebase of a patch chain
  (an apply over changed files is refused or not, by the comparison of bytes).
* Kernel module host: the handles by which a module takes back a single registration, and the event hub.
* Agents: interactions of a child in detail (a run that asks is one status), reply, send, cancellation of a
  parent's children; the questions a program asks the user; the turns of the model.
* Operation runtime: the index that `ContextInvocationJournal.list` reads, and the close deadline of `dispose`
  (it reports what is pending and does not stop the drain).
* Contents of frames, receipts, manifests, signatures and schemas everywhere.

