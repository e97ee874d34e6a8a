--------------------------- MODULE OperationRuntime ---------------------------
(***************************************************************************)
(* One invocation id, carried out by the runtimes (processes) that share   *)
(* its journal.  A runtime has at most one dispatch of an id at a time:    *)
(* further calls join the one under way.  A reconcile asks the domain what *)
(* became of an invocation whose effect is unknown.                        *)
(*                                                                         *)
(* One action is what happens between two awaits.  The caller's own wait   *)
(* ends when it aborts; the dispatch goes on, so only the dispatch is      *)
(* modelled, with the abort as a flag it reads.                            *)
(***************************************************************************)
EXTENDS InvocationJournal

CONSTANT Runtimes

VARIABLES
  dispatch,   \* runtime -> its dispatch of the id: where it is, and its locals
  checking,   \* runtime -> its reconcile of the id, in the same way
  life,       \* runtime -> open, closing (no more calls) or drained
  world,      \* what the operation has really done
  runs,       \* how many times a handler was entered
  answers,    \* history: the effects in the receipts handed to callers
  overlapped  \* history: the domain was asked about a dispatch still under way

worldVars   == <<world, runs>>
historyVars == <<answers, overlapped>>
runtimeVars == <<record, dispatch, checking, life, worldVars, historyVars>>

\* The dispatch that created the record goes through these, in this order.
Owning == {"preparing", "loadPrepare", "swapPrepare", "dispatching", "handler",
           "loadSettle", "swapSettle"}

\* request: the fingerprint of the call; version: of the record it loaded;
\* effect: in the receipt it settles; aborted: its signal.
Dispatching ==
  [at : {"idle", "reading", "claiming", "rereading"} \cup Owning,
   request : Requests \cup {None}, version : Nat, effect : Effects, aborted : BOOLEAN]

Reconciling ==
  [at : {"idle", "reading", "asking", "loading", "swapping"},
   version : Nat, effect : {"none", "committed"}]

RuntimeTypeOK ==
  /\ record \in RecordType
  /\ dispatch \in [Runtimes -> Dispatching]
  /\ checking \in [Runtimes -> Reconciling]
  /\ life \in [Runtimes -> {"open", "closing", "drained"}]
  /\ world \in {"none", "committed"}
  /\ runs \in Nat
  /\ answers \subseteq Effects
  /\ overlapped \in BOOLEAN

NoDispatch ==
  [at |-> "idle", request |-> None, version |-> 0, effect |-> "none", aborted |-> FALSE]
NoCheck == [at |-> "idle", version |-> 0, effect |-> "none"]

RuntimeInit ==
  /\ JournalInit
  /\ dispatch = [r \in Runtimes |-> NoDispatch]
  /\ checking = [r \in Runtimes |-> NoCheck]
  /\ life = [r \in Runtimes |-> "open"]
  /\ world = "none" /\ runs = 0
  /\ answers = {} /\ overlapped = FALSE

Goto(r, label) == dispatch' = [dispatch EXCEPT ![r].at = label]
Done(r) == dispatch' = [dispatch EXCEPT ![r] = NoDispatch]

-----------------------------------------------------------------------------
(* A dispatch. *)

\* invoke: start a dispatch of the id with this request.
Invoke(r, req) ==
  /\ life[r] = "open"
  /\ dispatch[r].at = "idle"
  /\ dispatch' = [dispatch EXCEPT ![r].at = "reading", ![r].request = req]
  /\ UNCHANGED <<record, checking, life, worldVars, historyVars>>

\* The physical dispatch ends. Its stored receipt is handed to the caller, or
\* it rejects: another request has this id, or the record has no receipt and
\* must be reconciled, never dispatched again.
Answer(r) ==
  /\ Done(r)
  /\ answers' = IF record.request = dispatch[r].request /\ record.receipt # None
                THEN answers \cup {record.receipt} ELSE answers

\* The dispatch rejects before it has claimed the id: start failed, the runtime
\* is closing, the binding or the input is not valid.
Refuse(r) ==
  /\ dispatch[r].at = "reading"
  /\ Done(r)
  /\ UNCHANGED <<record, checking, life, worldVars, historyVars>>

\* MUTATED ReadPrior: a reserved id that never reached its handler is taken up again.
ReadPriorResumed(r) ==
  /\ dispatch[r].at = "reading"
  /\ CASE record.version = 0 -> Goto(r, "claiming") /\ UNCHANGED answers
       [] LoadedForPrepare(dispatch[r].request) -> Goto(r, "preparing") /\ UNCHANGED answers
       [] OTHER -> Answer(r)
  /\ UNCHANGED <<record, checking, life, worldVars, overlapped>>

\* journal.read after the checks: a record that exists ends the dispatch.
ReadPrior(r) ==
  /\ dispatch[r].at = "reading"
  /\ IF record.version = 0 THEN Goto(r, "claiming") /\ UNCHANGED answers ELSE Answer(r)
  /\ UNCHANGED <<record, checking, life, worldVars, overlapped>>

\* journal.claim: reserve the id, or find that somebody else just did.
ClaimId(r) ==
  /\ dispatch[r].at = "claiming"
  /\ \/ Claim(dispatch[r].request) /\ Goto(r, "preparing")
     \/ record.version # 0 /\ Goto(r, "rereading") /\ UNCHANGED record
  /\ UNCHANGED <<checking, life, worldVars, historyVars>>

ReadExisting(r) ==
  /\ dispatch[r].at = "rereading"
  /\ Answer(r)
  /\ UNCHANGED <<record, checking, life, worldVars, overlapped>>

\* The dispatch goes on to settle a receipt with this effect.
SettleWith(r, e) == dispatch' = [dispatch EXCEPT ![r].at = "loadSettle", ![r].effect = e]

\* The mode is denied, prepare or beforeDispatch throws, or the signal was
\* aborted: a receipt that says that nothing was done.
FailPrepare(r) ==
  /\ dispatch[r].at = "preparing"
  /\ SettleWith(r, "none")
  /\ UNCHANGED <<record, checking, life, worldVars, historyVars>>

\* prepare and beforeDispatch return, and the signal is still not aborted.
PrepareInput(r) ==
  /\ dispatch[r].at = "preparing" /\ ~dispatch[r].aborted
  /\ Goto(r, "loadPrepare")
  /\ UNCHANGED <<record, checking, life, worldVars, historyVars>>

\* journal.prepare; if it rejects, so does the dispatch, without a receipt.
LoadPrepare(r) ==
  /\ dispatch[r].at = "loadPrepare"
  /\ IF LoadedForPrepare(dispatch[r].request)
     THEN dispatch' = [dispatch EXCEPT ![r].at = "swapPrepare", ![r].version = record.version]
     ELSE Done(r)
  /\ UNCHANGED <<record, checking, life, worldVars, historyVars>>

SwapPrepare(r) ==
  /\ dispatch[r].at = "swapPrepare"
  /\ \/ Prepare(dispatch[r].version) /\ Goto(r, "dispatching")
     \/ record.version # dispatch[r].version /\ Done(r) /\ UNCHANGED record
  /\ UNCHANGED <<checking, life, worldVars, historyVars>>

\* Claiming, preparing or settling rejects (the storage fails): so does the
\* dispatch, and the record stays as it was.
FailJournal(r) ==
  /\ dispatch[r].at \in {"claiming", "rereading", "loadPrepare", "swapPrepare", "loadSettle",
                        "swapSettle"}
  /\ Done(r)
  /\ UNCHANGED <<record, checking, life, worldVars, historyVars>>

\* Cancelled before the handler: the signal, the closing runtime or a binding
\* released meanwhile.
CancelDispatch(r) ==
  /\ dispatch[r].at = "dispatching"
  /\ SettleWith(r, "none")
  /\ UNCHANGED <<record, checking, life, worldVars, historyVars>>

\* invokeCapability rejects before the handler: the module is not available.
RejectDispatch(r) ==
  /\ dispatch[r].at = "dispatching" /\ ~dispatch[r].aborted /\ life[r] = "open"
  /\ Done(r)
  /\ UNCHANGED <<record, checking, life, worldVars, historyVars>>

\* The handler is entered.
EnterHandler(r) ==
  /\ dispatch[r].at = "dispatching" /\ ~dispatch[r].aborted /\ life[r] = "open"
  /\ Goto(r, "handler")
  /\ runs' = runs + 1
  /\ UNCHANGED <<record, checking, life, world, historyVars>>

\* At some moment the handler does what it does.
CommitWork(r) ==
  /\ dispatch[r].at = "handler"
  /\ world' = "committed"
  /\ UNCHANGED <<record, dispatch, checking, life, runs, historyVars>>

\* MUTATED LeaveHandler: a call cancelled while its handler ran counts as not done.
LeaveHandlerCancelled(r) ==
  /\ dispatch[r].at = "handler"
  /\ \E e \in {world, "unknown"} : SettleWith(r, IF dispatch[r].aborted THEN "none" ELSE e)
  /\ UNCHANGED <<record, checking, life, worldVars, historyVars>>

\* The handler returns or throws, aborted or not. The effect in the receipt is
\* the true one or unknown: what a handler declares is not checked by the code.
LeaveHandler(r) ==
  /\ dispatch[r].at = "handler"
  /\ \E e \in {world, "unknown"} : SettleWith(r, e)
  /\ UNCHANGED <<record, checking, life, worldVars, historyVars>>

\* journal.settle; its failure is kept for dispose, and the dispatch rejects.
LoadSettle(r) ==
  /\ dispatch[r].at = "loadSettle"
  /\ IF LoadedForSettle(dispatch[r].request)
     THEN dispatch' = [dispatch EXCEPT ![r].at = "swapSettle", ![r].version = record.version]
     ELSE Done(r)
  /\ UNCHANGED <<record, checking, life, worldVars, historyVars>>

\* MUTATED SwapSettle: a swap that was lost does not fail the dispatch.
SwapSettleIgnoringLoss(r) ==
  /\ dispatch[r].at = "swapSettle"
  /\ Done(r)
  /\ answers' = answers \cup {dispatch[r].effect}
  /\ \/ Settle(dispatch[r].version, dispatch[r].effect)
     \/ record.version # dispatch[r].version /\ UNCHANGED record
  /\ UNCHANGED <<checking, life, worldVars, overlapped>>

\* The receipt is handed to the caller once it is stored.
SwapSettle(r) ==
  /\ dispatch[r].at = "swapSettle"
  /\ Done(r)
  /\ \/ /\ Settle(dispatch[r].version, dispatch[r].effect)
        /\ answers' = answers \cup {dispatch[r].effect}
     \/ record.version # dispatch[r].version /\ UNCHANGED <<record, answers>>
  /\ UNCHANGED <<checking, life, worldVars, overlapped>>

\* The caller aborts: its wait ends, the dispatch sees the signal.
Abort(r) ==
  /\ dispatch[r].at # "idle"
  /\ dispatch' = [dispatch EXCEPT ![r].aborted = TRUE]
  /\ UNCHANGED <<record, checking, life, worldVars, historyVars>>

-----------------------------------------------------------------------------
(* A reconcile. At most one at a time in each runtime. *)

StopCheck(r) == checking' = [checking EXCEPT ![r] = NoCheck]

\* reconcile: refused while this runtime has a dispatch of the id.
StartReconcile(r) ==
  /\ life[r] = "open" /\ checking[r].at = "idle"
  /\ dispatch[r].at = "idle"
  /\ checking' = [checking EXCEPT ![r].at = "reading"]
  /\ UNCHANGED <<record, dispatch, life, worldVars, historyVars>>

\* There is something to ask only if a record exists and its result is not certain.
ReadInDoubt(r) ==
  /\ checking[r].at = "reading"
  /\ IF record.phase # "absent" /\ ~Certain
     THEN checking' = [checking EXCEPT ![r].at = "asking"]
     ELSE StopCheck(r)
  /\ UNCHANGED <<record, dispatch, life, worldVars, historyVars>>

\* The dispatch that owns the record is under way somewhere.
UnderWay == \E r \in Runtimes : dispatch[r].at \in Owning

\* The domain answers with what it finds.
AskDomain(r) ==
  /\ checking[r].at = "asking"
  /\ checking' = [checking EXCEPT ![r].at = "loading", ![r].effect = world]
  /\ overlapped' = (overlapped \/ UnderWay)
  /\ UNCHANGED <<record, dispatch, life, worldVars, answers>>

\* There is no reconciler, it does not know or throws, the wait was aborted, the
\* binding has changed, or the journal fails.
GiveUpReconcile(r) ==
  /\ checking[r].at # "idle"
  /\ StopCheck(r)
  /\ UNCHANGED <<record, dispatch, life, worldVars, historyVars>>

LoadReconcile(r) ==
  /\ checking[r].at = "loading"
  /\ IF LoadedForReconcile
     THEN checking' = [checking EXCEPT ![r].at = "swapping", ![r].version = record.version]
     ELSE StopCheck(r)
  /\ UNCHANGED <<record, dispatch, life, worldVars, historyVars>>

SwapReconcile(r) ==
  /\ checking[r].at = "swapping"
  /\ StopCheck(r)
  /\ \/ Reconcile(checking[r].version, checking[r].effect)
     \/ record.version # checking[r].version /\ UNCHANGED record
  /\ UNCHANGED <<dispatch, life, worldVars, historyVars>>

-----------------------------------------------------------------------------
(* The life of a runtime. *)

\* drain: no more calls, and the signals of all that are under way abort.
Close(r) ==
  /\ life[r] = "open"
  /\ life' = [life EXCEPT ![r] = "closing"]
  /\ dispatch' = [dispatch EXCEPT ![r].aborted = @ \/ dispatch[r].at # "idle"]
  /\ UNCHANGED <<record, checking, worldVars, historyVars>>

\* MUTATED Drained: what the callers wait for is awaited, not the work itself.
DrainedObserved(r) ==
  /\ life[r] = "closing"
  /\ dispatch[r].at = "idle" \/ dispatch[r].aborted
  /\ life' = [life EXCEPT ![r] = "drained"]
  /\ UNCHANGED <<record, dispatch, checking, worldVars, historyVars>>

\* finishClose: everything in flight has ended, the modules are disposed.
Drained(r) ==
  /\ life[r] = "closing"
  /\ dispatch[r].at = "idle" /\ checking[r].at = "idle"
  /\ life' = [life EXCEPT ![r] = "drained"]
  /\ UNCHANGED <<record, dispatch, checking, worldVars, historyVars>>

\* The process ends, killed or not, and a new one with a new runtime starts.
Restart(r) ==
  /\ Done(r) /\ StopCheck(r)
  /\ life' = [life EXCEPT ![r] = "open"]
  /\ UNCHANGED <<record, worldVars, historyVars>>

DispatchStep(r) ==
  \/ \E req \in Requests : Invoke(r, req)
  \/ Refuse(r) \/ ReadPrior(r) \/ ClaimId(r) \/ ReadExisting(r)
  \/ FailPrepare(r) \/ PrepareInput(r) \/ LoadPrepare(r) \/ SwapPrepare(r) \/ FailJournal(r)
  \/ CancelDispatch(r) \/ RejectDispatch(r)
  \/ EnterHandler(r) \/ CommitWork(r) \/ LeaveHandler(r)
  \/ LoadSettle(r) \/ SwapSettle(r) \/ Abort(r)

ReconcileStep(r) ==
  \/ StartReconcile(r) \/ ReadInDoubt(r) \/ AskDomain(r) \/ GiveUpReconcile(r)
  \/ LoadReconcile(r) \/ SwapReconcile(r)

LifeStep(r) == Close(r) \/ Drained(r) \/ Restart(r)

RuntimeNext == \E r \in Runtimes : DispatchStep(r) \/ ReconcileStep(r) \/ LifeStep(r)

RuntimeSpec == RuntimeInit /\ [][RuntimeNext]_runtimeVars

-----------------------------------------------------------------------------
(* What the journal promises to those who call through it. *)

\* Whatever crashes, retries and processes there are, the handler of one id is
\* entered at most once: the claim has one winner, and a record that exists is
\* never dispatched again (OperationRuntime.ts:450-455, "不能自动重放").
RunsOnce == runs <= 1

\* A handler runs on a call the journal holds as prepared, so that a crash in it
\* leaves a record to check ("调用处理器之前必须完成").
PreparedBeforeHandler ==
  \A r \in Runtimes : dispatch[r].at = "handler" =>
    record.phase = "prepared" /\ record.request = dispatch[r].request

\* A stored receipt that is certain says what was done, and nothing is done any
\* more: "none", which lets the caller retry, is never said of work that
\* was or will be committed, whenever the call was cancelled.
ReceiptIsTrue ==
  record.receipt # None => record.receipt \in {"unknown", world} /\ ~UnderWay

\* Every receipt a caller was given is the one the journal holds, then and for
\* ever: a later reader of the id cannot be told something else.
AnswersAreDurable == answers \subseteq {record.receipt}

\* If the domain was asked only after the dispatch had ended, its conclusion is
\* true and stays true: nobody takes the id up again.
SoundReconciliation ==
  ~overlapped /\ record.reconciliation # None => record.reconciliation = world /\ ~UnderWay

\* A runtime that has closed its modules has no work of this id left, not even
\* work its callers no longer wait for.
DrainedIsQuiet ==
  \A r \in Runtimes : life[r] = "drained" => dispatch[r].at = "idle" /\ checking[r].at = "idle"

\* "仍在执行的操作不能核对" (OperationRuntime.ts:653): no operation is checked with the
\* domain while its dispatch is under way. The code does not keep this: the guard
\* sees only this runtime's dispatches, and reads them before it reads the journal.
ReconcilesNoRunningOperation == ~overlapped

-----------------------------------------------------------------------------
(* The inductive invariant. *)

\* Where the owning dispatch stands tells where the record stands.
OwnerConsistent ==
  /\ \A r, q \in Runtimes : dispatch[r].at \in Owning /\ dispatch[q].at \in Owning => r = q
  /\ \A r \in Runtimes : dispatch[r].at \in Owning =>
       /\ record.version # 0 /\ record.request = dispatch[r].request /\ record.receipt = None
       /\ dispatch[r].at \in {"preparing", "loadPrepare", "swapPrepare", "dispatching"} => runs = 0
       /\ dispatch[r].at = "handler" => runs = 1
       /\ dispatch[r].at \in {"dispatching", "handler"} => record.phase = "prepared"
       /\ dispatch[r].at \in {"loadSettle", "swapSettle"} => dispatch[r].effect \in {"unknown", world}
  /\ \A r \in Runtimes : dispatch[r].at \in {"reading", "claiming", "rereading"} =>
       dispatch[r].request \in Requests

RecordConsistent ==
  /\ record.version = 0 <=> record.phase = "absent"
  /\ record.version = 0 => runs = 0 /\ record.receipt = None /\ record.reconciliation = None
  /\ record.version # 0 => record.request # None
  /\ record.phase # "settled" => record.receipt = None
  /\ runs = 0 => world = "none"

\* Once the domain was asked and the dispatch was over, it stays over.
CheckConsistent ==
  /\ \A r \in Runtimes : checking[r].at \in {"asking", "loading", "swapping"} => record.version # 0
  /\ \A r \in Runtimes : checking[r].at \in {"loading", "swapping"} /\ ~overlapped =>
       checking[r].effect = world /\ ~UnderWay

RuntimeInv ==
  /\ RuntimeTypeOK
  /\ RunsOnce
  /\ OwnerConsistent
  /\ RecordConsistent
  /\ ReceiptIsTrue
  /\ AnswersAreDurable
  /\ CheckConsistent
  /\ SoundReconciliation
  /\ DrainedIsQuiet

=============================================================================
