------------------------ MODULE RemoteNodeCallRunner ------------------------
(***************************************************************************)
(* The call side of a headless capability node: the bounded invocation     *)
(* pool, the FIFO cache of terminal results that makes a replayed callId   *)
(* safe, deadlines counted from receipt, best-effort cancellation, and the *)
(* stop that aborts everything without a verdict.                          *)
(*                                                                         *)
(* One action is one turn of the event loop: a frame handler, a timer or   *)
(* the continuation of a capability invocation, with the microtasks it     *)
(* schedules (a released pool slot is taken by the next waiter before any  *)
(* other frame is handled).                                                *)
(***************************************************************************)
EXTENDS Integers, Sequences, FiniteSets

CONSTANTS CallIds,   \* the call identifiers clients generate
          Clients,   \* the client identifiers
          Runs,      \* call objects: one per accepted submission
          Limit,     \* maxConcurrent of the pool
          Capacity,  \* capacity of the result cache
          None       \* null

ASSUME RunnerAssumption ==
  /\ Limit \in Nat \ {0}
  /\ Capacity \in Nat \ {0}
  /\ None \notin CallIds \cup Clients \cup Runs
  /\ IsFiniteSet(Runs)

VARIABLES
  calls,      \* callId -> the call object in flight, or None
  owner,      \* call object -> its callId, None while unused
  client,     \* call object -> the client that submitted it
  settled,    \* call object -> its settled flag
  stage,      \* call object -> where its task is in the pool
  active,     \* the pool's count of running tasks
  waiting,    \* the pool's queue of tasks without a slot
  completed,  \* the result cache, oldest entry first
  activity,   \* callIds the product stream shows as running
  audit,      \* call object -> how many audit entries it wrote
  sent,       \* the result handed to deliver in the last step, if any
  stopped,    \* the timer scope the runner shares with the server is disposed
  lost        \* history: callIds whose outcome this node no longer remembers

book     == <<calls, owner, client, settled>>
pool     == <<stage, active, waiting>>
records  == <<completed, activity, audit, lost>>
vars     == <<book, pool, records, sent, stopped>>

\* What an invocation can answer, and the verdicts the runner reaches itself.
Outcome == {"success", "denied", "failed"}
Status  == Outcome \cup {"stale", "cancelled", "deadline"}
Stage   == {"unused", "waiting", "executing", "detached", "skipped", "over"}

Result == [call : CallIds, status : Status]
Sent   == [to : Clients, call : CallIds, status : Status]

RunnerTypeOK ==
  /\ calls \in [CallIds -> Runs \cup {None}]
  /\ owner \in [Runs -> CallIds \cup {None}]
  /\ client \in [Runs -> Clients \cup {None}]
  /\ settled \in [Runs -> BOOLEAN]
  /\ stage \in [Runs -> Stage]
  /\ active \in Nat
  /\ waiting \in Seq(Runs)
  /\ completed \in Seq(Result)
  /\ activity \in SUBSET CallIds
  /\ audit \in [Runs -> Nat]
  /\ sent \in Sent \cup {None}
  /\ stopped \in BOOLEAN
  /\ lost \in SUBSET CallIds

RunnerInit ==
  /\ calls = [c \in CallIds |-> None]
  /\ owner = [r \in Runs |-> None]
  /\ client = [r \in Runs |-> None]
  /\ settled = [r \in Runs |-> FALSE]
  /\ stage = [r \in Runs |-> "unused"]
  /\ active = 0
  /\ waiting = <<>>
  /\ completed = <<>>
  /\ activity = {}
  /\ audit = [r \in Runs |-> 0]
  /\ sent = None
  /\ stopped = FALSE
  /\ lost = {}

-----------------------------------------------------------------------------
(* The result cache. *)

Cached(c) == \E i \in DOMAIN completed : completed[i].call = c

CachedStatus(c) ==
  completed[CHOOSE i \in DOMAIN completed : completed[i].call = c].status

\* Map.set keeps the place of a key that is present and appends a new one.
Stored(c, s) ==
  IF Cached(c)
  THEN [i \in DOMAIN completed |->
          IF completed[i].call = c THEN [call |-> c, status |-> s] ELSE completed[i]]
  ELSE Append(completed, [call |-> c, status |-> s])

\* One set() adds at most one entry, so at most one is evicted.
Trimmed(cache) == IF Len(cache) > Capacity THEN Tail(cache) ELSE cache

Evicted(cache) == IF Len(cache) > Capacity THEN {Head(cache).call} ELSE {}

Remember(c, s) ==
  /\ completed' = Trimmed(Stored(c, s))
  /\ lost' = lost \cup Evicted(Stored(c, s))

Deliver(cl, c, s) == sent' = [to |-> cl, call |-> c, status |-> s]

-----------------------------------------------------------------------------
(* The pool. *)

\* Waiters whose call is not settled yet: the ones that will use a slot.
Live == {i \in DOMAIN waiting : ~settled[waiting[i]]}

\* MUTATED Enter: the limit is compared with > instead of >=.
EnterOffByOne(r) ==
  IF active > Limit
  THEN /\ waiting' = Append(waiting, r)
       /\ stage' = [stage EXCEPT ![r] = "waiting"]
       /\ UNCHANGED active
  ELSE /\ active' = active + 1
       /\ stage' = [stage EXCEPT ![r] = "executing"]
       /\ UNCHANGED waiting

\* Start a task at once, or queue it when every slot is taken.
Enter(r) ==
  IF active >= Limit
  THEN /\ waiting' = Append(waiting, r)
       /\ stage' = [stage EXCEPT ![r] = "waiting"]
       /\ UNCHANGED active
  ELSE /\ active' = active + 1
       /\ stage' = [stage EXCEPT ![r] = "executing"]
       /\ UNCHANGED waiting

\* A finished task frees its slot. Each waiter woken in turn returns at once
\* when its call was settled while it queued; the first live one keeps the slot.
Leave(r) ==
  \/ /\ Live = {}
     /\ active' = active - 1
     /\ waiting' = <<>>
     /\ stage' = [q \in Runs |-> IF q = r THEN "over"
                               ELSE IF stage[q] = "waiting" THEN "skipped"
                               ELSE stage[q]]
  \/ \E i \in Live :
       /\ \A j \in Live : i <= j
       /\ waiting' = SubSeq(waiting, i + 1, Len(waiting))
       /\ stage' = [q \in Runs |-> IF q = r THEN "over"
                                 ELSE IF q = waiting[i] THEN "executing"
                                 ELSE IF \E k \in 1..(i - 1) : waiting[k] = q THEN "skipped"
                                 ELSE stage[q]]
       /\ UNCHANGED active

-----------------------------------------------------------------------------
(* settle: the single exit of a call. *)

\* MUTATED Settle: the settled flag is not looked at, so a late answer counts.
SettleAgain(r, s) ==
  /\ settled' = [settled EXCEPT ![r] = TRUE]
  /\ calls' = [calls EXCEPT ![owner[r]] = None]
  /\ Remember(owner[r], s)
  /\ audit' = [audit EXCEPT ![r] = @ + 1]
  /\ activity' = activity \ {owner[r]}
  /\ Deliver(client[r], owner[r], s)
  /\ UNCHANGED <<owner, client>>

Settle(r, s) ==
  IF settled[r]
  THEN /\ sent' = None
       /\ UNCHANGED <<book, records>>
  ELSE /\ settled' = [settled EXCEPT ![r] = TRUE]
       /\ calls' = [calls EXCEPT ![owner[r]] = None]
       /\ Remember(owner[r], s)
       /\ audit' = [audit EXCEPT ![r] = @ + 1]
       /\ activity' = activity \ {owner[r]}
       /\ Deliver(client[r], owner[r], s)
       /\ UNCHANGED <<owner, client>>

-----------------------------------------------------------------------------
(* submit: one invoke frame. *)

\* The callId has a terminal result: answer it again, execute nothing.
Replay(c, cl) ==
  /\ Cached(c)
  /\ Deliver(cl, c, CachedStatus(c))
  /\ UNCHANGED <<book, pool, records, stopped>>

\* The callId is in flight: the frame is ignored.
Duplicate(c) ==
  /\ ~Cached(c)
  /\ calls[c] # None
  /\ sent' = None
  /\ UNCHANGED <<book, pool, records, stopped>>

\* MUTATED RejectStale: the revision is compared before the cache is looked up.
RejectStaleFirst(c, cl) ==
  /\ calls[c] = None
  /\ Remember(c, "stale")
  /\ Deliver(cl, c, "stale")
  /\ UNCHANGED <<book, pool, activity, audit, stopped>>

\* The frame carries an outdated manifest revision: refuse without executing.
RejectStale(c, cl) ==
  /\ ~Cached(c)
  /\ calls[c] = None
  /\ Remember(c, "stale")
  /\ Deliver(cl, c, "stale")
  /\ UNCHANGED <<book, pool, activity, audit, stopped>>

\* MUTATED Accept: a callId in flight is not recognised.
AcceptInFlight(c, cl) ==
  /\ ~Cached(c)
  /\ \E r \in Runs :
       /\ stage[r] = "unused"
       /\ calls' = [calls EXCEPT ![c] = r]
       /\ owner' = [owner EXCEPT ![r] = c]
       /\ client' = [client EXCEPT ![r] = cl]
       /\ Enter(r)
  /\ activity' = activity \cup {c}
  /\ sent' = None
  /\ UNCHANGED <<settled, completed, audit, stopped, lost>>

Accept(c, cl) ==
  /\ ~Cached(c)
  /\ calls[c] = None
  /\ \E r \in Runs :
       /\ stage[r] = "unused"
       /\ calls' = [calls EXCEPT ![c] = r]
       /\ owner' = [owner EXCEPT ![r] = c]
       /\ client' = [client EXCEPT ![r] = cl]
       /\ Enter(r)
  /\ activity' = activity \cup {c}
  /\ sent' = None
  /\ UNCHANGED <<settled, completed, audit, stopped, lost>>

Submit(c, cl, fresh) ==
  /\ ~stopped
  /\ \/ Replay(c, cl)
     \/ Duplicate(c)
     \/ ~fresh /\ RejectStale(c, cl)
     \/ fresh /\ Accept(c, cl)

-----------------------------------------------------------------------------

\* cancel: an unknown or settled callId is silent, a live one gets its verdict
\* at once; its task keeps the pool slot until the capability returns.
Cancel(c) ==
  /\ ~stopped
  /\ IF calls[c] = None
     THEN /\ sent' = None
          /\ UNCHANGED <<book, records>>
     ELSE Settle(calls[c], "cancelled")
  /\ UNCHANGED <<pool, stopped>>

\* MUTATED Deadline: counted from the start of execution instead of receipt.
DeadlineOfExecution(r) ==
  /\ ~stopped
  /\ stage[r] = "executing"
  /\ ~settled[r]
  /\ Settle(r, "deadline")
  /\ UNCHANGED <<pool, stopped>>

\* The deadline timer, armed at receipt and cancelled by settle.
Deadline(r) ==
  /\ ~stopped
  /\ stage[r] # "unused"
  /\ ~settled[r]
  /\ Settle(r, "deadline")
  /\ UNCHANGED <<pool, stopped>>

\* The capability invocation of r answers; its slot goes to the next waiter.
Finish(r, s) ==
  /\ stage[r] = "executing"
  /\ Settle(r, s)
  /\ Leave(r)
  /\ UNCHANGED stopped

\* MUTATED AbortAll: the product stream is not told that the calls ended.
AbortAllSilently ==
  /\ ~stopped
  /\ stopped' = TRUE
  /\ settled' = [r \in Runs |-> settled[r] \/ \E c \in CallIds : calls[c] = r]
  /\ lost' = lost \cup {c \in CallIds : calls[c] # None}
  /\ calls' = [c \in CallIds |-> None]
  /\ sent' = None
  /\ UNCHANGED <<owner, client, pool, completed, activity, audit>>

\* stop: abort every call in flight. No verdict, no audit, no result; only the
\* product stream is closed.
AbortAll ==
  /\ ~stopped
  /\ stopped' = TRUE
  /\ settled' = [r \in Runs |-> settled[r] \/ \E c \in CallIds : calls[c] = r]
  /\ lost' = lost \cup {c \in CallIds : calls[c] # None}
  /\ activity' = activity \ {c \in CallIds : calls[c] # None}
  /\ calls' = [c \in CallIds |-> None]
  /\ sent' = None
  /\ UNCHANGED <<owner, client, pool, completed, audit>>

\* start after a stop: a new runner with an empty cache and a new pool. Tasks
\* of the old pool run on by themselves.
NewRunner ==
  /\ stopped
  /\ stopped' = FALSE
  /\ lost' = lost \cup {c \in CallIds : Cached(c)}
  /\ completed' = <<>>
  /\ active' = 0
  /\ waiting' = <<>>
  /\ stage' = [r \in Runs |-> CASE stage[r] = "executing" -> "detached"
                                [] stage[r] = "waiting" -> "skipped"
                                [] OTHER -> stage[r]]
  /\ sent' = None
  /\ UNCHANGED <<book, activity, audit>>

\* A task of a replaced runner returns: its call was settled by abortAll.
FinishDetached(r) ==
  /\ stage[r] = "detached"
  /\ stage' = [stage EXCEPT ![r] = "over"]
  /\ sent' = None
  /\ UNCHANGED <<book, active, waiting, records, stopped>>

\* forgetCompleted: the cache belonged to the previous pairing.
ForgetCompleted ==
  /\ lost' = lost \cup {c \in CallIds : Cached(c)}
  /\ completed' = <<>>
  /\ sent' = None
  /\ UNCHANGED <<book, pool, activity, audit, stopped>>

\* The node process dies: nothing of the runner survives, tasks end half-way.
ProcessExit ==
  /\ ~stopped
  /\ stopped' = TRUE
  /\ settled' = [r \in Runs |-> settled[r] \/ \E c \in CallIds : calls[c] = r]
  /\ lost' = lost \cup {c \in CallIds : calls[c] # None \/ Cached(c)}
  /\ calls' = [c \in CallIds |-> None]
  /\ completed' = <<>>
  /\ active' = 0
  /\ waiting' = <<>>
  /\ stage' = [r \in Runs |-> CASE stage[r] \in {"executing", "detached"} -> "over"
                                [] stage[r] = "waiting" -> "skipped"
                                [] OTHER -> stage[r]]
  /\ activity' = {}
  /\ sent' = None
  /\ UNCHANGED <<owner, client, audit>>

RunnerNext ==
  \/ \E c \in CallIds, cl \in Clients, fresh \in BOOLEAN : Submit(c, cl, fresh)
  \/ \E c \in CallIds : Cancel(c)
  \/ \E r \in Runs : Deadline(r)
  \/ \E r \in Runs, s \in Outcome : Finish(r, s)
  \/ AbortAll
  \/ NewRunner
  \/ \E r \in Runs : FinishDetached(r)
  \/ ForgetCompleted
  \/ ProcessExit

RunnerSpec == RunnerInit /\ [][RunnerNext]_vars

\* Timers fire; nothing is assumed of the capabilities, which may never return.
TimerFairness == \A r \in Runs : WF_vars(Deadline(r))

FairRunnerSpec == RunnerSpec /\ TimerFairness

-----------------------------------------------------------------------------
(* What a runner promises. *)

Executing == {r \in Runs : stage[r] = "executing"}

\* The capability implementation was called for r.
Invoked(r) == stage[r] \in {"executing", "detached", "over"}

\* The pool never runs more tasks than its limit, its counter is exactly the
\* number of running tasks, and nothing waits while a slot is free.
PoolDiscipline ==
  /\ active = Cardinality(Executing)
  /\ active <= Limit
  /\ waiting # <<>> => active = Limit

\* A call reaches at most one verdict, whichever of its answer, its deadline, a
\* cancel and a stop come first and second: one audit entry, never a second one.
OneVerdict == \A r \in Runs : audit[r] <= 1

\* A callId that arrives twice is executed once, unless the node has lost its
\* outcome in between: evicted from the cache, forgotten with the pairing, or
\* aborted by a stop.
NoSecondExecution ==
  \A r, q \in Runs :
    (r # q /\ owner[r] = owner[q] /\ Invoked(r) /\ Invoked(q)) => owner[r] \in lost

\* The product stream shows a call as running exactly while it is in the book;
\* neither a stop nor a lost race leaves a session running for ever.
ActivityMatchesBook == activity = {c \in CallIds : calls[c] # None}

\* Every call object is where the book, the queue and the flags say it is.
BookConsistent ==
  /\ \A c \in CallIds : calls[c] # None =>
       /\ owner[calls[c]] = c
       /\ ~settled[calls[c]]
       /\ stage[calls[c]] \in {"waiting", "executing"}
  /\ \A r \in Runs :
       /\ stage[r] # "unused" => owner[r] \in CallIds /\ client[r] \in Clients
       /\ stage[r] = "unused" => owner[r] = None /\ ~settled[r] /\ audit[r] = 0
       /\ stage[r] # "unused" /\ ~settled[r] => calls[owner[r]] = r
       /\ stage[r] \in {"detached", "skipped", "over"} => settled[r]
  /\ stopped => \A c \in CallIds : calls[c] = None

QueueConsistent ==
  /\ \A r \in Runs : stage[r] = "waiting" <=> \E i \in DOMAIN waiting : waiting[i] = r
  /\ \A i, j \in DOMAIN waiting : waiting[i] = waiting[j] => i = j

\* Every callId with an outcome is in the cache or counted as lost, and two call
\* objects share a callId only when its outcome was lost in between.
MemoryConsistent ==
  /\ \A c \in CallIds : Cached(c) => calls[c] = None
  /\ \A r \in Runs : settled[r] => Cached(owner[r]) \/ owner[r] \in lost
  /\ \A r, q \in Runs :
       (r # q /\ owner[r] = owner[q] /\ stage[r] # "unused" /\ stage[q] # "unused")
         => owner[r] \in lost

AuditConsistent == \A r \in Runs : audit[r] <= 1 /\ (audit[r] = 1 => settled[r])

\* The inductive invariant: what the safety properties rest on.
RunnerInv ==
  /\ RunnerTypeOK
  /\ PoolDiscipline
  /\ QueueConsistent
  /\ BookConsistent
  /\ MemoryConsistent
  /\ AuditConsistent
  /\ ActivityMatchesBook

Answered(c, s) == Cached(c) /\ CachedStatus(c) = s

\* Every result frame of a callId carries the same verdict: while the cache
\* holds one, neither a late answer, a timer nor a refused revision replaces
\* it, and no frame with another verdict is delivered.
OneTerminalResult ==
  [][\A c \in CallIds, s, t \in Status :
       Answered(c, s) /\ s # t =>
         /\ ~Answered(c, t)'
         /\ ~(sent' # None /\ sent'.call = c /\ sent'.status = t)]_vars

\* Every accepted call gets its terminal result even when no capability ever
\* returns and its task never gets a slot: the deadline counts from receipt.
DeadlineBackstop == \A c \in CallIds : calls[c] # None ~> calls[c] = None

=============================================================================
