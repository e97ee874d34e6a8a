----------------------------- MODULE LockManager -----------------------------
(***************************************************************************)
(* The path locks of a Project kernel: transactions and rollbacks that     *)
(* touch a common path are serialised, first come first served; others run *)
(* side by side.  There is no timeout: a lock is held until its owner's    *)
(* finally block releases it.                                              *)
(*                                                                         *)
(* lock and unlock are synchronous up to the promise, so each is one       *)
(* action, with the drain of the queue it ends in.                         *)
(***************************************************************************)
EXTENDS FiniteSets

CONSTANTS Paths, Requests, Nobody

ASSUME LockManagerAssumption == Nobody \notin Requests

VARIABLES
  locks,   \* path -> the request that holds it, or Nobody
  state,   \* request -> idle, waiting in the queue, or granted
  paths,   \* request -> the paths it asked for
  ahead    \* request -> the requests in front of it in the queue

lockManagerVars == <<locks, state, paths, ahead>>

LockManagerTypeOK ==
  /\ locks \in [Paths -> Requests \cup {Nobody}]
  /\ state \in [Requests -> {"idle", "waiting", "granted"}]
  /\ paths \in [Requests -> SUBSET Paths]
  /\ ahead \in [Requests -> SUBSET Requests]

LockManagerInit ==
  /\ locks = [p \in Paths |-> Nobody]
  /\ state = [r \in Requests |-> "idle"]
  /\ paths = [r \in Requests |-> {}]
  /\ ahead = [r \in Requests |-> {}]

-----------------------------------------------------------------------------

\* Nobody of its paths is locked, and no request in front of it, granted or not,
\* asks for one of them.
CanGrant(r, st, held, want, front) ==
  /\ st[r] = "waiting"
  /\ \A p \in want[r] : held[p] = Nobody
  /\ \A q \in front[r] : want[q] \cap want[r] = {}

\* MUTATED Drain: a pass ends at the first request that has to wait.
DrainHeadOnly(st, held, want, front) ==
  LET granted == {r \in Requests : CanGrant(r, st, held, want, front) /\ front[r] = {}}
  IN /\ state' = [r \in Requests |-> IF r \in granted THEN "granted" ELSE st[r]]
     /\ locks' = [p \in Paths |-> IF \E r \in granted : p \in want[r]
                                  THEN CHOOSE r \in granted : p \in want[r] ELSE held[p]]
     /\ paths' = want
     /\ ahead' = [r \in Requests |-> IF r \in granted THEN {} ELSE front[r] \ granted]

\* drainQueue: every request that can be granted is. The code grants one, and
\* scans again from the head until a scan grants nothing; what that amounts to
\* is one pass, as LockManagerScan says: a request in front that is granted
\* leaves its place in the queue to its locks, and lets nobody behind it in.
Drain(st, held, want, front) ==
  LET granted == {r \in Requests : CanGrant(r, st, held, want, front)}
  IN /\ state' = [r \in Requests |-> IF r \in granted THEN "granted" ELSE st[r]]
     /\ locks' = [p \in Paths |-> IF \E r \in granted : p \in want[r]
                                  THEN CHOOSE r \in granted : p \in want[r] ELSE held[p]]
     /\ paths' = want
     /\ ahead' = [r \in Requests |-> IF r \in granted THEN {} ELSE front[r] \ granted]

Waiting == {r \in Requests : state[r] = "waiting"}

\* lock: an empty set of paths is granted without being registered.
Lock(r, want) ==
  /\ state[r] = "idle"
  /\ IF want = {}
     THEN /\ state' = [state EXCEPT ![r] = "granted"]
          /\ paths' = [paths EXCEPT ![r] = {}]
          /\ UNCHANGED <<locks, ahead>>
     ELSE Drain([state EXCEPT ![r] = "waiting"], locks,
                [paths EXCEPT ![r] = want], [ahead EXCEPT ![r] = Waiting])

\* unlock: forget the paths of the lock, then serve the queue.
Unlock(r) ==
  /\ state[r] = "granted"
  /\ Drain([state EXCEPT ![r] = "idle"],
           [p \in Paths |-> IF locks[p] = r THEN Nobody ELSE locks[p]],
           [paths EXCEPT ![r] = {}], ahead)

LockManagerNext ==
  \E r \in Requests : Unlock(r) \/ \E want \in SUBSET Paths : Lock(r, want)

LockManagerSpec == LockManagerInit /\ [][LockManagerNext]_lockManagerVars

-----------------------------------------------------------------------------
(* What the locks promise. *)

\* Two transactions that hold locks have no path in common, and what a holder
\* was granted is registered under its name until it unlocks.
Exclusive ==
  \A r \in Requests : state[r] = "granted" =>
    /\ \A p \in paths[r] : locks[p] = r
    /\ \A q \in Requests : state[q] = "granted" /\ q # r => paths[q] \cap paths[r] = {}

\* No request waits that could run: after every call the queue is drained.
NothingGrantable == \A r \in Requests : ~CanGrant(r, state, locks, paths, ahead)

\* A request is never overtaken by a later one that wants one of its paths.
NoOvertaking ==
  [][\A r, q \in Requests :
       (/\ state[q] = "waiting" /\ state'[q] = "waiting"
        /\ state[r] # "granted" /\ state'[r] = "granted"
        /\ q \in ahead[r] \/ state[r] = "idle")
         => paths[q] \cap paths'[r] = {}]_lockManagerVars

\* Every lock is registered under a holder that asked for it.
LocksHeld ==
  \A p \in Paths : locks[p] # Nobody => state[locks[p]] = "granted" /\ p \in paths[locks[p]]

\* The queue is a line: of two waiting requests one is in front of the other.
QueueIsLine ==
  /\ \A r \in Requests : ahead[r] \subseteq Waiting /\ r \notin ahead[r]
  /\ \A r \in Requests : state[r] # "waiting" => ahead[r] = {}
  /\ \A r, q \in Waiting : r # q => (q \in ahead[r] <=> r \notin ahead[q])

\* Whom a request waits for: the holders of its paths, and those in front of it that
\* want one of them.
Crossing(want1, want2) == want1 \cap want2 # {}
LockRivals ==
  [r \in Requests |-> {q \in Requests : /\ state[r] = "waiting" /\ Crossing(paths[q], paths[r])
                                        /\ state[q] = "granted" \/ q \in ahead[r]}]
LockQueue == INSTANCE OrderedAdmission WITH
               Scopes <- SUBSET Paths, Conflict <- Crossing, scope <- paths, rivals <- LockRivals

\* The table of locks with its queue is a queue like the others: transactions that
\* touch a common path run one at a time, in the order in which they came.
LocksInOrder == LockQueue!AdmissionSpec

LockManagerInv ==
  /\ LockManagerTypeOK
  /\ Exclusive
  /\ LocksHeld
  /\ QueueIsLine
  /\ NothingGrantable

=============================================================================
