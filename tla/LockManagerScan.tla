--------------------------- MODULE LockManagerScan ---------------------------
(***************************************************************************)
(* drainQueue as it is written: scan the queue from its head, grant the    *)
(* first request that can be granted, take it out, start again, stop when  *)
(* a scan grants nothing.  LockManager grants everything in one pass and   *)
(* keeps of the queue who is ahead of whom; here is why that is the same.  *)
(*                                                                         *)
(* The source gives a reason for its loop that does not hold: an entry     *)
(* that a predecessor was in the way of might become grantable when that   *)
(* one is granted and leaves the queue, hence no linear scan               *)
(* (LockManager.ts:12-13).  What was in the way are the paths of the       *)
(* predecessor, and when it is granted it holds them.                      *)
(***************************************************************************)
EXTENDS LockManager, SequencesExt, Naturals

Enqueued(st) == {r \in Requests : st[r] = "waiting"}

\* A queue of these requests in which each has in front of it those that are ahead of it.
Arranged(queue, inLine, front) ==
  /\ \A i, j \in DOMAIN queue : queue[i] = queue[j] => i = j
  /\ {queue[i] : i \in DOMAIN queue} = inLine
  /\ \A i \in DOMAIN queue : front[queue[i]] = {queue[j] : j \in 1..(i - 1)}

Queue(st, front) ==
  CHOOSE queue \in [1..Cardinality(Enqueued(st)) -> Enqueued(st)] : Arranged(queue, Enqueued(st), front)

\* canGrant on the queue as an array.
CanGrantAt(queue, i, held, want) ==
  /\ \A p \in want[queue[i]] : held[p] = Nobody
  /\ \A j \in 1..(i - 1) : want[queue[j]] \cap want[queue[i]] = {}

\* One round of the loop: the first that can be granted is, and leaves the queue.
Round(at, want) ==
  LET able == {i \in DOMAIN at.queue : CanGrantAt(at.queue, i, at.locks, want)}
      first == CHOOSE i \in able : \A j \in able : i <= j
      entry == at.queue[first]
  IN IF able = {} THEN at
     ELSE [queue |-> RemoveAt(at.queue, first),
           locks |-> [p \in Paths |-> IF p \in want[entry] THEN entry ELSE at.locks[p]]]

\* drainQueue: a round that grants nothing is the last one, and that many rounds empty the queue.
Scan(queue, held, want) ==
  LET after[n \in 0..Len(queue)] ==
        IF n = 0 THEN [queue |-> queue, locks |-> held] ELSE Round(after[n - 1], want)
  IN after[Len(queue)]

\* What the step leaves is what the scan leaves of this queue and these locks.
ScannedFrom(queue, held) ==
  LET result == Scan(queue, held, paths')
  IN result.locks = locks' /\ result.queue = Queue(state', ahead')

\* An unlock, and a lock with the request at the end of the queue, serve it as the loop does.
ServedByScan(r) ==
  /\ state[r] = "granted" /\ state'[r] = "idle" =>
       ScannedFrom(Queue(state, ahead), [p \in Paths |-> IF locks[p] = r THEN Nobody ELSE locks[p]])
  /\ state[r] = "idle" /\ state'[r] # "idle" /\ paths'[r] # {} =>
       ScannedFrom(Append(Queue(state, ahead), r), locks)

\* Every step of the locks serves the queue as the loop in the code does, in one pass over
\* what could be granted when the step began: no grant makes another entry grantable, contrary
\* to the comment that explains the loop, and none that could be granted is left out.
ScanIsOnePass == [][\A r \in Requests : ServedByScan(r)]_lockManagerVars

=============================================================================
