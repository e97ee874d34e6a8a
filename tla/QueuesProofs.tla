------------------------------ MODULE QueuesProofs ------------------------------
(***************************************************************************)
(* The queues of the system, for any number of requests.  The path locks,  *)
(* the project gate, the effect scheduler and the queue by key implement   *)
(* OrderedAdmission; the scan of the path locks is one pass; the delivery  *)
(* of events hands over a prefix of what was appended, in whatever order   *)
(* the events are persisted.                                               *)
(***************************************************************************)
EXTENDS Queues, LockManagerScan, FiniteSetTheorems, SequenceTheorems, WellFoundedInduction, TLAPS

-----------------------------------------------------------------------------
(* Queues as sequences *)

\* A set of naturals that is not empty has a least member.
LEMMA LeastNatural ==
  ASSUME NEW S \in SUBSET Nat, S # {}
  PROVE  \E n \in S : \A m \in S : n <= m
<1>1. PICK n \in S : \A m \in S : ~ (<<m, n>> \in OpToRel(<, Nat))
  BY NatLessThanWellFounded, WFMin
<1>2. ASSUME NEW m \in S PROVE n <= m
  <2>1. ~ (<<m, n>> \in OpToRel(<, Nat)) /\ n \in Nat /\ m \in Nat
    BY <1>1
  <2> QED BY <2>1 DEF OpToRel
<1> QED BY <1>2

\* A queue in which nobody stands twice has as many heads as places.
LEMMA HeadsCounted ==
  ASSUME NEW S, NEW queue \in Seq(S), \A i, k \in DOMAIN queue : queue[i] = queue[k] => i = k,
         NEW n \in 0..Len(queue),
         NEW heads, \A x : x \in heads <=> \E i \in 1..n : queue[i] = x
  PROVE  IsFiniteSet(heads) /\ Cardinality(heads) = n
<1> DEFINE f == [i \in 1..n |-> queue[i]]
<1>1. DOMAIN queue = 1..Len(queue) /\ Len(queue) \in Nat /\ n \in Nat
  BY LenProperties
<1>2. f \in Bijection(1..n, heads)
  BY <1>1 DEF Bijection, Injection, Surjection, IsInjective
<1>3. IsFiniteSet(1..n) /\ Cardinality(1..n) = n
  BY <1>1, FS_Interval
<1>4. ExistsBijection(1..n, heads)
  BY <1>2 DEF ExistsBijection
<1> QED BY <1>3, <1>4, FS_Bijection

\* A queue without the member at one place.
LEMMA WithoutPlace ==
  ASSUME NEW S, NEW queue \in Seq(S), NEW p \in 1..Len(queue)
  PROVE  /\ RemoveAt(queue, p) \in Seq(S) /\ Len(RemoveAt(queue, p)) = Len(queue) - 1
         /\ \A i \in 1..(Len(queue) - 1) : RemoveAt(queue, p)[i] = IF i < p THEN queue[i] ELSE queue[i + 1]
<1> DEFINE front == SubSeq(queue, 1, p - 1)
           back == SubSeq(queue, p + 1, Len(queue))
<1>1. Len(queue) \in Nat /\ p \in Nat /\ \A i \in 1..Len(queue) : queue[i] \in S
  BY LenProperties
<1>2. front \in Seq(S) /\ Len(front) = p - 1 /\ \A i \in 1..(p - 1) : front[i] = queue[i]
  <2>1. 1 \in Int /\ p - 1 \in Int /\ \A i \in 1..(p - 1) : queue[i] \in S
    BY <1>1
  <2>2. /\ front \in Seq(S)
        /\ Len(front) = IF 1 <= p - 1 THEN p - 1 - 1 + 1 ELSE 0
        /\ \A i \in 1..(p - 1 - 1 + 1) : front[i] = queue[1 + i - 1]
    BY <2>1, SubSeqProperties
  <2> HIDE DEF front
  <2> QED BY <1>1, <2>2
<1>3. back \in Seq(S) /\ Len(back) = Len(queue) - p /\ \A i \in 1..(Len(queue) - p) : back[i] = queue[p + i]
  <2>1. p + 1 \in Int /\ Len(queue) \in Int /\ \A i \in (p + 1)..Len(queue) : queue[i] \in S
    BY <1>1
  <2>2. /\ back \in Seq(S)
        /\ Len(back) = IF p + 1 <= Len(queue) THEN Len(queue) - (p + 1) + 1 ELSE 0
        /\ \A i \in 1..(Len(queue) - (p + 1) + 1) : back[i] = queue[p + 1 + i - 1]
    BY <2>1, SubSeqProperties
  <2> HIDE DEF back
  <2> QED BY <1>1, <2>2
<1>4. RemoveAt(queue, p) = front \o back
  BY DEF RemoveAt
<1> HIDE DEF front, back
<1>5. /\ front \o back \in Seq(S) /\ Len(front \o back) = Len(front) + Len(back)
      /\ \A i \in 1..(Len(front) + Len(back)) : (front \o back)[i] = IF i <= Len(front) THEN front[i] ELSE back[i - Len(front)]
  BY <1>2, <1>3, ConcatProperties
<1>6. Len(front) + Len(back) = Len(queue) - 1
  BY <1>1, <1>2, <1>3
<1>7. ASSUME NEW i \in 1..(Len(queue) - 1)
      PROVE  (front \o back)[i] = IF i < p THEN queue[i] ELSE queue[i + 1]
  <2>1. CASE i < p
    <3>1. i \in 1..(p - 1)
      BY <1>1, <2>1
    <3> QED BY <1>1, <1>2, <1>5, <1>6, <2>1, <3>1
  <2>2. CASE ~(i < p)
    <3>1. i - (p - 1) \in 1..(Len(queue) - p) /\ p + (i - (p - 1)) = i + 1 /\ ~(i <= p - 1)
      BY <1>1, <2>2
    <3>2. i \in 1..(Len(front) + Len(back)) /\ ~(i <= Len(front)) /\ Len(front) = p - 1
      BY <1>2, <1>6, <3>1
    <3>3. (front \o back)[i] = back[i - (p - 1)]
      BY <1>5, <3>2
    <3>4. back[i - (p - 1)] = queue[p + (i - (p - 1))]
      BY <1>3, <3>1
    <3> QED BY <2>2, <3>1, <3>3, <3>4
  <2> QED BY <2>1, <2>2
<1> QED BY <1>4, <1>5, <1>6, <1>7

-----------------------------------------------------------------------------
(* LockManager *)

\* What lock and unlock hand to the drain: locks and queue consistent, but maybe
\* with requests that can be granted.
Consistent(st, held, want, front) ==
  /\ held \in [Paths -> Requests \cup {Nobody}]
  /\ st \in [Requests -> {"idle", "waiting", "granted"}]
  /\ want \in [Requests -> SUBSET Paths]
  /\ front \in [Requests -> SUBSET Requests]
  /\ \A r \in Requests : st[r] = "granted" => \A p \in want[r] : held[p] = r
  /\ \A p \in Paths : held[p] # Nobody => st[held[p]] = "granted" /\ p \in want[held[p]]
  /\ \A r \in Requests : r \notin front[r] /\ \A q \in front[r] : st[q] = "waiting"
  /\ \A r \in Requests : st[r] # "waiting" => front[r] = {}
  /\ \A r, q \in Requests :
       st[r] = "waiting" /\ st[q] = "waiting" /\ r # q => (q \in front[r] <=> r \notin front[q])

\* One pass over a consistent queue leaves the whole invariant: the requests it
\* grants have no path in common, and none that stays could be granted.
LEMMA DrainInv ==
  ASSUME NEW STATE st, NEW STATE held, NEW STATE want, NEW STATE front,
         Consistent(st, held, want, front), Drain(st, held, want, front)
  PROVE  LockManagerInv'
<1>. DEFINE G == {r \in Requests : CanGrant(r, st, held, want, front)}
<1>. USE DEF Consistent
<1>n. Nobody \notin Requests
  BY LockManagerAssumption DEF LockManagerAssumption
<1>1. /\ state' = [r \in Requests |-> IF r \in G THEN "granted" ELSE st[r]]
      /\ locks' = [p \in Paths |-> IF \E r \in G : p \in want[r]
                                   THEN CHOOSE r \in G : p \in want[r] ELSE held[p]]
      /\ paths' = want
      /\ ahead' = [r \in Requests |-> IF r \in G THEN {} ELSE front[r] \ G]
  BY DEF Drain
<1>2. \A r \in G : /\ r \in Requests /\ st[r] = "waiting"
                   /\ \A p \in want[r] : held[p] = Nobody
                   /\ \A q \in front[r] : want[q] \cap want[r] = {}
  BY DEF CanGrant
<1>. HIDE DEF G
<1>3. ASSUME NEW r \in G, NEW q \in G, NEW p \in Paths, p \in want[r], p \in want[q]
      PROVE  r = q
  BY <1>2, <1>3
<1>4. ASSUME NEW p \in Paths, NEW r \in G, p \in want[r]
      PROVE  locks'[p] = r
  <2>1. locks'[p] \in G /\ p \in want[locks'[p]]
    BY <1>1, <1>4
  <2>. QED  BY <1>3, <1>4, <2>1
<1>5. ASSUME NEW p \in Paths, \A r \in G : p \notin want[r]
      PROVE  locks'[p] = held[p]
  BY <1>1, <1>5
<1>6. LockManagerTypeOK'
  <2>1. locks' \in [Paths -> Requests \cup {Nobody}]
    <3>1. \A p \in Paths : locks'[p] \in Requests \cup {Nobody}
      BY <1>2, <1>4, <1>5
    <3>. QED  BY <1>1, <3>1
  <2>2. state' \in [Requests -> {"idle", "waiting", "granted"}]
    BY <1>1
  <2>3. ahead' \in [Requests -> SUBSET Requests]
    BY <1>1
  <2>. QED  BY <1>1, <2>1, <2>2, <2>3 DEF LockManagerTypeOK
<1>7. \A r \in Requests : state'[r] = "granted" => \A p \in want[r] : locks'[p] = r
  <2>. SUFFICES ASSUME NEW r \in Requests, state'[r] = "granted", NEW p \in want[r]
                PROVE  locks'[p] = r
    OBVIOUS
  <2>0. p \in Paths
    OBVIOUS
  <2>1. CASE r \in G
    BY <1>4, <2>0, <2>1
  <2>2. CASE r \notin G
    <3>1. held[p] = r
      BY <1>1, <2>2
    <3>2. \A q \in G : p \notin want[q]
      BY <1>2, <1>n, <3>1
    <3>. QED  BY <1>5, <2>0, <3>1, <3>2
  <2>. QED  BY <2>1, <2>2
<1>8. Exclusive'
  <2>1. ASSUME NEW r \in Requests, NEW q \in Requests, NEW p \in want[q] \cap want[r],
               state'[r] = "granted", state'[q] = "granted", q # r
        PROVE  FALSE
    BY <1>7, <2>1
  <2>2. \A r, q \in Requests : state'[r] = "granted" /\ state'[q] = "granted" /\ q # r
                               => want[q] \cap want[r] = {}
    BY <2>1
  <2>. QED  BY <1>1, <1>7, <2>2 DEF Exclusive
<1>9. LocksHeld'
  <2>. SUFFICES ASSUME NEW p \in Paths, locks'[p] # Nobody
                PROVE  state'[locks'[p]] = "granted" /\ p \in want[locks'[p]]
    BY <1>1 DEF LocksHeld
  <2>1. CASE \E r \in G : p \in want[r]
    BY <1>1, <1>2, <1>4, <2>1
  <2>2. CASE \A r \in G : p \notin want[r]
    BY <1>1, <1>5, <2>2
  <2>. QED  BY <2>1, <2>2
<1>10. QueueIsLine'
  BY <1>1, <1>2 DEF QueueIsLine, Waiting
<1>11. NothingGrantable'
  <2>. SUFFICES ASSUME NEW r \in Requests, CanGrant(r, state', locks', want, ahead')
                PROVE  FALSE
    BY <1>1 DEF NothingGrantable
  <2>1. /\ state'[r] = "waiting" /\ \A p \in want[r] : locks'[p] = Nobody
        /\ \A q \in ahead'[r] : want[q] \cap want[r] = {}
    BY DEF CanGrant
  <2>2. st[r] = "waiting" /\ r \notin G /\ ahead'[r] = front[r] \ G
    BY <1>1, <2>1
  <2>3. \A p \in want[r] : held[p] = Nobody /\ \A q \in G : p \notin want[q]
    BY <1>2, <1>4, <1>5, <1>n, <2>1
  <2>4. \A q \in front[r] : want[q] \cap want[r] = {}
    BY <2>1, <2>2, <2>3
  <2>5. r \in G
    BY <2>2, <2>3, <2>4 DEF CanGrant, G
  <2>. QED  BY <2>2, <2>5
<1>. QED  BY <1>6, <1>8, <1>9, <1>10, <1>11 DEF LockManagerInv

LEMMA LockManagerInitInv == LockManagerInit => LockManagerInv
BY LockManagerAssumption
DEF LockManagerAssumption, LockManagerInit, LockManagerInv, LockManagerTypeOK, Exclusive, LocksHeld,
    QueueIsLine, NothingGrantable, CanGrant, Waiting

\* A new request at the end of the line is a consistent queue.
LEMMA EnqueueConsistent ==
  ASSUME LockManagerInv, NEW r \in Requests, NEW want \in SUBSET Paths, state[r] = "idle"
  PROVE  Consistent([state EXCEPT ![r] = "waiting"], locks,
                    [paths EXCEPT ![r] = want], [ahead EXCEPT ![r] = Waiting])
BY LockManagerAssumption
DEF LockManagerAssumption, LockManagerInv, LockManagerTypeOK, Exclusive, LocksHeld, QueueIsLine,
    Waiting, Consistent

\* Taking a holder's paths away leaves a consistent queue.
LEMMA FreedConsistent ==
  ASSUME LockManagerInv, NEW r \in Requests, state[r] = "granted"
  PROVE  Consistent([state EXCEPT ![r] = "idle"],
                    [p \in Paths |-> IF locks[p] = r THEN Nobody ELSE locks[p]],
                    [paths EXCEPT ![r] = {}], ahead)
BY LockManagerAssumption
DEF LockManagerAssumption, LockManagerInv, LockManagerTypeOK, Exclusive, LocksHeld, QueueIsLine,
    Waiting, Consistent

LEMMA LockManagerNextInv == LockManagerInv /\ [LockManagerNext]_lockManagerVars => LockManagerInv'
<1>. SUFFICES ASSUME LockManagerInv, [LockManagerNext]_lockManagerVars
              PROVE  LockManagerInv'
  OBVIOUS
<1>1. ASSUME NEW r \in Requests, NEW want \in SUBSET Paths, Lock(r, want)
      PROVE  LockManagerInv'
  <2>1. CASE want = {}
    <3>1. /\ state' = [state EXCEPT ![r] = "granted"] /\ paths' = [paths EXCEPT ![r] = {}]
          /\ locks' = locks /\ ahead' = ahead /\ state[r] = "idle"
      BY <1>1, <2>1 DEF Lock
    <3>. QED
      BY <3>1 DEF LockManagerInv, LockManagerTypeOK, Exclusive, LocksHeld, QueueIsLine,
                  NothingGrantable, CanGrant, Waiting
  <2>2. CASE want # {}
    BY <1>1, <2>2, EnqueueConsistent, DrainInv DEF Lock
  <2>. QED  BY <2>1, <2>2
<1>2. ASSUME NEW r \in Requests, Unlock(r)
      PROVE  LockManagerInv'
  BY <1>2, FreedConsistent, DrainInv DEF Unlock
<1>3. CASE UNCHANGED lockManagerVars
  BY <1>3 DEF lockManagerVars, LockManagerInv, LockManagerTypeOK, Exclusive, LocksHeld, QueueIsLine,
              NothingGrantable, CanGrant, Waiting
<1>. QED  BY <1>1, <1>2, <1>3 DEF LockManagerNext

\* The invariant of the path locks.
THEOREM LockManagerInvariant == LockManagerSpec => []LockManagerInv
BY LockManagerInitInv, LockManagerNextInv, PTL DEF LockManagerSpec

\* Transactions that hold locks never share a path.
THEOREM LocksExclude == LockManagerSpec => []Exclusive
<1>1. LockManagerInv => Exclusive
  BY DEF LockManagerInv
<1>. QED  BY <1>1, LockManagerInvariant, PTL

\* A request that could run never waits: each lock and unlock drains the queue.
THEOREM QueueIsDrained == LockManagerSpec => []NothingGrantable
<1>1. LockManagerInv => NothingGrantable
  BY DEF LockManagerInv
<1>. QED  BY <1>1, LockManagerInvariant, PTL

\* A drain grants only requests whose place in the queue is free: none in front
\* of a granted one asks for one of its paths.
LEMMA DrainGrants ==
  ASSUME NEW STATE st, NEW STATE held, NEW STATE want, NEW STATE front,
         Drain(st, held, want, front),
         NEW r \in Requests, st[r] # "granted", state'[r] = "granted"
  PROVE  /\ st[r] = "waiting"
         /\ \A q \in front[r] : want[q] \cap want[r] = {}
         /\ paths' = want
<1>1. CanGrant(r, st, held, want, front)
  BY DEF Drain
<1>. QED  BY <1>1 DEF CanGrant, Drain

\* First come, first served: a step never grants a path to a request while an
\* earlier one, or any when the request is new, goes on waiting for it.
THEOREM LocksNotOvertaken == LockManagerSpec => NoOvertaking
<1>. DEFINE Fair(r, q) ==
       (/\ state[q] = "waiting" /\ state'[q] = "waiting"
        /\ state[r] # "granted" /\ state'[r] = "granted"
        /\ q \in ahead[r] \/ state[r] = "idle")
         => paths[q] \cap paths'[r] = {}
<1>1. ASSUME LockManagerInv, LockManagerNext, NEW r \in Requests, NEW q \in Requests
      PROVE  Fair(r, q)
  <2>. SUFFICES ASSUME state[q] = "waiting", state'[q] = "waiting",
                       state[r] # "granted", state'[r] = "granted",
                       q \in ahead[r] \/ state[r] = "idle"
                PROVE  paths[q] \cap paths'[r] = {}
    OBVIOUS
  <2>t. LockManagerTypeOK
    BY <1>1 DEF LockManagerInv
  <2>1. ASSUME NEW x \in Requests, NEW want \in SUBSET Paths, Lock(x, want)
        PROVE  paths[q] \cap paths'[r] = {}
    <3>1. CASE want = {}
      BY <2>1, <2>t, <3>1 DEF Lock, LockManagerTypeOK
    <3>2. CASE want # {}
      <4>. DEFINE st == [state EXCEPT ![x] = "waiting"]
                  wanted == [paths EXCEPT ![x] = want]
                  front == [ahead EXCEPT ![x] = Waiting]
      <4>1. Drain(st, locks, wanted, front) /\ state[x] = "idle"
        BY <2>1, <3>2 DEF Lock
      <4>2. st[r] # "granted" /\ q # x
        BY <2>t, <4>1 DEF LockManagerTypeOK
      <4>3. /\ st[r] = "waiting" /\ paths' = wanted
            /\ \A p \in front[r] : wanted[p] \cap wanted[r] = {}
        <5>. HIDE DEF st, wanted, front
        <5>. QED  BY <4>1, <4>2, DrainGrants
      <4>4. q \in front[r]
        BY <2>t, <4>1, <4>3 DEF LockManagerTypeOK, Waiting
      <4>5. wanted[q] = paths[q]
        BY <2>t, <4>2 DEF LockManagerTypeOK
      <4>. QED  BY <4>3, <4>4, <4>5
    <3>. QED  BY <3>1, <3>2
  <2>2. ASSUME NEW x \in Requests, Unlock(x)
        PROVE  paths[q] \cap paths'[r] = {}
    <3>. DEFINE st == [state EXCEPT ![x] = "idle"]
                held == [p \in Paths |-> IF locks[p] = x THEN Nobody ELSE locks[p]]
                wanted == [paths EXCEPT ![x] = {}]
    <3>1. Drain(st, held, wanted, ahead) /\ state[x] = "granted"
      BY <2>2 DEF Unlock
    <3>2. st[r] # "granted" /\ q # x
      BY <2>t, <3>1 DEF LockManagerTypeOK
    <3>3. /\ st[r] = "waiting" /\ paths' = wanted
          /\ \A p \in ahead[r] : wanted[p] \cap wanted[r] = {}
      <4>. HIDE DEF st, held, wanted
      <4>. QED  BY <3>1, <3>2, DrainGrants
    <3>4. q \in ahead[r]
      BY <2>t, <3>1, <3>3 DEF LockManagerTypeOK
    <3>5. wanted[q] = paths[q]
      BY <2>t, <3>2 DEF LockManagerTypeOK
    <3>. QED  BY <3>3, <3>4, <3>5
  <2>. QED  BY <1>1, <2>1, <2>2 DEF LockManagerNext
<1>2. LockManagerInv /\ [LockManagerNext]_lockManagerVars
        => [\A r, q \in Requests : Fair(r, q)]_lockManagerVars
  BY <1>1
<1>. QED  BY <1>2, LockManagerInvariant, PTL DEF LockManagerSpec, NoOvertaking

-----------------------------------------------------------------------------
(* The path locks implement OrderedAdmission. *)

\* Whom the requests wait for, of the queue and the locks handed to a drain.
Blocking(st, want, front) ==
  [r \in Requests |-> {q \in Requests : /\ st[r] = "waiting" /\ Crossing(want[q], want[r])
                                        /\ st[q] = "granted" \/ q \in front[r]}]

\* A pass over a consistent queue admits some of those who wait for nobody, and nobody
\* waits for others than before.
LEMMA DrainAdmits ==
  ASSUME NEW STATE st, NEW STATE held, NEW STATE want, NEW STATE front,
         Consistent(st, held, want, front), Drain(st, held, want, front)
  PROVE  LockQueue!Admit(st, want, Blocking(st, want, front))
<1>. DEFINE G == {r \in Requests : CanGrant(r, st, held, want, front)}
<1>n. Nobody \notin Requests
  BY LockManagerAssumption DEF LockManagerAssumption
<1>1. /\ state' = [r \in Requests |-> IF r \in G THEN "granted" ELSE st[r]]
      /\ paths' = want
      /\ ahead' = [r \in Requests |-> IF r \in G THEN {} ELSE front[r] \ G]
  BY DEF Drain
<1>2. \A r \in G : /\ r \in Requests /\ st[r] = "waiting"
                   /\ \A p \in want[r] : held[p] = Nobody
                   /\ \A q \in front[r] : want[q] \cap want[r] = {}
  BY DEF CanGrant
<1>. HIDE DEF G
<1>3. ASSUME NEW r \in G, NEW q \in Requests, Crossing(want[q], want[r]),
             st[q] = "granted" \/ q \in front[r]
      PROVE  FALSE
  <2>1. PICK p \in Paths : p \in want[q] /\ p \in want[r]
    BY <1>2, <1>3 DEF Crossing, Consistent
  <2>2. q \notin front[r]
    BY <1>2, <2>1
  <2>3. held[p] = q
    BY <1>3, <2>1, <2>2 DEF Consistent
  <2>. QED  BY <1>2, <1>n, <2>1, <2>3
<1>4. G \in SUBSET {r \in Requests : st[r] = "waiting" /\ Blocking(st, want, front)[r] = {}}
  BY <1>2, <1>3 DEF Blocking
<1>5. ASSUME NEW r \in Requests, r \notin G, st[r] = "waiting", NEW q \in G, Crossing(want[q], want[r])
      PROVE  q \in front[r]
  <2>1. q \in Requests /\ st[q] = "waiting" /\ q # r
    BY <1>2, <1>5
  <2>2. r \notin front[q]
    BY <1>2, <1>5 DEF Crossing
  <2>. QED  BY <1>5, <2>1, <2>2 DEF Consistent
<1>6. LockRivals' = Blocking(st, want, front)
  <2>1. ASSUME NEW r \in Requests, NEW q \in Requests
        PROVE  (/\ state'[r] = "waiting" /\ Crossing(paths'[q], paths'[r])
                /\ state'[q] = "granted" \/ q \in ahead'[r])
               <=> (/\ st[r] = "waiting" /\ Crossing(want[q], want[r])
                    /\ st[q] = "granted" \/ q \in front[r])
    <3>1. CASE r \in G
      BY <1>1, <1>3, <3>1
    <3>2. CASE r \notin G /\ q \in G
      BY <1>1, <1>5, <3>2
    <3>3. CASE r \notin G /\ q \notin G
      BY <1>1, <3>3
    <3>. QED  BY <3>1, <3>2, <3>3
  <2>2. LockRivals' =
          [r \in Requests |-> {q \in Requests : /\ state'[r] = "waiting" /\ Crossing(paths'[q], paths'[r])
                                                /\ state'[q] = "granted" \/ q \in ahead'[r]}]
    BY DEF LockRivals, Crossing
  <2>. QED  BY <2>1, <2>2 DEF Blocking
<1>. QED  BY <1>1, <1>4, <1>6 DEF LockQueue!Admit

\* A step of the locks is a step of the abstract queue.
LEMMA LockStepRefines ==
  ASSUME LockManagerInv, [LockManagerNext]_lockManagerVars
  PROVE  [LockQueue!AdmissionNext]_LockQueue!admissionVars
<1>t. LockManagerTypeOK
  BY DEF LockManagerInv
<1>1. ASSUME NEW r \in Requests, NEW want \in SUBSET Paths, Lock(r, want)
      PROVE  LockQueue!Enter(r, want)
  <2>. DEFINE st == [state EXCEPT ![r] = "waiting"]
              wanted == [paths EXCEPT ![r] = want]
              front == [ahead EXCEPT ![r] = Waiting]
              rv == [LockRivals EXCEPT ![r] = {q \in Requests : state[q] # "idle" /\ Crossing(paths[q], want)}]
  <2>1. state[r] = "idle"
    BY <1>1 DEF Lock
  <2>2. \A q \in Requests : r \notin ahead[q]
    BY <2>1 DEF LockManagerInv, QueueIsLine, Waiting
  <2>3. LockQueue!Admit(st, wanted, rv)
    <3>1. CASE want = {}
      <4>1. /\ state' = [state EXCEPT ![r] = "granted"] /\ paths' = wanted /\ ahead' = ahead
        BY <1>1, <3>1 DEF Lock
      <4>2. LockRivals' = LockRivals
        BY <1>t, <2>1, <2>2, <3>1, <4>1 DEF LockRivals, Crossing, LockManagerTypeOK
      <4>3. rv = LockRivals /\ rv[r] = {}
        BY <2>1, <3>1 DEF LockRivals, Crossing
      <4>4. {r} \in SUBSET {q \in Requests : st[q] = "waiting" /\ rv[q] = {}}
        BY <1>t, <4>3 DEF LockManagerTypeOK
      <4>5. state' = [q \in Requests |-> IF q \in {r} THEN "granted" ELSE st[q]]
        BY <1>t, <4>1 DEF LockManagerTypeOK
      <4>. QED  BY <4>1, <4>2, <4>3, <4>4, <4>5 DEF LockQueue!Admit
    <3>2. CASE want # {}
      <4>1. Drain(st, locks, wanted, front) /\ Consistent(st, locks, wanted, front)
        BY <1>1, <2>1, <3>2, EnqueueConsistent DEF Lock
      <4>2. Blocking(st, wanted, front) = rv
        <5>1. ASSUME NEW x \in Requests
              PROVE  Blocking(st, wanted, front)[x] = rv[x]
          <6>1. CASE x = r
            BY <1>t, <2>1, <6>1 DEF Blocking, LockRivals, Waiting, Crossing, LockManagerTypeOK
          <6>2. CASE x # r
            BY <1>t, <2>1, <2>2, <6>2 DEF Blocking, LockRivals, Crossing, LockManagerTypeOK
          <6>. QED  BY <6>1, <6>2
        <5>. QED  BY <5>1 DEF Blocking, LockRivals
      <4>. HIDE DEF st, wanted, front, rv
      <4>. QED  BY <4>1, <4>2, DrainAdmits
    <3>. QED  BY <3>1, <3>2
  <2>. QED  BY <2>1, <2>3 DEF LockQueue!Enter
<1>2. ASSUME NEW r \in Requests, Unlock(r)
      PROVE  LockQueue!Leave(r, {})
  <2>. DEFINE st == [state EXCEPT ![r] = "idle"]
              held == [p \in Paths |-> IF locks[p] = r THEN Nobody ELSE locks[p]]
              wanted == [paths EXCEPT ![r] = {}]
              rv == [q \in Requests |-> IF q = r THEN {} ELSE LockRivals[q] \ {r}]
  <2>1. state[r] = "granted" /\ Drain(st, held, wanted, ahead) /\ Consistent(st, held, wanted, ahead)
    BY <1>2, FreedConsistent DEF Unlock
  <2>2. Blocking(st, wanted, ahead) = rv
    <3>1. ASSUME NEW x \in Requests
          PROVE  Blocking(st, wanted, ahead)[x] = rv[x]
      BY <1>t DEF Blocking, LockRivals, Crossing, LockManagerTypeOK
    <3>. QED  BY <3>1 DEF Blocking
  <2>3. LockQueue!Admit(st, wanted, rv)
    <3>. HIDE DEF st, held, wanted, rv
    <3>. QED  BY <2>1, <2>2, DrainAdmits
  <2>. QED  BY <2>1, <2>3 DEF LockQueue!Leave
<1>3. CASE UNCHANGED lockManagerVars
  BY <1>3 DEF lockManagerVars, LockQueue!admissionVars, LockRivals, Crossing
<1>. QED  BY <1>1, <1>2, <1>3 DEF LockManagerNext, LockQueue!AdmissionNext

\* Transactions that touch a common path run one at a time, in the order in which they
\* came: the table of locks with its queue implements the abstract queue.
THEOREM LocksAdmittedInOrder == LockManagerSpec => LocksInOrder
<1>1. LockManagerInit => LockQueue!AdmissionInit
  BY DEF LockManagerInit, LockQueue!AdmissionInit, LockRivals
<1>2. LockManagerInv /\ [LockManagerNext]_lockManagerVars =>
        [LockQueue!AdmissionNext]_LockQueue!admissionVars
  BY LockStepRefines
<1>. QED  BY <1>1, <1>2, LockManagerInvariant, PTL DEF LockManagerSpec, LocksInOrder, LockQueue!AdmissionSpec

-----------------------------------------------------------------------------
(* The scan of the path locks is one pass over the queue. *)

\* Who is in front of whom, when these have left.
FrontWithout(front, gone) == [r \in Requests |-> front[r] \ gone]

\* Whoever is taken out of a queue is no longer in front of the others.
LEMMA ArrangedWithout ==
  ASSUME NEW a \in Seq(Requests), NEW inLine, NEW front, NEW gone,
         Arranged(a, inLine, FrontWithout(front, gone)),
         NEW p \in 1..Len(a), NEW b, b = RemoveAt(a, p)
  PROVE  /\ b \in Seq(Requests) /\ Len(b) = Len(a) - 1
         /\ Arranged(b, inLine \ {a[p]}, FrontWithout(front, gone \cup {a[p]}))
<1> DEFINE n == Len(a)
           from(i) == IF i < p THEN i ELSE i + 1
<1>1. n \in Nat /\ DOMAIN a = 1..n /\ p \in Nat /\ \A i \in 1..n : a[i] \in Requests
  BY LenProperties
<1>2. b \in Seq(Requests) /\ Len(b) = n - 1 /\ \A i \in 1..(n - 1) : b[i] = a[from(i)]
  <2>1. /\ b \in Seq(Requests) /\ Len(b) = n - 1
        /\ \A i \in 1..(n - 1) : b[i] = IF i < p THEN a[i] ELSE a[i + 1]
    BY WithoutPlace
  <2> QED BY <2>1
<1>3. DOMAIN b = 1..(n - 1)
  BY <1>2, LenProperties
<1>4. \A i \in 1..(n - 1) : from(i) \in 1..n /\ from(i) # p
  BY <1>1
<1>5. \A j \in 1..n : j # p => \E i \in 1..(n - 1) : from(i) = j
  <2>1. ASSUME NEW j \in 1..n, j # p PROVE \E i \in 1..(n - 1) : from(i) = j
    <3>1. CASE j < p
      <4>1. j \in 1..(n - 1) /\ from(j) = j
        BY <1>1, <3>1
      <4> QED BY <4>1
    <3>2. CASE j > p
      <4>1. j - 1 \in 1..(n - 1) /\ from(j - 1) = j
        BY <1>1, <3>2
      <4> QED BY <4>1
    <3> QED BY <1>1, <2>1, <3>1, <3>2
  <2> QED BY <2>1
<1>6. \A i, k \in 1..(n - 1) : (from(i) = from(k) <=> i = k) /\ (from(i) < from(k) <=> i < k)
  BY <1>1
<1>7. /\ \A i, j \in 1..n : a[i] = a[j] => i = j
      /\ \A x : x \in inLine <=> \E i \in 1..n : a[i] = x
      /\ \A i \in 1..n : \A x : x \in front[a[i]] \ gone <=> \E j \in 1..(i - 1) : a[j] = x
  <2>1. /\ \A i, j \in 1..n : a[i] = a[j] => i = j
        /\ {a[i] : i \in 1..n} = inLine
        /\ \A i \in 1..n : FrontWithout(front, gone)[a[i]] = {a[j] : j \in 1..(i - 1)}
    BY <1>1 DEF Arranged
  <2>2. \A i \in 1..n : front[a[i]] \ gone = {a[j] : j \in 1..(i - 1)}
    BY <1>1, <2>1 DEF FrontWithout
  <2>3. \A x : x \in inLine <=> \E i \in 1..n : a[i] = x
    BY ONLY <2>1
  <2>4. ASSUME NEW i \in 1..n, NEW x PROVE x \in front[a[i]] \ gone <=> \E j \in 1..(i - 1) : a[j] = x
    BY ONLY <2>2, <2>4
  <2> QED BY ONLY <2>1, <2>3, <2>4
<1> HIDE DEF from, n
<1>8. \A i, k \in 1..(n - 1) : b[i] = b[k] => i = k
  BY ONLY <1>2, <1>4, <1>6, <1>7
<1>9. \A x : x \in inLine \ {a[p]} <=> \E i \in 1..(n - 1) : b[i] = x
  <2> TAKE x
  <2>1. p \in 1..n
    BY DEF n
  <2>2. ASSUME NEW i \in 1..(n - 1), b[i] = x PROVE x \in inLine \ {a[p]}
    BY ONLY <1>2, <1>4, <1>7, <2>1, <2>2
  <2>3. ASSUME x \in inLine, x # a[p] PROVE \E i \in 1..(n - 1) : b[i] = x
    <3>1. PICK j \in 1..n : a[j] = x
      BY ONLY <1>7, <2>3
    <3>2. PICK i \in 1..(n - 1) : from(i) = j
      BY ONLY <1>5, <2>3, <3>1
    <3> QED BY ONLY <1>2, <3>1, <3>2
  <2> QED BY ONLY <2>2, <2>3
<1>10. ASSUME NEW k \in 1..(n - 1), NEW x
       PROVE  x \in front[b[k]] \ (gone \cup {a[p]}) <=> \E i \in 1..(k - 1) : b[i] = x
  <2>0. p \in 1..n /\ n \in Nat
    BY <1>1 DEF n
  <2>1. b[k] = a[from(k)] /\ from(k) \in 1..n
    BY ONLY <1>2, <1>4, <1>10
  <2>2. x \in front[b[k]] \ gone <=> \E j \in 1..(from(k) - 1) : a[j] = x
    BY ONLY <1>7, <2>1
  <2>3. ASSUME NEW i \in 1..(k - 1), b[i] = x PROVE x # a[p] /\ \E j \in 1..(from(k) - 1) : a[j] = x
    <3>1. i \in 1..(n - 1) /\ i < k
      BY ONLY <1>10, <2>0, <2>3
    <3>2. from(i) < from(k) /\ from(i) \in 1..n /\ from(i) # p /\ b[i] = a[from(i)]
      BY ONLY <1>2, <1>4, <1>6, <1>10, <3>1
    <3>3. from(i) \in 1..(from(k) - 1)
      BY ONLY <2>0, <2>1, <3>2
    <3> QED BY ONLY <1>7, <2>0, <2>3, <3>2, <3>3
  <2>4. ASSUME NEW j \in 1..(from(k) - 1), a[j] = x, x # a[p] PROVE \E i \in 1..(k - 1) : b[i] = x
    <3>1. j \in 1..n /\ j < from(k) /\ j # p
      BY ONLY <2>0, <2>1, <2>4
    <3>2. PICK i \in 1..(n - 1) : from(i) = j
      BY ONLY <1>5, <3>1
    <3>3. i < k
      BY ONLY <1>6, <1>10, <3>1, <3>2
    <3>4. i \in 1..(k - 1)
      BY ONLY <1>10, <2>0, <3>2, <3>3
    <3> QED BY ONLY <1>2, <2>4, <3>2, <3>4
  <2> QED BY ONLY <2>2, <2>3, <2>4
<1>11. Arranged(b, inLine \ {a[p]}, FrontWithout(front, gone \cup {a[p]}))
  <2>1. \A i \in 1..(n - 1) : b[i] \in Requests
    BY <1>2, <1>4, <1>1 DEF n
  <2>2. {b[i] : i \in DOMAIN b} = inLine \ {a[p]}
    BY ONLY <1>3, <1>9
  <2>3. \A k \in DOMAIN b : FrontWithout(front, gone \cup {a[p]})[b[k]] = {b[i] : i \in 1..(k - 1)}
    BY ONLY <1>3, <1>10, <2>1 DEF FrontWithout
  <2> QED BY ONLY <1>3, <1>8, <2>2, <2>3 DEF Arranged
<1> QED BY <1>2, <1>11 DEF n

\* Who is in front of whom fixes the place of everybody.
LEMMA ArrangedUnique ==
  ASSUME NEW a \in Seq(Requests), NEW b \in Seq(Requests), NEW inLine, NEW front,
         Arranged(a, inLine, front), Arranged(b, inLine, front)
  PROVE  a = b
<1>1. /\ Len(a) \in Nat /\ DOMAIN a = 1..Len(a)
      /\ Len(b) \in Nat /\ DOMAIN b = 1..Len(b)
  BY LenProperties
<1>2. ASSUME NEW c \in Seq(Requests), Arranged(c, inLine, front)
      PROVE  /\ Cardinality(inLine) = Len(c)
             /\ \A i \in 1..Len(c) : Cardinality(front[c[i]]) = i - 1
  <2>1. Len(c) \in Nat /\ DOMAIN c = 1..Len(c)
    BY LenProperties
  <2>0. \A i, k \in DOMAIN c : c[i] = c[k] => i = k
    BY <1>2 DEF Arranged
  <2>2. ASSUME NEW n \in 0..Len(c), NEW heads, heads = {c[j] : j \in 1..n} PROVE Cardinality(heads) = n
    <3>1. \A x : x \in heads <=> \E j \in 1..n : c[j] = x
      BY ONLY <2>2
    <3> QED BY ONLY c \in Seq(Requests), n \in 0..Len(c), <2>0, <3>1, HeadsCounted
  <2>3. /\ {c[i] : i \in 1..Len(c)} = inLine
        /\ \A i \in 1..Len(c) : front[c[i]] = {c[j] : j \in 1..(i - 1)}
    BY <1>2, <2>1 DEF Arranged
  <2>4. \A i \in 1..Len(c) : i - 1 \in 0..Len(c)
    BY ONLY <2>1
  <2>5. Len(c) \in 0..Len(c)
    BY ONLY <2>1
  <2> QED BY ONLY <2>2, <2>3, <2>4, <2>5
<1>3. /\ Len(a) = Len(b)
      /\ \A i \in 1..Len(a) : Cardinality(front[a[i]]) = i - 1
      /\ \A i \in 1..Len(b) : Cardinality(front[b[i]]) = i - 1
  BY <1>2
<1>4. ASSUME NEW i \in 1..Len(a) PROVE a[i] = b[i]
  <2>1. a[i] \in inLine
    BY <1>1, <1>4 DEF Arranged
  <2>2. PICK k \in 1..Len(b) : b[k] = a[i]
    BY <1>1, <2>1 DEF Arranged
  <2>3. k - 1 = i - 1
    BY ONLY <1>3, <2>2, <1>4
  <2> QED BY ONLY <1>1, <2>2, <2>3, <1>4
<1> QED BY <1>1, <1>3, <1>4, SeqEqual

\* The array is what the one that is arranged is.
LEMMA QueueIs ==
  ASSUME NEW a \in Seq(Requests), NEW st, NEW front, Arranged(a, Enqueued(st), front)
  PROVE  Queue(st, front) = a
<1> DEFINE n == Cardinality(Enqueued(st))
<1>1. Len(a) \in Nat /\ DOMAIN a = 1..Len(a) /\ \A i \in 1..Len(a) : a[i] \in Requests
  BY LenProperties
<1>2. {a[i] : i \in 1..Len(a)} = Enqueued(st)
  BY <1>1 DEF Arranged
<1>3. n = Len(a)
  <2>1. Len(a) \in 0..Len(a)
    BY ONLY <1>1
  <2>0. \A i, k \in DOMAIN a : a[i] = a[k] => i = k
    BY DEF Arranged
  <2>2. \A x : x \in Enqueued(st) <=> \E i \in 1..Len(a) : a[i] = x
    BY ONLY <1>2
  <2>3. Cardinality(Enqueued(st)) = Len(a)
    <3> HIDE DEF n
    <3> QED BY ONLY a \in Seq(Requests), <2>0, <2>1, <2>2, HeadsCounted
  <2> QED BY <2>3
<1> HIDE DEF n
<1>4. a \in [1..n -> Enqueued(st)]
  <2>1. a = [i \in 1..n |-> a[i]]
    BY <1>1, <1>3
  <2>2. \A i \in 1..n : a[i] \in Enqueued(st)
    BY ONLY <1>2, <1>3
  <2> QED BY <2>1, <2>2
<1>5. Queue(st, front) \in [1..n -> Enqueued(st)] /\ Arranged(Queue(st, front), Enqueued(st), front)
  <2>1. Queue(st, front) = CHOOSE queue \in [1..n -> Enqueued(st)] : Arranged(queue, Enqueued(st), front)
    BY DEF Queue, n
  <2> QED BY ONLY <1>4, <2>1, Arranged(a, Enqueued(st), front)
<1>6. Queue(st, front) \in Seq(Requests)
  <2>1. n \in Nat /\ Enqueued(st) \subseteq Requests
    BY <1>1, <1>3 DEF Enqueued
  <2> QED BY ONLY <1>5, <2>1
<1> QED BY <1>5, <1>6, ArrangedUnique

\* The loop over the first n rounds.
RoundsTo(queue, held, want, n, after) ==
  after = [i \in 0..n |-> IF i = 0 THEN [queue |-> queue, locks |-> held] ELSE Round(after[i - 1], want)]

\* The loop has a result: what n rounds leave, one after the other.
LEMMA RoundsExist ==
  ASSUME NEW queue, NEW held, NEW want, NEW n \in Nat
  PROVE  \E after : RoundsTo(queue, held, want, n, after)
<1> DEFINE Solvable(i) == \E after : RoundsTo(queue, held, want, i, after)
           Bad == {i \in Nat : ~Solvable(i)}
<1>1. SUFFICES ASSUME Bad # {} PROVE FALSE
  BY DEF Bad
<1>2. PICK m \in Bad : \A k \in Bad : m <= k
  <2>1. Bad \in SUBSET Nat
    OBVIOUS
  <2> HIDE DEF Bad
  <2> QED BY <1>1, <2>1, LeastNatural
<1>3. m \in Nat /\ ~Solvable(m)
  OBVIOUS
<1>4. m # 0
  <2> DEFINE f == [i \in 0..0 |-> [queue |-> queue, locks |-> held]]
  <2>1. \A i \in 0..0 : i = 0
    OBVIOUS
  <2>2. RoundsTo(queue, held, want, 0, f)
    <3> HIDE DEF Solvable
    <3> QED BY <2>1 DEF RoundsTo
  <2>3. Solvable(0)
    BY <2>2
  <2> QED BY <1>3, <2>3
<1>5. PICK f : RoundsTo(queue, held, want, m - 1, f)
  <2>1. m - 1 \in Nat /\ ~(m <= m - 1)
    BY <1>3, <1>4
  <2>2. Solvable(m - 1)
    BY <1>2, <2>1
  <2> QED BY <2>2
<1> HIDE DEF Solvable, Bad
<1> DEFINE g == [i \in 0..m |-> IF i = m THEN Round(f[m - 1], want) ELSE f[i]]
<1>6. \A i \in 0..m : i # m => g[i] = f[i]
  OBVIOUS
<1>7. g[m] = Round(f[m - 1], want)
  BY <1>3
<1>8. g = [i \in 0..m |-> g[i]]
  OBVIOUS
<1> HIDE DEF g
<1>9. ASSUME NEW i \in 0..m
      PROVE  g[i] = IF i = 0 THEN [queue |-> queue, locks |-> held] ELSE Round(g[i - 1], want)
  <2>1. CASE i = m
    <3>1. m - 1 \in 0..m /\ m - 1 # m
      BY ONLY <1>3, <1>4
    <3> QED BY ONLY <1>4, <1>6, <1>7, <2>1, <3>1
  <2>2. CASE i # m
    <3>1. i \in 0..(m - 1) /\ (i # 0 => i - 1 \in 0..m /\ i - 1 # m)
      BY ONLY <1>3, <2>2, i \in 0..m
    <3>2. f[i] = IF i = 0 THEN [queue |-> queue, locks |-> held] ELSE Round(f[i - 1], want)
      BY ONLY <1>5, <3>1 DEF RoundsTo
    <3> QED BY ONLY <1>6, <2>2, <3>1, <3>2, i \in 0..m
  <2> QED BY ONLY <2>1, <2>2
<1>10. RoundsTo(queue, held, want, m, g)
  BY ONLY <1>8, <1>9 DEF RoundsTo
<1> QED BY <1>3, <1>10 DEF Solvable

\* What the loop leaves, round by round.
LEMMA ScanUnfolds ==
  ASSUME NEW queue, NEW held, NEW want, Len(queue) \in Nat
  PROVE  \E after : /\ Scan(queue, held, want) = after[Len(queue)]
                    /\ after[0] = [queue |-> queue, locks |-> held]
                    /\ \A n \in 1..Len(queue) : after[n] = Round(after[n - 1], want)
<1>1. PICK after : RoundsTo(queue, held, want, Len(queue), after) /\ Scan(queue, held, want) = after[Len(queue)]
  <2>1. \E after : RoundsTo(queue, held, want, Len(queue), after)
    BY RoundsExist
  <2>2. Scan(queue, held, want) = (CHOOSE after : RoundsTo(queue, held, want, Len(queue), after))[Len(queue)]
    BY DEF Scan, RoundsTo
  <2> QED BY ONLY <2>1, <2>2
<1>2. \A i \in 0..Len(queue) : after[i] = IF i = 0 THEN [queue |-> queue, locks |-> held] ELSE Round(after[i - 1], want)
  BY ONLY <1>1 DEF RoundsTo
<1>3. \A n \in 1..Len(queue) : n \in 0..Len(queue) /\ n # 0
  OBVIOUS
<1>4. 0 \in 0..Len(queue)
  OBVIOUS
<1>5. \A n \in 1..Len(queue) : after[n] = Round(after[n - 1], want)
  BY ONLY <1>2, <1>3
<1>6. after[0] = [queue |-> queue, locks |-> held]
  BY ONLY <1>2, <1>4
<1> QED BY <1>1, <1>5, <1>6


\* Whom a drain grants, and the locks when it has granted some of them.
Grantable(st, held, want, front) == {r \in Requests : CanGrant(r, st, held, want, front)}
LocksWith(gone, held, want) ==
  [p \in Paths |-> IF \E r \in gone : p \in want[r] THEN CHOOSE r \in gone : p \in want[r] ELSE held[p]]

\* Where the loop stands when it has granted these: the others are in the queue.
ScanAt(at, gone, st, held, want, front) ==
  /\ at.queue \in Seq(Requests)
  /\ Arranged(at.queue, Enqueued(st) \ gone, FrontWithout(front, gone))
  /\ at = [queue |-> at.queue, locks |-> LocksWith(gone, held, want)]

\* Those that can be granted have no path in common, and find their paths free.
LEMMA GrantableApart ==
  ASSUME NEW st, NEW held, NEW want, NEW front, Consistent(st, held, want, front),
         NEW G, G = Grantable(st, held, want, front)
  PROVE  /\ G \subseteq Enqueued(st)
         /\ \A r, q \in G : \A p \in want[r] : p \in want[q] => r = q
         /\ \A r \in G : \A p \in want[r] : p \in Paths /\ held[p] = Nobody
         /\ \A r \in G : \A q \in front[r] : want[q] \cap want[r] = {}
<1>1. \A r \in G : /\ r \in Requests /\ st[r] = "waiting"
                   /\ \A p \in want[r] : held[p] = Nobody
                   /\ \A q \in front[r] : want[q] \cap want[r] = {}
  BY DEF Grantable, CanGrant
<1>2. ASSUME NEW r \in G, NEW q \in G, NEW p \in want[r], p \in want[q], r # q
      PROVE  FALSE
  <2>1. q \in front[r] \/ r \in front[q]
    BY <1>1, <1>2 DEF Consistent
  <2> QED BY ONLY <1>1, <1>2, r \in G, q \in G, p \in want[r], <2>1
<1>3. G \subseteq Enqueued(st)
  BY ONLY <1>1 DEF Enqueued
<1>4. \A r \in G : \A p \in want[r] : p \in Paths
  BY <1>1 DEF Consistent
<1> QED BY ONLY <1>1, <1>2, <1>3, <1>4

\* The locks while those that can be granted are being granted.
LEMMA LocksBetween ==
  ASSUME NEW st, NEW held, NEW want, NEW front, Consistent(st, held, want, front),
         NEW G, G = Grantable(st, held, want, front),
         NEW gone, gone \subseteq G, NEW p \in Paths
  PROVE  /\ \A r \in gone : p \in want[r] => LocksWith(gone, held, want)[p] = r
         /\ (\A r \in gone : p \notin want[r]) => LocksWith(gone, held, want)[p] = held[p]
<1>1. \A r, q \in gone : p \in want[r] /\ p \in want[q] => r = q
  BY ONLY gone \subseteq G, GrantableApart, Consistent(st, held, want, front), G = Grantable(st, held, want, front)
<1>2. LocksWith(gone, held, want)[p] =
        IF \E r \in gone : p \in want[r] THEN CHOOSE r \in gone : p \in want[r] ELSE held[p]
  BY DEF LocksWith
<1> QED BY ONLY <1>1, <1>2

\* Whom the loop can grant, wherever it stands, is whom the pass grants.
LEMMA AbleIsGrantable ==
  ASSUME NEW st, NEW held, NEW want, NEW front, Consistent(st, held, want, front),
         NEW G, G = Grantable(st, held, want, front),
         NEW gone, gone \subseteq G,
         NEW at, ScanAt(at, gone, st, held, want, front),
         NEW i \in DOMAIN at.queue
  PROVE  CanGrantAt(at.queue, i, at.locks, want) <=> at.queue[i] \in G
<1> DEFINE r == at.queue[i]
<1>n. Nobody \notin Requests
  BY LockManagerAssumption DEF LockManagerAssumption
<1>1. /\ G \subseteq Enqueued(st)
      /\ \A x, q \in G : \A p \in want[x] : p \in want[q] => x = q
      /\ \A x \in G : \A p \in want[x] : p \in Paths /\ held[p] = Nobody
      /\ \A x \in G : \A q \in front[x] : want[q] \cap want[x] = {}
  BY GrantableApart
<1>2. r \in Enqueued(st) /\ r \notin gone /\ r \in Requests
  BY DEF ScanAt, Arranged, Enqueued
<1>3. \A q : q \in front[r] \ gone <=> \E j \in 1..(i - 1) : at.queue[j] = q
  <2>1. FrontWithout(front, gone)[r] = {at.queue[j] : j \in 1..(i - 1)}
    BY DEF ScanAt, Arranged
  <2>2. FrontWithout(front, gone)[r] = front[r] \ gone
    BY <1>2 DEF FrontWithout
  <2> HIDE DEF r
  <2> QED BY ONLY <2>1, <2>2
<1>4. /\ \A p \in Paths : \A x \in gone : p \in want[x] => at.locks[p] = x
      /\ \A p \in Paths : (\A x \in gone : p \notin want[x]) => at.locks[p] = held[p]
  <2>1. at.locks = LocksWith(gone, held, want)
    BY DEF ScanAt
  <2>2. ASSUME NEW p \in Paths
        PROVE  /\ \A x \in gone : p \in want[x] => LocksWith(gone, held, want)[p] = x
               /\ (\A x \in gone : p \notin want[x]) => LocksWith(gone, held, want)[p] = held[p]
    BY LocksBetween
  <2> QED BY ONLY <2>1, <2>2
<1>5. want[r] \subseteq Paths /\ st[r] = "waiting"
  BY <1>2 DEF Consistent, Enqueued
<1>6. CanGrantAt(at.queue, i, at.locks, want) <=>
        /\ \A p \in want[r] : at.locks[p] = Nobody
        /\ \A q \in front[r] \ gone : want[q] \cap want[r] = {}
  <2>1. CanGrantAt(at.queue, i, at.locks, want) <=>
          /\ \A p \in want[r] : at.locks[p] = Nobody
          /\ \A j \in 1..(i - 1) : want[at.queue[j]] \cap want[r] = {}
    BY DEF CanGrantAt
  <2> HIDE DEF r
  <2> QED BY ONLY <2>1, <1>3
<1> HIDE DEF r
<1>7. gone \subseteq Requests
  BY <1>1 DEF Enqueued
<1>8. ASSUME r \in G PROVE CanGrantAt(at.queue, i, at.locks, want)
  <2>1. ASSUME NEW p \in want[r] PROVE at.locks[p] = Nobody
    <3>1. p \in Paths /\ held[p] = Nobody /\ \A x \in gone : p \notin want[x]
      BY ONLY <1>1, <1>2, <1>8, gone \subseteq G, p \in want[r]
    <3> QED BY ONLY <1>4, <3>1
  <2> QED BY ONLY <1>1, <1>6, <1>8, <2>1
<1>9. ASSUME CanGrantAt(at.queue, i, at.locks, want) PROVE r \in G
  <2>1. \A p \in want[r] : at.locks[p] = Nobody /\ p \in Paths
    BY ONLY <1>5, <1>6, <1>9
  <2>2. \A p \in want[r] : (\A x \in gone : p \notin want[x]) /\ held[p] = Nobody
    BY ONLY <1>n, <1>4, <1>7, <2>1
  <2>3. \A q \in front[r] : want[q] \cap want[r] = {}
    BY ONLY <1>6, <1>9, <2>2
  <2> QED BY <1>2, <1>5, <2>2, <2>3 DEF Grantable, CanGrant
<1> QED BY <1>8, <1>9 DEF r


\* The loop has granted some of those that the pass grants, and all of them when more than
\* so many are left in the queue.
ScanBy(at, left, G, st, held, want, front) ==
  \E gone \in SUBSET G : /\ ScanAt(at, gone, st, held, want, front)
                         /\ gone = G \/ Len(at.queue) <= left

\* A round grants one more of those that the pass grants, or has granted them all.
LEMMA RoundGrants ==
  ASSUME NEW st, NEW held, NEW want, NEW front, Consistent(st, held, want, front),
         NEW G, G = Grantable(st, held, want, front),
         NEW at, NEW left \in Int, ScanBy(at, left, G, st, held, want, front),
         NEW then, then = Round(at, want)
  PROVE  ScanBy(then, left - 1, G, st, held, want, front)
<1>a. PICK gone \in SUBSET G : /\ ScanAt(at, gone, st, held, want, front)
                               /\ gone = G \/ Len(at.queue) <= left
  BY DEF ScanBy
<1>b. gone \subseteq G
  OBVIOUS
<1> DEFINE able == {i \in DOMAIN at.queue : CanGrantAt(at.queue, i, at.locks, want)}
           first == CHOOSE i \in able : \A j \in able : i <= j
           r == at.queue[first]
<1>1. then = IF able = {} THEN at
             ELSE [queue |-> RemoveAt(at.queue, first),
                   locks |-> [p \in Paths |-> IF p \in want[r] THEN r ELSE at.locks[p]]]
  BY DEF Round
<1>2. /\ at.queue \in Seq(Requests) /\ Arranged(at.queue, Enqueued(st) \ gone, FrontWithout(front, gone))
      /\ at = [queue |-> at.queue, locks |-> LocksWith(gone, held, want)]
  BY <1>a DEF ScanAt
<1>3. DOMAIN at.queue = 1..Len(at.queue) /\ Len(at.queue) \in Nat
  BY <1>2, LenProperties
<1>4. \A i \in DOMAIN at.queue : CanGrantAt(at.queue, i, at.locks, want) <=> at.queue[i] \in G
  BY ONLY Consistent(st, held, want, front), G = Grantable(st, held, want, front), <1>a, <1>b, AbleIsGrantable
<1>5. \A x : x \in Enqueued(st) \ gone <=> \E i \in DOMAIN at.queue : at.queue[i] = x
  <2>1. {at.queue[i] : i \in DOMAIN at.queue} = Enqueued(st) \ gone
    BY <1>2 DEF Arranged
  <2> QED BY ONLY <2>1
<1>6. G \subseteq Enqueued(st)
  BY GrantableApart
<1>7. able = {} <=> gone = G
  BY ONLY <1>4, <1>5, <1>6, <1>b
<1>8. ASSUME gone # G
      PROVE  ScanAt(then, gone \cup {r}, st, held, want, front) /\ r \in G /\ Len(then.queue) = Len(at.queue) - 1
  <2>1. first \in able
    <3>1. able \in SUBSET Nat /\ able # {}
      BY <1>3, <1>7, <1>8
    <3> HIDE DEF able
    <3>2. \E i \in able : \A j \in able : i <= j
      BY <3>1, LeastNatural
    <3> QED BY ONLY <3>2
  <2>2. first \in 1..Len(at.queue) /\ r \in G /\ r \in Requests
    <3>1. first \in DOMAIN at.queue /\ CanGrantAt(at.queue, first, at.locks, want)
      <4> HIDE DEF first
      <4> QED BY ONLY <2>1
    <3>2. r \in G
      <4> HIDE DEF first
      <4> QED BY ONLY <1>4, <3>1
    <3>3. r \in Requests
      BY ONLY <1>6, <3>2 DEF Enqueued
    <3> HIDE DEF first
    <3> QED BY ONLY <1>3, <3>1, <3>2, <3>3
  <2> HIDE DEF first, able
  <2>3. then = [queue |-> RemoveAt(at.queue, first),
                locks |-> [p \in Paths |-> IF p \in want[r] THEN r ELSE at.locks[p]]]
    BY ONLY <1>1, <1>7, <1>8
  <2>4. /\ then.queue = RemoveAt(at.queue, first)
        /\ then.locks = [p \in Paths |-> IF p \in want[r] THEN r ELSE at.locks[p]]
        /\ then = [queue |-> then.queue, locks |-> then.locks]
    BY ONLY <2>3
  <2>5. /\ then.queue \in Seq(Requests) /\ Len(then.queue) = Len(at.queue) - 1
        /\ Arranged(then.queue, (Enqueued(st) \ gone) \ {r}, FrontWithout(front, gone \cup {r}))
    BY ONLY <1>2, <2>2, <2>4, ArrangedWithout
  <2>6. (Enqueued(st) \ gone) \ {r} = Enqueued(st) \ (gone \cup {r})
    OBVIOUS
  <2> DEFINE more == gone \cup {r}
  <2>7. then.locks = LocksWith(more, held, want)
    <3>1. more \subseteq G
      BY ONLY <2>2, <1>b
    <3>2. at.locks = LocksWith(gone, held, want)
      BY ONLY <1>2
    <3>3. ASSUME NEW p \in Paths
          PROVE  (IF p \in want[r] THEN r ELSE at.locks[p]) = LocksWith(more, held, want)[p]
      <4>1. /\ \A x \in gone : p \in want[x] => at.locks[p] = x
            /\ (\A x \in gone : p \notin want[x]) => at.locks[p] = held[p]
        BY <1>b, <3>2, LocksBetween
      <4>2. /\ \A x \in more : p \in want[x] => LocksWith(more, held, want)[p] = x
            /\ (\A x \in more : p \notin want[x]) => LocksWith(more, held, want)[p] = held[p]
        <5> HIDE DEF more
        <5> QED BY <3>1, LocksBetween
      <4>3. r \in more /\ \A x : x \in more <=> x \in gone \/ x = r
        OBVIOUS
      <4> HIDE DEF more, r
      <4> QED BY ONLY <4>1, <4>2, <4>3
    <3>4. LocksWith(more, held, want) = [p \in Paths |-> LocksWith(more, held, want)[p]]
      BY DEF LocksWith
    <3> HIDE DEF more
    <3> QED BY ONLY <2>4, <3>3, <3>4
  <2> QED BY ONLY <2>2, <2>4, <2>5, <2>6, <2>7 DEF ScanAt
<1>9. CASE gone = G
  <2>1. then = at
    BY ONLY <1>1, <1>7, <1>9
  <2> QED BY <1>a, <1>9, <2>1 DEF ScanBy
<1>10. CASE gone # G
  <2>1. ScanAt(then, gone \cup {r}, st, held, want, front) /\ r \in G /\ Len(then.queue) = Len(at.queue) - 1
    BY ONLY <1>8, <1>10
  <2> HIDE DEF r
  <2>2. Len(then.queue) <= left - 1
    BY ONLY left \in Int, <1>a, <1>3, <1>10, <2>1
  <2>3. gone \cup {r} \in SUBSET G
    BY ONLY <1>b, <2>1
  <2> QED BY ONLY <2>1, <2>2, <2>3 DEF ScanBy
<1> QED BY <1>9, <1>10

\* At its end the loop has granted whom the pass grants, and left the others in the queue.
LEMMA ScanGrants ==
  ASSUME NEW st, NEW held, NEW want, NEW front, Consistent(st, held, want, front),
         NEW G, G = Grantable(st, held, want, front),
         NEW queue \in Seq(Requests), Arranged(queue, Enqueued(st), front)
  PROVE  ScanAt(Scan(queue, held, want), G, st, held, want, front)
<1>0. PICK N \in Nat : N = Len(queue)
  BY LenProperties
<1>1. PICK after : /\ Scan(queue, held, want) = after[N]
                   /\ after[0] = [queue |-> queue, locks |-> held]
                   /\ \A n \in 1..N : after[n] = Round(after[n - 1], want)
  <2>1. Len(queue) \in Nat
    BY ONLY <1>0
  <2> QED BY ONLY <1>0, <2>1, ScanUnfolds
<1> DEFINE Good(n) == ScanBy(after[n], N - n, G, st, held, want, front)
           Bad == {n \in 0..N : ~Good(n)}
<1>2. Good(0)
  <2>1. after[0].queue = queue /\ after[0].locks = held /\ after[0] = [queue |-> queue, locks |-> held]
    BY ONLY <1>1
  <2>2. DOMAIN queue = 1..N /\ \A i \in 1..N : queue[i] \in Requests
    BY <1>0, LenProperties
  <2>3. Arranged(queue, Enqueued(st) \ {}, FrontWithout(front, {}))
    <3>1. Enqueued(st) \ {} = Enqueued(st) /\ \A i \in DOMAIN queue : FrontWithout(front, {})[queue[i]] = front[queue[i]]
      BY <2>2 DEF FrontWithout
    <3> QED BY <3>1 DEF Arranged
  <2>4. held = LocksWith({}, held, want)
    <3>1. LocksWith({}, held, want) = [p \in Paths |-> held[p]]
      BY DEF LocksWith
    <3> QED BY <3>1 DEF Consistent
  <2>5. ScanAt(after[0], {}, st, held, want, front)
    BY ONLY queue \in Seq(Requests), <2>1, <2>3, <2>4 DEF ScanAt
  <2>6. Len(after[0].queue) <= N - 0
    BY ONLY <1>0, <2>1
  <2> QED BY ONLY <2>5, <2>6 DEF ScanBy
<1>3. ASSUME NEW n \in 1..N, Good(n - 1) PROVE Good(n)
  <2>1. PICK at : at = after[n - 1]
    OBVIOUS
  <2>2. PICK left \in Int : left = N - (n - 1) /\ left - 1 = N - n
    BY <1>0
  <2>3. ScanBy(at, left, G, st, held, want, front)
    BY ONLY <1>3, <2>1, <2>2
  <2>4. after[n] = Round(at, want)
    BY ONLY <1>1, <2>1, n \in 1..N
  <2>5. ScanBy(after[n], left - 1, G, st, held, want, front)
    BY <2>3, <2>4, RoundGrants
  <2> QED BY ONLY <2>2, <2>5
<1>4. Good(N)
  <2> HIDE DEF Good
  <2>1. SUFFICES ASSUME Bad # {} PROVE FALSE
    BY <1>0
  <2>2. Bad \in SUBSET Nat
    OBVIOUS
  <2>3. PICK m \in Bad : \A k \in Bad : m <= k
    <3> HIDE DEF Bad
    <3> QED BY <2>1, <2>2, LeastNatural
  <2>4. m \in 0..N /\ ~Good(m) /\ m # 0
    BY <1>2
  <2>5. m \in 1..N /\ m - 1 \in 0..N /\ ~(m <= m - 1)
    BY <1>0, <2>4
  <2>6. Good(m - 1)
    BY <2>3, <2>5
  <2> QED BY <1>3, <2>4, <2>5, <2>6
<1>5. PICK at : at = after[N] /\ ScanBy(at, N - N, G, st, held, want, front)
  BY <1>4
<1>6. PICK gone \in SUBSET G : /\ ScanAt(at, gone, st, held, want, front)
                               /\ gone = G \/ Len(at.queue) <= N - N
  BY ONLY <1>5 DEF ScanBy
<1>7. ASSUME gone # G PROVE FALSE
  <2>1. at.queue \in Seq(Requests) /\ Arranged(at.queue, Enqueued(st) \ gone, FrontWithout(front, gone))
    BY <1>6 DEF ScanAt
  <2>2. Len(at.queue) \in Nat /\ DOMAIN at.queue = 1..Len(at.queue)
    BY <2>1, LenProperties
  <2>3. \A i \in DOMAIN at.queue : FALSE
    BY ONLY <1>0, <1>6, <1>7, <2>2
  <2>4. Enqueued(st) \ gone = {}
    <3>1. {at.queue[i] : i \in DOMAIN at.queue} = Enqueued(st) \ gone
      BY <2>1 DEF Arranged
    <3> QED BY ONLY <2>3, <3>1
  <2>5. G \subseteq Enqueued(st)
    BY GrantableApart
  <2> QED BY ONLY <1>7, <2>4, <2>5, gone \in SUBSET G
<1> QED BY <1>1, <1>5, <1>6, <1>7


\* The queue is an array: those that wait stand in a line, each once.
QueueStands == \E queue \in Seq(Requests) : Arranged(queue, Enqueued(state), ahead)

\* A drain leaves the locks and the queue that the loop leaves, and a queue that stands.
LEMMA DrainScans ==
  ASSUME NEW STATE st, NEW STATE held, NEW STATE want, NEW STATE front,
         Consistent(st, held, want, front), Drain(st, held, want, front),
         NEW STATE queue, queue \in Seq(Requests), Arranged(queue, Enqueued(st), front)
  PROVE  QueueStands' /\ ScannedFrom(queue, held)
<1>1. PICK G : G = Grantable(st, held, want, front)
  OBVIOUS
<1>2. PICK at : at = Scan(queue, held, want)
  OBVIOUS
<1>3. ScanAt(at, G, st, held, want, front)
  <2>1. ScanAt(Scan(queue, held, want), G, st, held, want, front)
    BY <1>1, ScanGrants
  <2> QED BY ONLY <1>2, <2>1
<1>4. /\ at.queue \in Seq(Requests)
      /\ Arranged(at.queue, Enqueued(st) \ G, FrontWithout(front, G))
      /\ at.locks = LocksWith(G, held, want)
  <2>1. at = [queue |-> at.queue, locks |-> LocksWith(G, held, want)]
    BY ONLY <1>3 DEF ScanAt
  <2>2. at.locks = LocksWith(G, held, want)
    BY ONLY <2>1
  <2> QED BY ONLY <1>3, <2>2 DEF ScanAt
<1>5. /\ state' = [r \in Requests |-> IF r \in G THEN "granted" ELSE st[r]]
      /\ locks' = LocksWith(G, held, want)
      /\ paths' = want
      /\ ahead' = [r \in Requests |-> IF r \in G THEN {} ELSE front[r] \ G]
  BY ONLY <1>1, Drain(st, held, want, front) DEF Drain, Grantable, LocksWith
<1>6. Enqueued(state') = Enqueued(st) \ G
  <2>1. \A r \in Requests : state'[r] = "waiting" <=> st[r] = "waiting" /\ r \notin G
    BY ONLY <1>5
  <2> QED BY ONLY <2>1 DEF Enqueued
<1>7. Arranged(at.queue, Enqueued(state'), ahead')
  <2>1. \A i \in DOMAIN at.queue : at.queue[i] \in Enqueued(st) \ G
    <3>1. {at.queue[i] : i \in DOMAIN at.queue} = Enqueued(st) \ G
      BY ONLY <1>4 DEF Arranged
    <3> QED BY ONLY <3>1
  <2>2. \A i \in DOMAIN at.queue : ahead'[at.queue[i]] = FrontWithout(front, G)[at.queue[i]]
    BY ONLY <1>5, <2>1 DEF Enqueued, FrontWithout
  <2> QED BY ONLY <1>4, <1>6, <2>2 DEF Arranged
<1>8. QueueStands'
  BY ONLY <1>4, <1>7 DEF QueueStands
<1>9. Queue(state', ahead') = at.queue
  BY ONLY <1>4, <1>7, QueueIs
<1>10. Scan(queue, held, paths') = at
  BY ONLY <1>2, <1>5
<1>11. at.locks = locks' /\ at.queue = Queue(state', ahead')
  BY ONLY <1>4, <1>5, <1>9
<1> QED BY ONLY <1>8, <1>10, <1>11 DEF ScannedFrom

LEMMA QueueStandsInit == LockManagerInit => QueueStands
<1>. SUFFICES ASSUME LockManagerInit PROVE QueueStands
  OBVIOUS
<1>1. Enqueued(state) = {}
  BY DEF LockManagerInit, Enqueued
<1>2. <<>> \in Seq(Requests) /\ DOMAIN <<>> = 1..0
  OBVIOUS
<1>3. \A i \in DOMAIN <<>> : FALSE
  BY ONLY <1>2
<1>4. {<<>>[i] : i \in DOMAIN <<>>} = {}
  BY ONLY <1>3
<1>5. Arranged(<<>>, Enqueued(state), ahead)
  BY ONLY <1>1, <1>3, <1>4 DEF Arranged
<1> QED BY ONLY <1>2, <1>5 DEF QueueStands

\* A request at the end of the queue has all the others in front of it.
LEMMA EnqueueArranges ==
  ASSUME LockManagerInv, NEW r \in Requests, state[r] = "idle",
         NEW queue \in Seq(Requests), Arranged(queue, Enqueued(state), ahead),
         NEW longer, longer = Append(queue, r)
  PROVE  /\ longer \in Seq(Requests)
         /\ Arranged(longer, Enqueued([state EXCEPT ![r] = "waiting"]), [ahead EXCEPT ![r] = Waiting])
<1>0. /\ state \in [Requests -> {"idle", "waiting", "granted"}]
      /\ ahead \in [Requests -> SUBSET Requests]
  BY DEF LockManagerInv, LockManagerTypeOK
<1>1. PICK n \in Nat : n = Len(queue)
  BY LenProperties
<1>2. DOMAIN queue = 1..n /\ \A i \in 1..n : queue[i] \in Requests
  BY <1>1, LenProperties
<1>3. /\ longer \in Seq(Requests) /\ DOMAIN longer = 1..(n + 1)
      /\ longer[n + 1] = r /\ \A i \in 1..n : longer[i] = queue[i]
  <2>1. /\ longer \in Seq(Requests) /\ Len(longer) = Len(queue) + 1 /\ longer[Len(queue) + 1] = r
        /\ \A i \in 1..Len(queue) : longer[i] = queue[i]
    BY AppendProperties
  <2>2. DOMAIN longer = 1..Len(longer)
    BY <2>1, LenProperties
  <2> QED BY ONLY <1>1, <2>1, <2>2
<1>4. /\ \A i, j \in 1..n : queue[i] = queue[j] => i = j
      /\ \A x : x \in Enqueued(state) <=> \E i \in 1..n : queue[i] = x
      /\ \A i \in 1..n : ahead[queue[i]] = {queue[j] : j \in 1..(i - 1)}
  <2>1. /\ \A i, j \in 1..n : queue[i] = queue[j] => i = j
        /\ {queue[i] : i \in 1..n} = Enqueued(state)
        /\ \A i \in 1..n : ahead[queue[i]] = {queue[j] : j \in 1..(i - 1)}
    BY <1>2 DEF Arranged
  <2>2. \A x : x \in Enqueued(state) <=> \E i \in 1..n : queue[i] = x
    BY ONLY <2>1
  <2> QED BY ONLY <2>1, <2>2
<1>5. r \notin Enqueued(state) /\ \A i \in 1..n : queue[i] # r
  <2>1. r \notin Enqueued(state)
    BY DEF Enqueued
  <2> QED BY ONLY <1>4, <2>1
<1>6. \A i \in 1..(n + 1) : i \in 1..n \/ i = n + 1
  BY ONLY <1>1
<1>7. \A i \in 1..n : i \in 1..(n + 1) /\ i # n + 1 /\ i - 1 < n + 1
  BY ONLY <1>1
<1>8. n + 1 \in 1..(n + 1) /\ n + 1 - 1 = n
  BY ONLY <1>1
<1>9. \A i, j \in 1..(n + 1) : longer[i] = longer[j] => i = j
  BY ONLY <1>3, <1>4, <1>5, <1>6
<1>10. Enqueued([state EXCEPT ![r] = "waiting"]) = Enqueued(state) \cup {r}
  BY <1>0 DEF Enqueued
<1>11. {longer[i] : i \in 1..(n + 1)} = Enqueued(state) \cup {r}
  <2>1. \A x : x \in Enqueued(state) \cup {r} <=> \E i \in 1..(n + 1) : longer[i] = x
    BY ONLY <1>3, <1>4, <1>6, <1>7, <1>8
  <2> QED BY ONLY <2>1
<1>12. ASSUME NEW i \in 1..(n + 1)
       PROVE  [ahead EXCEPT ![r] = Waiting][longer[i]] = {longer[j] : j \in 1..(i - 1)}
  <2>1. CASE i \in 1..n
    <3>1. [ahead EXCEPT ![r] = Waiting][longer[i]] = ahead[queue[i]]
      BY <1>0, <1>2, <1>3, <1>5, <2>1
    <3>2. \A j \in 1..(i - 1) : j \in 1..n
      BY ONLY <1>1, <2>1
    <3>3. {longer[j] : j \in 1..(i - 1)} = {queue[j] : j \in 1..(i - 1)}
      BY ONLY <1>3, <3>2
    <3>4. ahead[queue[i]] = {queue[j] : j \in 1..(i - 1)}
      BY ONLY <1>4, <2>1
    <3> QED BY ONLY <3>1, <3>3, <3>4
  <2>2. CASE i = n + 1
    <3>1. [ahead EXCEPT ![r] = Waiting][longer[i]] = Enqueued(state)
      BY <1>0, <1>3, <2>2 DEF Waiting, Enqueued
    <3>2. i - 1 = n
      BY ONLY <1>8, <2>2
    <3>3. \A x : x \in Enqueued(state) <=> \E j \in 1..n : longer[j] = x
      BY ONLY <1>3, <1>4
    <3>4. Enqueued(state) = {longer[j] : j \in 1..n}
      BY ONLY <3>3
    <3> QED BY ONLY <3>1, <3>2, <3>4
  <2> QED BY ONLY <1>6, <1>12, <2>1, <2>2
<1>13. Arranged(longer, Enqueued([state EXCEPT ![r] = "waiting"]), [ahead EXCEPT ![r] = Waiting])
  <2> DEFINE then == Enqueued([state EXCEPT ![r] = "waiting"])
             front == [ahead EXCEPT ![r] = Waiting]
  <2>1. then = {longer[i] : i \in 1..(n + 1)} /\ \A i \in 1..(n + 1) : front[longer[i]] = {longer[j] : j \in 1..(i - 1)}
    BY <1>10, <1>11, <1>12
  <2> HIDE DEF then, front
  <2>2. Arranged(longer, then, front)
    BY ONLY <1>3, <1>9, <2>1 DEF Arranged
  <2> QED BY <2>2 DEF then, front
<1> QED BY <1>3, <1>13

\* A drain changes only those that wait.
LEMMA DrainLeaves ==
  ASSUME NEW STATE st, NEW STATE held, NEW STATE want, NEW STATE front,
         Drain(st, held, want, front), NEW r \in Requests, st[r] # "waiting"
  PROVE  state'[r] = st[r] /\ paths' = want
BY DEF Drain, CanGrant

LEMMA LockScans ==
  ASSUME LockManagerInv, QueueStands, NEW x \in Requests, NEW want \in SUBSET Paths, Lock(x, want)
  PROVE  QueueStands' /\ \A r \in Requests : ServedByScan(r)
<1>0. /\ state \in [Requests -> {"idle", "waiting", "granted"}]
      /\ paths \in [Requests -> SUBSET Paths]
  BY DEF LockManagerInv, LockManagerTypeOK
<1>1. PICK queue \in Seq(Requests) : Arranged(queue, Enqueued(state), ahead)
  BY DEF QueueStands
<1>2. Queue(state, ahead) = queue
  BY ONLY queue \in Seq(Requests), <1>1, QueueIs
<1>3. state[x] = "idle"
  BY DEF Lock
<1>4. CASE want = {}
  <2>1. /\ state' = [state EXCEPT ![x] = "granted"] /\ paths' = [paths EXCEPT ![x] = {}]
        /\ ahead' = ahead
    BY <1>4 DEF Lock
  <2>2. Enqueued(state') = Enqueued(state)
    BY <1>0, <1>3, <2>1 DEF Enqueued
  <2>3. QueueStands'
    BY ONLY queue \in Seq(Requests), <1>1, <2>1, <2>2 DEF QueueStands
  <2>4. ASSUME NEW r \in Requests PROVE ServedByScan(r)
    <3>1. CASE r = x
      BY <1>0, <1>3, <2>1, <3>1 DEF ServedByScan
    <3>2. CASE r # x
      <4>1. state'[r] = state[r]
        BY <1>0, <2>1, <3>2
      <4> QED BY <4>1 DEF ServedByScan
    <3> QED BY <3>1, <3>2
  <2> QED BY <2>3, <2>4
<1>5. CASE want # {}
  <2> DEFINE st == [state EXCEPT ![x] = "waiting"]
             wanted == [paths EXCEPT ![x] = want]
             front == [ahead EXCEPT ![x] = Waiting]
  <2>1. Drain(st, locks, wanted, front)
    BY <1>5 DEF Lock
  <2>2. Consistent(st, locks, wanted, front)
    BY <1>3, EnqueueConsistent
  <2>3. PICK longer : longer = Append(queue, x)
    OBVIOUS
  <2>4. longer \in Seq(Requests) /\ Arranged(longer, Enqueued(st), front)
    BY <1>1, <1>3, <2>3, EnqueueArranges
  <2>5. \A r \in Requests : r # x => st[r] = state[r]
    BY <1>0
  <2> HIDE DEF st, wanted, front
  <2>6. QueueStands' /\ ScannedFrom(longer, locks)
    BY ONLY <2>1, <2>2, <2>4, DrainScans
  <2>7. ASSUME NEW r \in Requests PROVE ServedByScan(r)
    <3>1. CASE r = x
      BY <1>2, <1>3, <2>3, <2>6, <3>1 DEF ServedByScan
    <3>2. CASE r # x
      <4>1. state[r] # "waiting" => state'[r] = state[r]
        BY <2>1, <2>5, <3>2, DrainLeaves
      <4> QED BY <4>1 DEF ServedByScan
    <3> QED BY <3>1, <3>2
  <2> QED BY <2>6, <2>7
<1> QED BY <1>4, <1>5

LEMMA UnlockScans ==
  ASSUME LockManagerInv, QueueStands, NEW x \in Requests, Unlock(x)
  PROVE  QueueStands' /\ \A r \in Requests : ServedByScan(r)
<1>0. /\ state \in [Requests -> {"idle", "waiting", "granted"}]
      /\ paths \in [Requests -> SUBSET Paths]
  BY DEF LockManagerInv, LockManagerTypeOK
<1>1. PICK queue \in Seq(Requests) : Arranged(queue, Enqueued(state), ahead)
  BY DEF QueueStands
<1>2. Queue(state, ahead) = queue
  BY ONLY queue \in Seq(Requests), <1>1, QueueIs
<1> DEFINE st == [state EXCEPT ![x] = "idle"]
           held == [p \in Paths |-> IF locks[p] = x THEN Nobody ELSE locks[p]]
           wanted == [paths EXCEPT ![x] = {}]
<1>3. Drain(st, held, wanted, ahead) /\ state[x] = "granted"
  BY DEF Unlock
<1>4. Consistent(st, held, wanted, ahead)
  BY <1>3, FreedConsistent
<1>5. Enqueued(st) = Enqueued(state)
  BY <1>0, <1>3 DEF Enqueued
<1>6. \A r \in Requests : r # x => st[r] = state[r]
  BY <1>0
<1>7. QueueStands' /\ ScannedFrom(queue, held)
  <2> HIDE DEF st, held, wanted
  <2>1. queue \in Seq(Requests) /\ Arranged(queue, Enqueued(st), ahead)
    BY ONLY queue \in Seq(Requests), <1>1, <1>5
  <2> QED BY ONLY <1>3, <1>4, <2>1, DrainScans
<1>8. ASSUME NEW r \in Requests PROVE ServedByScan(r)
  <2>1. CASE r = x
    BY <1>2, <1>3, <1>7, <2>1 DEF ServedByScan
  <2>2. CASE r # x
    <3> HIDE DEF st, held, wanted
    <3>1. state[r] # "waiting" => state'[r] = state[r]
      BY <1>3, <1>6, <2>2, DrainLeaves
    <3> QED BY <3>1 DEF ServedByScan
  <2> QED BY <2>1, <2>2
<1> QED BY <1>7, <1>8

\* Every unlock, and every lock, serves the queue as drainQueue does, with its scan that starts
\* again from the head after each grant: for any number of requests and paths, the one pass of
\* the model is the loop of the code, and what the source says of its loop, that a grant can
\* make entries behind it grantable, never happens.
THEOREM ScanIsFaithful == LockManagerSpec => ScanIsOnePass
<1>1. LockManagerInv /\ QueueStands /\ [LockManagerNext]_lockManagerVars => QueueStands'
  <2>1. CASE UNCHANGED lockManagerVars
    BY <2>1 DEF lockManagerVars, QueueStands
  <2> QED BY <2>1, LockScans, UnlockScans DEF LockManagerNext
<1>2. LockManagerInv /\ QueueStands /\ [LockManagerNext]_lockManagerVars
        => [\A r \in Requests : ServedByScan(r)]_lockManagerVars
  BY LockScans, UnlockScans DEF LockManagerNext
<1> QED BY <1>1, <1>2, QueueStandsInit, LockManagerInvariant, PTL DEF LockManagerSpec, ScanIsOnePass


-----------------------------------------------------------------------------
(* ProjectExecutionGate *)

TaskRecord == [at : {"new", "queued", "admitted", "running", "over"}, root : Roots,
               gate : Tasks \cup {NoTask}, write : BOOLEAN]
GateRecord == [readers : Nat, writing : BOOLEAN, queue : Seq(Tasks)]

\* The readers before the first writer are well defined.
LEMMA ReadersAheadDefined ==
  ASSUME NEW queue \in Seq(Tasks), NEW tasks \in [Tasks -> TaskRecord], NEW n, n = ReadersAhead(queue, tasks)
  PROVE  /\ n \in 0..Len(queue)
         /\ \A i \in 1..n : ~tasks[queue[i]].write
         /\ n < Len(queue) => tasks[queue[n + 1]].write
<1> DEFINE W == {i \in 1..Len(queue) : tasks[queue[i]].write}
           Fits(k) == /\ \A i \in 1..k : ~tasks[queue[i]].write
                      /\ k < Len(queue) => tasks[queue[k + 1]].write
<1>1. \E k \in 0..Len(queue) : Fits(k)
  <2>1. CASE W = {}
    <3>1. Fits(Len(queue)) /\ Len(queue) \in 0..Len(queue)
      BY <2>1
    <3> QED BY <3>1
  <2>2. CASE W # {}
    <3>0. W \in SUBSET Nat
      OBVIOUS
    <3>1. PICK w \in W : \A m \in W : w <= m
      <4> HIDE DEF W
      <4> QED BY <2>2, <3>0, LeastNatural
    <3>2. w - 1 \in 0..Len(queue) /\ Fits(w - 1)
      BY <3>1
    <3> QED BY <3>2
  <2> QED BY <2>1, <2>2
<1>2. n = CHOOSE k \in 0..Len(queue) : Fits(k)
  BY DEF ReadersAhead
<1> HIDE DEF Fits
<1>3. n \in 0..Len(queue) /\ Fits(n)
  BY <1>1, <1>2
<1> QED BY <1>3 DEF Fits

\* Who is let in: readers, while no writer works, or one writer, while nobody works.
LEMMA LetInDefined ==
  ASSUME NEW g \in GateRecord, NEW tasks \in [Tasks -> TaskRecord], NEW n, n = LetIn(g, tasks)
  PROVE  /\ n \in 0..Len(g.queue)
         /\ n # 0 => ~g.writing
         /\ \/ \A i \in 1..n : ~tasks[g.queue[i]].write
            \/ n = 1 /\ tasks[g.queue[1]].write /\ g.readers = 0
<1> DEFINE k == ReadersAhead(g.queue, tasks)
<1>1. g.queue \in Seq(Tasks) /\ g.readers \in Nat /\ g.writing \in BOOLEAN
  BY DEF GateRecord
<1>2. /\ k \in 0..Len(g.queue)
      /\ \A i \in 1..k : ~tasks[g.queue[i]].write
      /\ k < Len(g.queue) => tasks[g.queue[k + 1]].write
  BY <1>1, ReadersAheadDefined
<1>3. n = IF g.writing \/ g.queue = <<>> THEN 0 ELSE IF k > 0 THEN k ELSE IF g.readers = 0 THEN 1 ELSE 0
  BY DEF LetIn
<1>4. Len(g.queue) \in Nat /\ (g.queue # <<>> => Len(g.queue) > 0)
  BY <1>1, EmptySeq
<1> HIDE DEF k
<1> QED BY <1>1, <1>2, <1>3, <1>4

Readers(g, tasks) == {t \in Tasks : tasks[t].at \in {"admitted", "running"} /\ tasks[t].gate = g /\ ~tasks[t].write}
Writers(g, tasks) == {t \in Tasks : tasks[t].at \in {"admitted", "running"} /\ tasks[t].gate = g /\ tasks[t].write}

\* A queue holds those that wait at its gate, each once.
LineSound(g, queue, tasks) ==
  /\ \A i \in DOMAIN queue : tasks[queue[i]].at = "queued" /\ tasks[queue[i]].gate = g
  /\ \A t \in Tasks : tasks[t].at = "queued" /\ tasks[t].gate = g => \E i \in DOMAIN queue : queue[i] = t
  /\ \A i, k \in DOMAIN queue : queue[i] = queue[k] => i = k

\* A gate counts its readers and knows whether somebody writes, and who writes is alone.
WorkSound(g, rec, tasks) ==
  /\ IsFiniteSet(Readers(g, tasks)) /\ Cardinality(Readers(g, tasks)) = rec.readers
  /\ rec.writing <=> Writers(g, tasks) # {}
  /\ \A t \in Writers(g, tasks) : \A u \in Writers(g, tasks) \cup Readers(g, tasks) : t = u

\* Who is there is at the gate of its root, and each root has one of its own.
MapSound(map, tasks) ==
  /\ \A t \in Tasks : tasks[t].at \in {"queued", "admitted", "running"} =>
       tasks[t].gate \in Tasks /\ map[tasks[t].root] = tasks[t].gate
  /\ \A r, s \in Roots : map[r] = map[s] /\ map[r] # NoTask => r = s
  /\ \A r \in Roots : map[r] # NoTask => tasks[map[r]].at # "new"

GateSound(line, map, tasks) ==
  /\ line \in [Tasks -> GateRecord]
  /\ map \in [Roots -> Tasks \cup {NoTask}]
  /\ tasks \in [Tasks -> TaskRecord]
  /\ MapSound(map, tasks)
  /\ \A g \in Tasks : tasks[g].at = "new" => line[g] = NoGate
  /\ \A g \in Tasks : LineSound(g, line[g].queue, tasks)
  /\ \A g \in Tasks : WorkSound(g, line[g], tasks)

\* The inductive invariant of the gates.
GatesInv == GateSound(gate, gates, task)

\* The parts of a drain, and what comes before it.
Put(line, id, now) == [line EXCEPT ![id] = now]
Coming(now, t) == [now EXCEPT !.queue = Append(@, t)]
Asking(tasks, t, root, id, w) == [tasks EXCEPT ![t] = [at |-> "queued", root |-> root, gate |-> id, write |-> w]]
Gone(tasks, t) == [tasks EXCEPT ![t] = Away("over")]
GateFor(map, root, t) == IF map[root] # NoTask THEN map[root] ELSE t
Found(map, root, id) == [map EXCEPT ![root] = id]
Disturbing(tasks, s) == {q \in Tasks : StatesIn(tasks)[q] # "idle" /\ Disturb(ScopesIn(tasks)[q], s)}
Set(f, t, v) == [f EXCEPT ![t] = v]
Without(rivals, t) == [q \in Tasks |-> IF q = t THEN {} ELSE rivals[q] \ {t}]
Scope(root, w) == [root |-> root, write |-> w]
Heads(queue, n) == {queue[i] : i \in 1..n}
LinesAfter(line, id, tasks) == [line EXCEPT ![id] = Drained(line[id], tasks)]
MapAfter(map, root, now, tasks) == IF Drained(now, tasks) = NoGate THEN [map EXCEPT ![root] = NoTask] ELSE map

\* What a drain hands over, from consistent gates to consistent gates: who is let in has
\* nobody it must wait for, and whom the others wait for stays.
LEMMA DrainKeepsGates ==
  ASSUME NEW line, NEW map, NEW tasks, GateSound(line, map, tasks),
         NEW root \in Roots, NEW id \in Tasks, map[root] = id,
         NEW n, n = LetIn(line[id], tasks),
         NEW in, in = Heads(line[id].queue, n),
         NEW line2, line2 = LinesAfter(line, id, tasks),
         NEW map2, map2 = MapAfter(map, root, line[id], tasks),
         NEW tasks2, tasks2 = Admitting(tasks, in)
  PROVE  /\ GateSound(line2, map2, tasks2)
         /\ in \subseteq {t \in Tasks : StatesIn(tasks)[t] = "waiting" /\ RivalsIn(line, tasks)[t] = {}}
         /\ StatesIn(tasks2) = [t \in Tasks |-> IF t \in in THEN "granted" ELSE StatesIn(tasks)[t]]
         /\ ScopesIn(tasks2) = ScopesIn(tasks)
         /\ RivalsIn(line2, tasks2) = RivalsIn(line, tasks)
<1> DEFINE now == line[id]
           queue == line[id].queue
           then == Drained(line[id], tasks)
<1>1. /\ line \in [Tasks -> GateRecord] /\ tasks \in [Tasks -> TaskRecord] /\ map \in [Roots -> Tasks \cup {NoTask}]
      /\ MapSound(map, tasks)
      /\ \A g \in Tasks : LineSound(g, line[g].queue, tasks) /\ WorkSound(g, line[g], tasks)
      /\ \A g \in Tasks : tasks[g].at = "new" => line[g] = NoGate
  BY DEF GateSound
<1>2. now \in GateRecord /\ queue \in Seq(Tasks) /\ now.readers \in Nat /\ now.writing \in BOOLEAN
  BY <1>1 DEF GateRecord
<1>3. DOMAIN queue = 1..Len(queue) /\ Len(queue) \in Nat /\ \A i \in 1..Len(queue) : queue[i] \in Tasks
  BY <1>2, LenProperties
<1>4. /\ n \in 0..Len(queue)
      /\ n # 0 => ~now.writing
      /\ \/ \A i \in 1..n : ~tasks[queue[i]].write
         \/ n = 1 /\ tasks[queue[1]].write /\ now.readers = 0
  <2>1. n = LetIn(now, tasks) /\ queue = now.queue
    OBVIOUS
  <2>2. now \in GateRecord /\ tasks \in [Tasks -> TaskRecord]
    BY <1>1, <1>2
  <2> HIDE DEF now, queue
  <2>3. /\ n \in 0..Len(now.queue)
        /\ n # 0 => ~now.writing
        /\ \/ \A i \in 1..n : ~tasks[now.queue[i]].write
           \/ n = 1 /\ tasks[now.queue[1]].write /\ now.readers = 0
    BY ONLY <2>1, <2>2, LetInDefined
  <2> QED BY <2>1, <2>3
<1>5. LineSound(id, queue, tasks) /\ WorkSound(id, now, tasks)
  BY <1>1
<1>i. \A t : t \in in <=> \E i \in 1..n : queue[i] = t
  BY DEF Heads
<1>6. in \subseteq Tasks /\ \A t \in in : tasks[t].at = "queued" /\ tasks[t].gate = id
  <2>1. \A i \in 1..n : i \in 1..Len(queue)
    BY ONLY <1>3, <1>4
  <2>2. \A i \in 1..Len(queue) : tasks[queue[i]].at = "queued" /\ tasks[queue[i]].gate = id
    BY ONLY <1>3, <1>5 DEF LineSound
  <2> QED BY ONLY <1>3, <1>i, <2>1, <2>2
<1>7. /\ tasks2 \in [Tasks -> TaskRecord]
      /\ \A t \in Tasks : /\ tasks2[t].at = IF t \in in THEN "admitted" ELSE tasks[t].at
                          /\ tasks2[t].gate = tasks[t].gate /\ tasks2[t].root = tasks[t].root
                          /\ tasks2[t].write <=> tasks[t].write
  <2>1. ASSUME NEW t \in Tasks
        PROVE  tasks[t] \in TaskRecord /\ [tasks[t] EXCEPT !.at = "admitted"] \in TaskRecord
    <3>1. tasks[t] \in TaskRecord
      BY <1>1
    <3> QED BY <3>1 DEF TaskRecord
  <2> QED BY <1>1, <2>1 DEF Admitting, TaskRecord
<1>8. /\ then.queue = SubSeq(queue, n + 1, Len(queue))
      /\ then.readers = IF n # 0 /\ tasks[queue[1]].write THEN now.readers ELSE now.readers + n
      /\ then.writing <=> now.writing \/ (n # 0 /\ tasks[queue[1]].write)
  BY DEF Drained
<1>9. /\ then.queue \in Seq(Tasks) /\ Len(then.queue) = Len(queue) - n
      /\ \A i \in 1..(Len(queue) - n) : then.queue[i] = queue[n + i]
  <2> HIDE DEF now, queue, then
  <2>0. n \in 0..Len(queue)
    BY <1>4
  <2>1. n + 1 \in Int /\ Len(queue) \in Int /\ \A i \in (n + 1)..Len(queue) : queue[i] \in Tasks
    BY ONLY <1>3, <2>0
  <2> DEFINE s == SubSeq(queue, n + 1, Len(queue))
  <2>2. /\ s \in Seq(Tasks)
        /\ Len(s) = IF n + 1 <= Len(queue) THEN Len(queue) - (n + 1) + 1 ELSE 0
        /\ \A i \in 1..(Len(queue) - (n + 1) + 1) : s[i] = queue[(n + 1) + i - 1]
    BY ONLY <2>1, SubSeqProperties
  <2> HIDE DEF s
  <2>3. Len(s) = Len(queue) - n /\ \A i \in 1..(Len(queue) - n) : s[i] = queue[n + i]
    <3>0. PICK l \in Nat : l = Len(queue)
      BY <1>3
    <3>1. n \in 0..l
      BY ONLY <2>0, <3>0
    <3>2. (n + 1 <= l => l - (n + 1) + 1 = l - n) /\ (~(n + 1 <= l) => l - n = 0)
      BY ONLY <3>1
    <3>3. \A i \in 1..(l - n) : i \in 1..(l - (n + 1) + 1) /\ (n + 1) + i - 1 = n + i
      BY ONLY <3>1
    <3> QED BY ONLY <2>2, <3>0, <3>2, <3>3
  <2> QED BY <1>8, <2>2, <2>3 DEF s
<1>10. then \in GateRecord
  <2> HIDE DEF now, queue
  <2>1. now.readers \in Nat /\ n \in Nat /\ n + now.readers \in Nat /\ now.readers + n \in Nat
    BY <1>2, <1>3, <1>4
  <2>2. /\ then = [queue |-> then.queue, readers |-> then.readers, writing |-> then.writing]
        /\ then.writing \in BOOLEAN
    BY <1>2 DEF Drained
  <2>3. then.queue \in Seq(Tasks) /\ then.readers \in Nat
    <3> HIDE DEF then
    <3> QED BY ONLY <1>8, <1>9, <2>1
  <2> HIDE DEF then
  <2> QED BY ONLY <2>2, <2>3 DEF GateRecord
<1>11. line2 \in [Tasks -> GateRecord] /\ line2[id] = then /\ \A g \in Tasks \ {id} : line2[g] = line[g]
  BY <1>1, <1>10 DEF LinesAfter
<1>12. map2 \in [Roots -> Tasks \cup {NoTask}]
  BY <1>1 DEF MapAfter
<1>. HIDE DEF now, queue, then
<1>13. LineSound(id, then.queue, tasks2)
  <2>0. DOMAIN then.queue = 1..(Len(queue) - n)
    BY <1>9, LenProperties
  <2>a. \A i \in 1..n : i \in 1..Len(queue)
    BY <1>3, <1>4
  <2>c. \A i, k \in 1..Len(queue) : queue[i] = queue[k] => i = k
    BY <1>3, <1>5 DEF LineSound
  <2>1. \A i \in 1..(Len(queue) - n) : n + i \in 1..Len(queue) /\ n + i \notin 1..n
    BY <1>3, <1>4
  <2>2. ASSUME NEW i \in 1..(Len(queue) - n) PROVE queue[n + i] \notin in /\ queue[n + i] \in Tasks
    <3>1. ASSUME NEW k \in 1..n PROVE queue[k] # queue[n + i]
      BY <2>a, <2>c, <2>1
    <3> QED BY <1>3, <1>i, <2>1, <3>1
  <2>3. \A i \in DOMAIN then.queue : tasks2[then.queue[i]].at = "queued" /\ tasks2[then.queue[i]].gate = id
    BY <1>3, <1>5, <1>7, <1>9, <2>0, <2>1, <2>2 DEF LineSound
  <2>4. ASSUME NEW t \in Tasks, tasks2[t].at = "queued", tasks2[t].gate = id
        PROVE  \E i \in DOMAIN then.queue : then.queue[i] = t
    <3>1. tasks[t].at = "queued" /\ tasks[t].gate = id /\ t \notin in
      BY <1>6, <1>7, <2>4
    <3>2. PICK k \in 1..Len(queue) : queue[k] = t
      BY <1>3, <1>5, <3>1 DEF LineSound
    <3>3. k \notin 1..n
      BY <1>i, <3>1, <3>2
    <3>4. k - n \in 1..(Len(queue) - n) /\ n + (k - n) = k
      BY <1>3, <1>4, <3>3
    <3> QED BY <1>9, <2>0, <3>2, <3>4
  <2>5. \A i, k \in DOMAIN then.queue : then.queue[i] = then.queue[k] => i = k
    <3>1. ASSUME NEW i \in 1..(Len(queue) - n), NEW k \in 1..(Len(queue) - n), then.queue[i] = then.queue[k]
          PROVE  i = k
      <4>1. queue[n + i] = queue[n + k]
        BY <1>9, <3>1
      <4>2. n + i = n + k
        BY <2>1, <2>c, <4>1
      <4> QED BY <1>4, <4>2
    <3> QED BY <2>0, <3>1
  <2> QED BY <2>3, <2>4, <2>5 DEF LineSound
<1>14. \A g \in Tasks \ {id} : LineSound(g, line2[g].queue, tasks2)
  <2>1. ASSUME NEW g \in Tasks \ {id} PROVE LineSound(g, line2[g].queue, tasks2)
    <3>1. line2[g] = line[g] /\ LineSound(g, line[g].queue, tasks)
      BY <1>1, <1>11
    <3>2. \A i \in DOMAIN line[g].queue : line[g].queue[i] \in Tasks
      BY <1>1, LenProperties DEF GateRecord
    <3>3. \A t \in Tasks : tasks2[t].at = "queued" /\ tasks2[t].gate = g <=> tasks[t].at = "queued" /\ tasks[t].gate = g
      BY <1>6, <1>7
    <3> QED BY ONLY <3>1, <3>2, <3>3 DEF LineSound
  <2> QED BY <2>1
<1>15. IsFiniteSet(in) /\ Cardinality(in) = n
  <2>1. \A i, k \in DOMAIN queue : queue[i] = queue[k] => i = k
    BY <1>5 DEF LineSound
  <2>2. \A x : x \in in <=> \E i \in 1..n : queue[i] = x
    BY <1>i
  <2>3. queue \in Seq(Tasks) /\ n \in 0..Len(queue)
    BY <1>2, <1>4
  <2> QED BY ONLY <2>1, <2>2, <2>3, HeadsCounted
<1>16. WorkSound(id, then, tasks2)
  <2>. USE DEF WorkSound
  <2>1. CASE \A i \in 1..n : ~tasks[queue[i]].write
    <3>1. \A t \in in : ~tasks[t].write
      BY <1>i, <2>1
    <3>2. Readers(id, tasks2) = Readers(id, tasks) \cup in
      BY <1>6, <1>7, <3>1 DEF Readers
    <3>3. Readers(id, tasks) \cap in = {}
      BY <1>6 DEF Readers
    <3>4. Writers(id, tasks2) = Writers(id, tasks)
      BY <1>6, <1>7, <3>1 DEF Writers
    <3>5. ~(n # 0 /\ tasks[queue[1]].write)
      BY <1>4, <2>1
    <3>6. then.readers = now.readers + n /\ (then.writing <=> now.writing)
      BY <1>2, <1>8, <3>5
    <3>7. Cardinality({}) = 0
      BY FS_EmptySet
    <3>8. IsFiniteSet(Readers(id, tasks2)) /\ Cardinality(Readers(id, tasks2)) = now.readers + n
      <4>1. IsFiniteSet(Readers(id, tasks)) /\ Cardinality(Readers(id, tasks)) = now.readers
        BY <1>5
      <4>2. /\ IsFiniteSet(Readers(id, tasks) \cup in)
            /\ Cardinality(Readers(id, tasks) \cup in) = now.readers + n - Cardinality(Readers(id, tasks) \cap in)
        BY <1>15, <4>1, FS_Union
      <4>3. Cardinality(Readers(id, tasks) \cap in) = 0
        BY <3>3, <3>7
      <4>4. n \in Nat /\ now.readers \in Nat
        BY <1>2, <1>3, <1>4
      <4>5. now.readers + n - 0 = now.readers + n
        BY <4>4
      <4> QED BY <3>2, <4>2, <4>3, <4>5
    <3>9. n # 0 => Writers(id, tasks) = {}
      BY <1>4, <1>5
    <3>10. n = 0 => in = {}
      BY <1>15, FS_EmptySet
    <3>11. \A t \in Writers(id, tasks2) : \A u \in Writers(id, tasks2) \cup Readers(id, tasks2) : t = u
      BY <1>5, <3>2, <3>4, <3>9, <3>10
    <3> QED BY <1>5, <3>4, <3>6, <3>8, <3>11
  <2>2. CASE n = 1 /\ tasks[queue[1]].write /\ now.readers = 0
    <3>1. in = {queue[1]} /\ queue[1] \in Tasks
      BY <1>3, <1>4, <1>i, <2>2
    <3>2. Readers(id, tasks) = {}
      BY <1>5, <2>2, FS_EmptySet
    <3>3. Writers(id, tasks) = {}
      BY <1>4, <1>5, <2>2
    <3>4. ASSUME NEW t \in Tasks PROVE t \notin Readers(id, tasks2)
      <4>1. CASE t = queue[1]
        BY <1>7, <2>2, <4>1 DEF Readers
      <4>2. CASE t # queue[1]
        <5>1. tasks2[t].at = tasks[t].at
          BY <1>7, <3>1, <4>2
        <5> QED BY <1>7, <3>2, <5>1 DEF Readers
      <4> QED BY <4>1, <4>2
    <3>5. ASSUME NEW t \in Tasks PROVE t \in Writers(id, tasks2) <=> t = queue[1]
      <4>1. CASE t = queue[1]
        <5>1. tasks2[t].at = "admitted" /\ tasks2[t].gate = id
          BY <1>6, <1>7, <3>1, <4>1
        <5> QED BY <1>7, <2>2, <4>1, <5>1 DEF Writers
      <4>2. CASE t # queue[1]
        <5>1. tasks2[t].at = tasks[t].at
          BY <1>7, <3>1, <4>2
        <5> QED BY <1>7, <3>3, <4>2, <5>1 DEF Writers
      <4> QED BY <4>1, <4>2
    <3>7. Readers(id, tasks2) = {} /\ Writers(id, tasks2) = {queue[1]}
      <4>1. Readers(id, tasks2) \subseteq Tasks /\ Writers(id, tasks2) \subseteq Tasks
        BY DEF Readers, Writers
      <4> QED BY ONLY <3>1, <3>4, <3>5, <4>1
    <3>6. then.readers = 0 /\ then.writing
      BY <1>8, <2>2
    <3> QED BY <3>6, <3>7, FS_EmptySet
  <2> QED BY <1>4, <2>1, <2>2
<1>17. \A g \in Tasks \ {id} : WorkSound(g, line2[g], tasks2)
  <2>1. ASSUME NEW g \in Tasks \ {id} PROVE WorkSound(g, line2[g], tasks2)
    <3>1. Readers(g, tasks2) = Readers(g, tasks) /\ Writers(g, tasks2) = Writers(g, tasks)
      BY <1>6, <1>7 DEF Readers, Writers
    <3>2. line2[g] = line[g] /\ WorkSound(g, line[g], tasks)
      BY <1>1, <1>11
    <3> QED BY <3>1, <3>2 DEF WorkSound
  <2> QED BY <2>1
<1>18. MapSound(map2, tasks2)
  <2>1. CASE then # NoGate
    <3>1. map2 = map
      BY <2>1 DEF then, MapAfter
    <3> QED BY <1>1, <1>6, <1>7, <3>1 DEF MapSound
  <2>2. CASE then = NoGate
    <3>1. map2 = [map EXCEPT ![root] = NoTask]
      BY <2>2 DEF then, MapAfter
    <3>2. then.queue = <<>> /\ then.readers = 0 /\ ~then.writing
      BY <2>2 DEF NoGate
    <3>3. Readers(id, tasks2) = {} /\ Writers(id, tasks2) = {}
      BY <1>16, <3>2, FS_EmptySet DEF WorkSound
    <3>4. \A t \in Tasks : tasks2[t].at \in {"queued", "admitted", "running"} => tasks2[t].gate # id
      BY <1>7, <1>13, <3>2, <3>3 DEF LineSound, Readers, Writers
    <3>5. \A t \in Tasks : tasks2[t].at \in {"queued", "admitted", "running"} => tasks2[t].root # root
      BY <1>1, <1>6, <1>7, <3>4 DEF MapSound
    <3>6. \A r \in Roots : map2[r] = IF r = root THEN NoTask ELSE map[r]
      BY <1>1, <3>1
    <3>7. \A t \in Tasks : tasks[t].root \in Roots
      BY <1>1 DEF TaskRecord
    <3>8. \A t \in Tasks : tasks2[t].at \in {"queued", "admitted", "running"} =>
            tasks2[t].gate \in Tasks /\ map2[tasks2[t].root] = tasks2[t].gate
      BY <1>1, <1>6, <1>7, <3>5, <3>6, <3>7 DEF MapSound
    <3>9. \A r, s \in Roots : map2[r] = map2[s] /\ map2[r] # NoTask => r = s
      BY <1>1, <3>6 DEF MapSound
    <3>10. \A r \in Roots : map2[r] # NoTask => tasks2[map2[r]].at # "new"
      BY <1>1, <1>7, <3>6 DEF MapSound
    <3> QED BY <3>8, <3>9, <3>10 DEF MapSound
  <2> QED BY <2>1, <2>2
<1>19. \A g \in Tasks : tasks2[g].at = "new" => line2[g] = NoGate
  <2>1. ASSUME NEW g \in Tasks, tasks2[g].at = "new" PROVE line2[g] = NoGate
    <3>1. tasks[g].at = "new"
      BY <1>7, <2>1
    <3>2. g # id
      BY GateAssumption, <1>1, <3>1 DEF MapSound, GateAssumption
    <3> QED BY <1>1, <1>11, <3>1, <3>2
  <2> QED BY <2>1
<1>20. GateSound(line2, map2, tasks2)
  BY <1>7, <1>11, <1>12, <1>13, <1>14, <1>16, <1>17, <1>18, <1>19 DEF GateSound
<1>21. StatesIn(tasks2) = [t \in Tasks |-> IF t \in in THEN "granted" ELSE StatesIn(tasks)[t]]
  BY <1>6, <1>7 DEF StatesIn
<1>22. ScopesIn(tasks2) = ScopesIn(tasks)
  <2>1. \A t \in Tasks : tasks2[t].root = tasks[t].root /\ tasks2[t].write = tasks[t].write
    <3>1. ASSUME NEW t \in Tasks PROVE tasks2[t].root = tasks[t].root /\ tasks2[t].write = tasks[t].write
      <4>1. tasks2[t].write \in BOOLEAN /\ tasks[t].write \in BOOLEAN
        BY <1>1, <1>7 DEF TaskRecord
      <4> QED BY <1>7, <4>1
    <3> QED BY <3>1
  <2> QED BY <2>1 DEF ScopesIn
<1>23. in \subseteq {t \in Tasks : StatesIn(tasks)[t] = "waiting" /\ RivalsIn(line, tasks)[t] = {}}
  <2>1. ASSUME NEW t \in in PROVE StatesIn(tasks)[t] = "waiting" /\ t \in Tasks
    BY <1>6, <2>1 DEF StatesIn
  <2>2. ASSUME NEW t \in in, NEW u \in Tasks,
               tasks[u].root = tasks[t].root, tasks[u].write \/ tasks[t].write,
               tasks[u].at \in {"admitted", "running"} \/ u \in InFrontOf(t, queue)
        PROVE  FALSE
    <3>1. PICK i \in 1..n : queue[i] = t
      BY <1>i, <2>2
    <3>2. n # 0 /\ i \in 1..Len(queue)
      BY <1>3, <1>4, <3>1
    <3>3. CASE u \in InFrontOf(t, queue)
      <4>0. PICK k \in 1..Len(queue) : queue[k] = t /\ \E j \in 1..(k - 1) : queue[j] = u
        BY <1>3, <3>3 DEF InFrontOf
      <4>1. PICK j \in 1..(k - 1) : queue[j] = u
        BY <4>0
      <4>2. k = i
        BY <1>3, <1>5, <3>1, <3>2, <4>0 DEF LineSound
      <4>3. j \in 1..n /\ j < i
        BY <1>3, <1>4, <3>1, <3>2, <4>1, <4>2
      <4>4. n # 1 \/ i = 1
        BY <3>1, <1>4
      <4>5. \A m \in 1..n : ~tasks[queue[m]].write
        BY <1>3, <1>4, <4>3, <3>1
      <4> QED BY <2>2, <3>1, <4>1, <4>3, <4>5
    <3>4. CASE tasks[u].at \in {"admitted", "running"}
      <4>1. tasks[t].gate = id /\ tasks[u].gate = id
        BY <1>1, <1>6, <2>1, <2>2, <3>4 DEF MapSound
      <4>2. CASE tasks[u].write
        <5>1. u \in Writers(id, tasks)
          BY <3>4, <4>1, <4>2 DEF Writers
        <5>2. Writers(id, tasks) = {}
          BY <1>4, <1>5, <3>2 DEF WorkSound
        <5> QED BY <5>1, <5>2
      <4>3. CASE ~tasks[u].write
        <5>1. u \in Readers(id, tasks)
          BY <3>4, <4>1, <4>3 DEF Readers
        <5>2. tasks[queue[i]].write
          BY <2>2, <3>1, <4>3
        <5>3. now.readers = 0
          BY <1>4, <3>1, <5>2
        <5>4. Readers(id, tasks) = {}
          BY <1>5, <5>3, FS_EmptySet DEF WorkSound
        <5> QED BY <5>1, <5>4
      <4> QED BY <4>2, <4>3
    <3> QED BY <2>2, <3>3, <3>4
  <2>3. ASSUME NEW t \in in PROVE RivalsIn(line, tasks)[t] = {}
    <3>1. t \in Tasks /\ line[tasks[t].gate].queue = queue
      BY <1>6, <2>3 DEF queue
    <3>2. \A u \in Tasks : Disturb(ScopesIn(tasks)[u], ScopesIn(tasks)[t]) =>
            tasks[u].root = tasks[t].root /\ (tasks[u].write \/ tasks[t].write)
      BY <3>1 DEF Disturb, ScopesIn
    <3>3. \A u \in Tasks : StatesIn(tasks)[u] = "granted" => tasks[u].at \in {"admitted", "running"}
      BY <1>1 DEF StatesIn, TaskRecord
    <3>4. \A u \in Tasks : ~(/\ Disturb(ScopesIn(tasks)[u], ScopesIn(tasks)[t])
                             /\ StatesIn(tasks)[u] = "granted" \/ u \in InFrontOf(t, queue))
      BY <2>2, <2>3, <3>2, <3>3
    <3> QED BY <3>1, <3>4 DEF RivalsIn
  <2> QED BY <2>1, <2>3
<1>24. ASSUME NEW t \in Tasks, StatesIn(tasks)[t] = "waiting", t \notin in, NEW u \in Tasks,
              tasks[u].root = tasks[t].root
       PROVE  StatesIn(tasks2)[u] = "granted" \/ u \in InFrontOf(t, line2[tasks[t].gate].queue) <=>
              StatesIn(tasks)[u] = "granted" \/ u \in InFrontOf(t, line[tasks[t].gate].queue)
  <2>1. tasks[t].at = "queued" /\ tasks[t].gate \in Tasks /\ map[tasks[t].root] = tasks[t].gate
    BY <1>1, <1>24 DEF StatesIn, MapSound, TaskRecord
  <2>2. CASE tasks[t].gate # id
    <3>1. u \notin in
      BY <1>1, <1>6, <1>24, <2>1, <2>2 DEF MapSound
    <3>2. StatesIn(tasks2)[u] = StatesIn(tasks)[u]
      BY <1>21, <3>1
    <3>3. line2[tasks[t].gate] = line[tasks[t].gate]
      BY <1>11, <2>1, <2>2
    <3> QED BY <3>2, <3>3
  <2>3. CASE tasks[t].gate = id
    <3>1. line2[tasks[t].gate].queue = then.queue /\ line[tasks[t].gate].queue = queue
      BY <1>11, <2>3 DEF queue
    <3>2. DOMAIN then.queue = 1..(Len(queue) - n)
      BY <1>9, LenProperties
    <3>3. PICK k \in 1..Len(queue) : queue[k] = t
      BY <1>3, <1>5, <2>1, <2>3 DEF LineSound
    <3>4. k > n
      BY <1>3, <1>4, <1>i, <1>24, <3>3
    <3>5. \A i \in 1..Len(queue) : queue[i] = t => i = k
      BY <1>3, <1>5, <3>3 DEF LineSound
    <3>6. u \in InFrontOf(t, queue) <=> \E i \in 1..(k - 1) : queue[i] = u
      BY <1>3, <3>3, <3>5 DEF InFrontOf
    <3>7. u \in InFrontOf(t, then.queue) <=> \E j \in 1..(k - n - 1) : then.queue[j] = u
      <4>1. k - n \in 1..(Len(queue) - n) /\ then.queue[k - n] = t
        <5>1. k - n \in 1..(Len(queue) - n) /\ n + (k - n) = k
          BY <1>3, <1>4, <3>4
        <5> QED BY <1>9, <3>3, <5>1
      <4>2. \A i \in 1..(Len(queue) - n) : then.queue[i] = t => i = k - n
        BY <1>13, <3>2, <4>1 DEF LineSound
      <4> QED BY <3>2, <4>1, <4>2 DEF InFrontOf
    <3>8. CASE u \in in
      <4>1. PICK i \in 1..n : queue[i] = u
        BY <1>i, <3>8
      <4>2. i \in 1..(k - 1)
        BY <1>3, <1>4, <3>4, <4>1
      <4>3. u \in InFrontOf(t, queue)
        BY <3>6, <4>1, <4>2
      <4>4. StatesIn(tasks2)[u] = "granted"
        BY <1>21, <3>8
      <4> QED BY <3>1, <4>3, <4>4
    <3>9. CASE u \notin in
      <4>1. StatesIn(tasks2)[u] = StatesIn(tasks)[u]
        BY <1>21, <3>9
      <4>2. ASSUME NEW i \in 1..(k - 1), queue[i] = u PROVE \E j \in 1..(k - n - 1) : then.queue[j] = u
        <5>1. i \notin 1..n
          BY <1>i, <3>9, <4>2
        <5>2. i - n \in 1..(k - n - 1) /\ i - n \in 1..(Len(queue) - n) /\ n + (i - n) = i
          BY <1>3, <1>4, <5>1
        <5> QED BY <1>9, <4>2, <5>2
      <4>3. ASSUME NEW j \in 1..(k - n - 1), then.queue[j] = u PROVE \E i \in 1..(k - 1) : queue[i] = u
        <5>1. n + j \in 1..(k - 1) /\ j \in 1..(Len(queue) - n)
          BY <1>3, <1>4, <3>4
        <5> QED BY <1>9, <4>3, <5>1
      <4>4. u \in InFrontOf(t, queue) <=> u \in InFrontOf(t, then.queue)
        BY <3>6, <3>7, <4>2, <4>3
      <4> QED BY <3>1, <4>1, <4>4
    <3> QED BY <3>8, <3>9
  <2> QED BY <2>2, <2>3
<1>25. RivalsIn(line2, tasks2) = RivalsIn(line, tasks)
  <2>1. ASSUME NEW t \in Tasks PROVE RivalsIn(line2, tasks2)[t] = RivalsIn(line, tasks)[t]
    <3>1. CASE t \in in
      <4>1. StatesIn(tasks2)[t] = "granted"
        BY <1>21, <3>1
      <4> QED BY <1>23, <3>1, <4>1 DEF RivalsIn
    <3>2. CASE t \notin in /\ StatesIn(tasks)[t] # "waiting"
      <4>1. StatesIn(tasks2)[t] # "waiting"
        BY <1>21, <3>2
      <4> QED BY <3>2, <4>1 DEF RivalsIn
    <3>3. CASE t \notin in /\ StatesIn(tasks)[t] = "waiting"
      <4>1. StatesIn(tasks2)[t] = "waiting" /\ tasks2[t].gate = tasks[t].gate
        BY <1>7, <1>21, <3>3
      <4>2. \A u \in Tasks : Disturb(ScopesIn(tasks)[u], ScopesIn(tasks)[t]) => tasks[u].root = tasks[t].root
        BY DEF Disturb, ScopesIn
      <4>3. \A u \in Tasks :
              /\ Disturb(ScopesIn(tasks2)[u], ScopesIn(tasks2)[t])
              /\ StatesIn(tasks2)[u] = "granted" \/ u \in InFrontOf(t, line2[tasks2[t].gate].queue)
              <=>
              /\ Disturb(ScopesIn(tasks)[u], ScopesIn(tasks)[t])
              /\ StatesIn(tasks)[u] = "granted" \/ u \in InFrontOf(t, line[tasks[t].gate].queue)
        BY <1>22, <1>24, <3>3, <4>1, <4>2
      <4>4. RivalsIn(line2, tasks2)[t] =
              {u \in Tasks : /\ Disturb(ScopesIn(tasks2)[u], ScopesIn(tasks2)[t])
                             /\ StatesIn(tasks2)[u] = "granted" \/ u \in InFrontOf(t, line2[tasks2[t].gate].queue)}
        BY <4>1 DEF RivalsIn
      <4>5. RivalsIn(line, tasks)[t] =
              {u \in Tasks : /\ Disturb(ScopesIn(tasks)[u], ScopesIn(tasks)[t])
                             /\ StatesIn(tasks)[u] = "granted" \/ u \in InFrontOf(t, line[tasks[t].gate].queue)}
        BY <3>3 DEF RivalsIn
      <4> QED BY <4>3, <4>4, <4>5
    <3> QED BY <3>1, <3>2, <3>3
  <2> QED BY <2>1 DEF RivalsIn
<1> QED BY <1>20, <1>21, <1>22, <1>23, <1>25

\* A drain of the gate id, as the actions call it.
LEMMA DrainStep ==
  ASSUME gate \in [Tasks -> GateRecord], NEW now, NEW map, NEW tasks, NEW root \in Roots, NEW id \in Tasks,
         NEW line, line = Put(gate, id, now),
         GateSound(line, map, tasks), map[root] = id, DrainGate(root, id, now, map, tasks)
  PROVE  GatesInv' /\ GateQueue!Admit(StatesIn(tasks), ScopesIn(tasks), RivalsIn(line, tasks))
<1> DEFINE n == LetIn(line[id], tasks)
           in == Heads(line[id].queue, n)
           line2 == LinesAfter(line, id, tasks)
           map2 == MapAfter(map, root, line[id], tasks)
           tasks2 == Admitting(tasks, in)
<1>1. line[id] = now /\ line = [gate EXCEPT ![id] = now]
  BY DEF Put
<1>2. gate' = line2 /\ gates' = map2 /\ task' = tasks2
  <2>1. line2 = [gate EXCEPT ![id] = Drained(now, tasks)]
    BY <1>1 DEF LinesAfter
  <2>2. gates' = map2
    BY <1>1 DEF DrainGate, MapAfter
  <2>3. task' = tasks2
    BY <1>1 DEF DrainGate, Heads
  <2> QED BY <2>1, <2>2, <2>3 DEF DrainGate
<1>3. /\ GateSound(line, map, tasks) /\ n = LetIn(line[id], tasks) /\ in = Heads(line[id].queue, n)
      /\ line2 = LinesAfter(line, id, tasks) /\ map2 = MapAfter(map, root, line[id], tasks)
      /\ tasks2 = Admitting(tasks, in)
  OBVIOUS
<1> HIDE DEF in, n, line2, map2, tasks2
<1>4. /\ GateSound(line2, map2, tasks2)
      /\ in \subseteq {t \in Tasks : StatesIn(tasks)[t] = "waiting" /\ RivalsIn(line, tasks)[t] = {}}
      /\ StatesIn(tasks2) = [t \in Tasks |-> IF t \in in THEN "granted" ELSE StatesIn(tasks)[t]]
      /\ ScopesIn(tasks2) = ScopesIn(tasks)
      /\ RivalsIn(line2, tasks2) = RivalsIn(line, tasks)
  BY <1>3, DrainKeepsGates
<1>5. /\ GateSound(gate', gates', task')
      /\ StatesIn(task') = [t \in Tasks |-> IF t \in in THEN "granted" ELSE StatesIn(tasks)[t]]
      /\ ScopesIn(task') = ScopesIn(tasks)
      /\ RivalsIn(gate', task') = RivalsIn(line, tasks)
  BY <1>2, <1>4
<1>6. in \in SUBSET {t \in Tasks : StatesIn(tasks)[t] = "waiting" /\ RivalsIn(line, tasks)[t] = {}}
  BY <1>4
<1> QED BY <1>5, <1>6 DEF GatesInv, GateQueue!Admit, GateState, GateScope, GateRivals

\* Nobody stands twice in a queue.
Once(queue) == \A i, k \in DOMAIN queue : queue[i] = queue[k] => i = k
Standing(queue) == {q \in Tasks : \E i \in DOMAIN queue : queue[i] = q}

\* One more at the end of a queue has all the others in front of it.
LEMMA QueueWith ==
  ASSUME NEW queue \in Seq(Tasks), Once(queue), NEW t \in Tasks, t \notin Standing(queue),
         NEW longer, longer = Append(queue, t)
  PROVE  /\ longer \in Seq(Tasks) /\ Once(longer) /\ (\A q \in Tasks : q \in Standing(longer) <=> q \in Standing(queue) \/ q = t)
         /\ InFrontOf(t, longer) = Standing(queue)
         /\ \A u, v \in Tasks : u # t => (v \in InFrontOf(u, longer) <=> v \in InFrontOf(u, queue))
<1>1. /\ Len(queue) \in Nat /\ DOMAIN queue = 1..Len(queue) /\ \A i \in 1..Len(queue) : queue[i] \in Tasks /\ queue[i] # t
      /\ longer \in Seq(Tasks) /\ Len(longer) = Len(queue) + 1 /\ DOMAIN longer = 1..(Len(queue) + 1)
      /\ longer[Len(queue) + 1] = t /\ \A i \in 1..Len(queue) : longer[i] = queue[i]
  <2>1. Len(queue) \in Nat /\ DOMAIN queue = 1..Len(queue) /\ \A i \in 1..Len(queue) : queue[i] \in Tasks
    BY LenProperties
  <2>2. longer \in Seq(Tasks) /\ Len(longer) = Len(queue) + 1 /\ longer[Len(queue) + 1] = t
        /\ \A i \in 1..Len(queue) : longer[i] = queue[i]
    BY <2>1, AppendProperties
  <2>3. DOMAIN longer = 1..(Len(queue) + 1)
    BY <2>2, LenProperties
  <2> QED BY <2>1, <2>2, <2>3 DEF Standing
<1>2. Once(longer)
  <2>1. ASSUME NEW i \in 1..(Len(queue) + 1), NEW k \in 1..(Len(queue) + 1), longer[i] = longer[k] PROVE i = k
    <3>1. CASE i \in 1..Len(queue) /\ k \in 1..Len(queue)
      BY <1>1, <2>1, <3>1 DEF Once
    <3>2. CASE i = Len(queue) + 1 \/ k = Len(queue) + 1
      BY <1>1, <2>1, <3>2
    <3> QED BY <1>1, <3>1, <3>2
  <2> QED BY <1>1, <2>1 DEF Once
<1>3. \A q \in Tasks : q \in Standing(longer) <=> q \in Standing(queue) \/ q = t
  <2>1. ASSUME NEW u \in Tasks PROVE (\E i \in 1..(Len(queue) + 1) : longer[i] = u) <=> u = t \/ \E i \in 1..Len(queue) : queue[i] = u
    BY <1>1
  <2> QED BY <1>1, <2>1 DEF Standing
<1>4. \A u \in Tasks : u \in InFrontOf(t, longer) <=> \E i \in 1..Len(queue) : queue[i] = u
  <2>1. \A k \in 1..(Len(queue) + 1) : longer[k] = t <=> k = Len(queue) + 1
    BY <1>1
  <2>2. \A u \in Tasks : u \in InFrontOf(t, longer) <=> \E i \in 1..(Len(queue) + 1 - 1) : longer[i] = u
    BY <1>1, <2>1 DEF InFrontOf
  <2> QED BY <1>1, <2>2
<1>5. ASSUME NEW u \in Tasks, u # t, NEW v \in Tasks
      PROVE  v \in InFrontOf(u, longer) <=> v \in InFrontOf(u, queue)
  <2>1. \A k \in 1..(Len(queue) + 1) : longer[k] = u <=> k \in 1..Len(queue) /\ queue[k] = u
    BY <1>1, <1>5
  <2>2. \A k \in 1..Len(queue) : (\E i \in 1..(k - 1) : longer[i] = v) <=> \E i \in 1..(k - 1) : queue[i] = v
    BY <1>1
  <2> QED BY <1>1, <2>1, <2>2 DEF InFrontOf
<1>6. InFrontOf(t, longer) = Standing(queue)
  <2>1. \A u \in Tasks : u \in Standing(queue) <=> \E i \in 1..Len(queue) : queue[i] = u
    BY <1>1 DEF Standing
  <2>2. InFrontOf(t, longer) \subseteq Tasks /\ Standing(queue) \subseteq Tasks
    BY DEF Standing, InFrontOf
  <2> QED BY <1>4, <2>1, <2>2
<1>7. \A u, v \in Tasks : u # t => (v \in InFrontOf(u, longer) <=> v \in InFrontOf(u, queue))
  BY <1>5
<1>8. longer \in Seq(Tasks)
  BY <1>1
<1> QED BY <1>2, <1>3, <1>6, <1>7, <1>8

\* One less in a queue leaves the others in their order.
LEMMA QueueWithout ==
  ASSUME NEW queue \in Seq(Tasks), Once(queue), NEW t \in Standing(queue),
         NEW shorter, shorter = RemoveAt(queue, PlaceOf(t, queue))
  PROVE  /\ shorter \in Seq(Tasks) /\ Once(shorter) /\ (\A q \in Tasks : q \in Standing(shorter) <=> q \in Standing(queue) /\ q # t)
         /\ \A u, v \in Tasks : u # t => (v \in InFrontOf(u, shorter) <=> v # t /\ v \in InFrontOf(u, queue))
<1> DEFINE p == PlaceOf(t, queue)
           n == Len(queue)
           from(i) == IF i < p THEN i ELSE i + 1
<1>1. n \in Nat /\ DOMAIN queue = 1..n /\ p \in 1..n /\ queue[p] = t /\ t \in Tasks
      /\ \A i \in 1..n : queue[i] \in Tasks /\ (queue[i] = t => i = p)
  <2>1. n \in Nat /\ DOMAIN queue = 1..n /\ \A i \in 1..n : queue[i] \in Tasks
    BY LenProperties
  <2>2. PICK i \in DOMAIN queue : queue[i] = t
    BY DEF Standing
  <2>3. p \in DOMAIN queue /\ queue[p] = t
    BY <2>2 DEF PlaceOf
  <2> QED BY <2>1, <2>3 DEF Once, Standing
<1> HIDE DEF p
<1>2. /\ shorter \in Seq(Tasks) /\ DOMAIN shorter = 1..(n - 1)
      /\ \A i \in 1..(n - 1) : shorter[i] = queue[from(i)] /\ from(i) \in 1..n /\ from(i) # p
  <2>1. shorter = RemoveAt(queue, p)
    BY DEF p
  <2>2. shorter \in Seq(Tasks) /\ Len(shorter) = n - 1 /\ \A i \in 1..(n - 1) : shorter[i] = IF i < p THEN queue[i] ELSE queue[i + 1]
    <3>1. p \in 1..Len(queue)
      BY <1>1
    <3>2. /\ RemoveAt(queue, p) \in Seq(Tasks) /\ Len(RemoveAt(queue, p)) = Len(queue) - 1
          /\ \A i \in 1..(Len(queue) - 1) : RemoveAt(queue, p)[i] = IF i < p THEN queue[i] ELSE queue[i + 1]
      BY <3>1, WithoutPlace
    <3> QED BY <2>1, <3>2
  <2>3. DOMAIN shorter = 1..(n - 1)
    BY <2>2, LenProperties
  <2> QED BY <1>1, <2>2, <2>3
<1>3. \A j \in 1..n : j # p => \E i \in 1..(n - 1) : from(i) = j
  <2>1. ASSUME NEW j \in 1..n, j # p PROVE \E i \in 1..(n - 1) : from(i) = j
    <3>1. CASE j < p
      <4>1. j \in 1..(n - 1) /\ from(j) = j
        BY <1>1, <3>1
      <4> QED BY <4>1
    <3>2. CASE j > p
      <4>1. j - 1 \in 1..(n - 1) /\ from(j - 1) = j
        BY <1>1, <3>2
      <4> QED BY <4>1
    <3> QED BY <1>1, <2>1, <3>1, <3>2
  <2> QED BY <2>1
<1>4. \A i, k \in 1..(n - 1) : (from(i) = from(k) <=> i = k) /\ (from(i) < from(k) <=> i < k)
  BY <1>1
<1> HIDE DEF from
<1>5. Once(shorter)
  <2>1. ASSUME NEW i \in 1..(n - 1), NEW k \in 1..(n - 1), shorter[i] = shorter[k] PROVE i = k
    <3>1. queue[from(i)] = queue[from(k)] /\ from(i) \in DOMAIN queue /\ from(k) \in DOMAIN queue
      BY <1>1, <1>2, <2>1
    <3>2. from(i) = from(k)
      BY <3>1 DEF Once
    <3> QED BY <1>4, <3>2
  <2> QED BY <1>2, <2>1 DEF Once
<1>6. \A q \in Tasks : q \in Standing(shorter) <=> q \in Standing(queue) /\ q # t
  <2>1. ASSUME NEW u \in Tasks PROVE (\E i \in 1..(n - 1) : shorter[i] = u) <=> u # t /\ \E j \in 1..n : queue[j] = u
    <3>1. ASSUME NEW i \in 1..(n - 1), shorter[i] = u PROVE u # t /\ \E j \in 1..n : queue[j] = u
      BY <1>1, <1>2, <3>1
    <3>2. ASSUME u # t, NEW j \in 1..n, queue[j] = u PROVE \E i \in 1..(n - 1) : shorter[i] = u
      <4>1. j # p
        BY <1>1, <3>2
      <4>2. PICK i \in 1..(n - 1) : from(i) = j
        BY <1>3, <4>1
      <4>3. shorter[i] = queue[from(i)]
        BY <1>2
      <4>4. shorter[i] = u
        BY <3>2, <4>2, <4>3
      <4> QED BY <4>4
    <3> QED BY <3>1, <3>2
  <2>2. \A u \in Tasks : u \in Standing(shorter) <=> \E i \in 1..(n - 1) : shorter[i] = u
    BY <1>2 DEF Standing
  <2>3. \A u \in Tasks : u \in Standing(queue) <=> \E j \in 1..n : queue[j] = u
    BY <1>1 DEF Standing
  <2>4. Standing(shorter) \subseteq Tasks /\ Standing(queue) \subseteq Tasks
    BY DEF Standing
  <2> QED BY <2>1, <2>2, <2>3, <2>4
<1>7. ASSUME NEW u \in Tasks, u # t, NEW v \in Tasks
      PROVE  v \in InFrontOf(u, shorter) <=> v # t /\ v \in InFrontOf(u, queue)
  <2>1. ASSUME v \in InFrontOf(u, shorter) PROVE v # t /\ v \in InFrontOf(u, queue)
    <3>1. PICK k \in 1..(n - 1) : shorter[k] = u /\ \E i \in 1..(k - 1) : shorter[i] = v
      BY <1>2, <2>1 DEF InFrontOf
    <3>2. PICK i \in 1..(k - 1) : shorter[i] = v
      BY <3>1
    <3>3. i \in 1..(n - 1) /\ i < k
      BY <1>1, <3>2
    <3> DEFINE j == from(i)
               m == from(k)
    <3>4. j < m /\ queue[j] = v /\ queue[m] = u /\ j \in 1..n /\ m \in 1..n /\ j # p
      BY <1>2, <1>4, <3>1, <3>2, <3>3
    <3> HIDE DEF j, m
    <3>5. v # t
      BY <1>1, <3>4
    <3>6. j \in 1..(m - 1)
      BY <1>1, <3>4
    <3> QED BY <1>1, <3>4, <3>5, <3>6 DEF InFrontOf
  <2>2. ASSUME v # t, v \in InFrontOf(u, queue) PROVE v \in InFrontOf(u, shorter)
    <3>1. PICK m \in 1..n : queue[m] = u /\ \E j \in 1..(m - 1) : queue[j] = v
      BY <1>1, <2>2 DEF InFrontOf
    <3>2. PICK j \in 1..(m - 1) : queue[j] = v
      BY <3>1
    <3>3. j \in 1..n /\ j < m /\ j # p /\ m # p
      BY <1>1, <1>7, <2>2, <3>1, <3>2
    <3>4. PICK i \in 1..(n - 1) : from(i) = j
      BY <1>3, <3>3
    <3>5. PICK k \in 1..(n - 1) : from(k) = m
      BY <1>3, <3>3
    <3>6. i < k
      BY <1>4, <3>3, <3>4, <3>5
    <3>7. shorter[i] = v /\ shorter[k] = u
      <4>1. shorter[i] = queue[from(i)] /\ shorter[k] = queue[from(k)]
        BY <1>2
      <4> QED BY <3>1, <3>2, <3>4, <3>5, <4>1
    <3>8. i \in 1..(k - 1)
      BY <1>1, <3>6
    <3> QED BY <1>2, <3>7, <3>8 DEF InFrontOf
  <2> QED BY <2>1, <2>2
<1> QED BY <1>2, <1>5, <1>6, <1>7 DEF InFrontOf

Lined(g, tasks) == {q \in Tasks : tasks[q].at = "queued" /\ tasks[q].gate = g}

\* A sound queue has in it whoever waits at its gate.
LEMMA LineStands ==
  ASSUME NEW queue \in Seq(Tasks), NEW g, NEW tasks
  PROVE  LineSound(g, queue, tasks) <=>
           Once(queue) /\ Standing(queue) = Lined(g, tasks)
<1>1. DOMAIN queue = 1..Len(queue) /\ \A i \in 1..Len(queue) : queue[i] \in Tasks
  BY LenProperties
<1>2. \A q \in Tasks : q \in Standing(queue) <=> \E i \in DOMAIN queue : queue[i] = q
  BY DEF Standing
<1>3. \A q \in Tasks : q \in Lined(g, tasks) <=> tasks[q].at = "queued" /\ tasks[q].gate = g
  BY DEF Lined
<1>4. Standing(queue) \subseteq Tasks /\ Lined(g, tasks) \subseteq Tasks
  BY DEF Standing, Lined
<1>5. \A i \in DOMAIN queue : queue[i] \in Standing(queue)
  BY <1>1 DEF Standing
<1>6. ASSUME LineSound(g, queue, tasks) PROVE Once(queue) /\ Standing(queue) = Lined(g, tasks)
  <2>1. \A q \in Tasks : q \in Standing(queue) <=> q \in Lined(g, tasks)
    BY <1>1, <1>2, <1>3, <1>6 DEF LineSound
  <2> QED BY <1>4, <1>6, <2>1 DEF LineSound, Once
<1>7. ASSUME Once(queue), Standing(queue) = Lined(g, tasks) PROVE LineSound(g, queue, tasks)
  BY <1>1, <1>2, <1>3, <1>5, <1>7 DEF LineSound, Once
<1> QED BY <1>6, <1>7

\* Who comes to the gate of its root is last in its queue, and waits for those that are
\* there already and that it would disturb.
LEMMA ComesToGate ==
  ASSUME NEW line, NEW map, NEW tasks, GateSound(line, map, tasks),
         NEW t \in Tasks, tasks[t].at = "new", NEW root \in Roots, NEW w \in BOOLEAN,
         NEW id, id = GateFor(map, root, t),
         NEW line1, line1 = Put(line, id, Coming(line[id], t)),
         NEW map1, map1 = Found(map, root, id),
         NEW tasks1, tasks1 = Asking(tasks, t, root, id, w)
  PROVE  /\ id \in Tasks /\ GateSound(line1, map1, tasks1) /\ map1[root] = id
         /\ StatesIn(tasks)[t] = "idle"
         /\ StatesIn(tasks1) = Set(StatesIn(tasks), t, "waiting")
         /\ ScopesIn(tasks1) = Set(ScopesIn(tasks), t, Scope(root, w))
         /\ RivalsIn(line1, tasks1) = Set(RivalsIn(line, tasks), t, Disturbing(tasks, Scope(root, w)))
<1>. USE GateAssumption
<1>. USE DEF GateFor, Put, Coming, Found, Asking, Set, Disturbing, Scope
<1> DEFINE longer == Append(line[id].queue, t)
<1>1. /\ line \in [Tasks -> GateRecord] /\ tasks \in [Tasks -> TaskRecord] /\ map \in [Roots -> Tasks \cup {NoTask}]
      /\ MapSound(map, tasks)
      /\ \A g \in Tasks : LineSound(g, line[g].queue, tasks) /\ WorkSound(g, line[g], tasks)
      /\ \A g \in Tasks : tasks[g].at = "new" => line[g] = NoGate
  BY DEF GateSound
<1>2. /\ id \in Tasks /\ map1[root] = id /\ map1 \in [Roots -> Tasks \cup {NoTask}]
      /\ \A r \in Roots \ {root} : map1[r] = map[r] /\ map[r] # id
      /\ tasks[id].at # "new" \/ id = t
      /\ map[root] # NoTask => id = map[root]
  <2>1. CASE map[root] # NoTask
    BY <1>1, <2>1 DEF MapSound
  <2>2. CASE map[root] = NoTask
    BY <1>1, <2>2 DEF MapSound
  <2> QED BY <2>1, <2>2
<1>3. \A g \in Tasks : line[g].queue \in Seq(Tasks)
  BY <1>1 DEF GateRecord
<1>4. /\ tasks1 \in [Tasks -> TaskRecord]
      /\ tasks1[t].at = "queued" /\ tasks1[t].root = root /\ tasks1[t].gate = id /\ tasks1[t].write = w
      /\ \A u \in Tasks \ {t} : tasks1[u] = tasks[u]
  BY <1>1, <1>2 DEF TaskRecord
<1>5. \A g \in Tasks : t \notin Standing(line[g].queue)
  BY <1>1, <1>3, LineStands DEF Lined
<1>6. /\ longer \in Seq(Tasks) /\ Once(longer)
      /\ \A q \in Tasks : q \in Standing(longer) <=> q \in Standing(line[id].queue) \/ q = t
      /\ InFrontOf(t, longer) = Standing(line[id].queue)
      /\ \A u \in Tasks : u # t => InFrontOf(u, longer) = InFrontOf(u, line[id].queue)
  <2>1. line[id].queue \in Seq(Tasks) /\ Once(line[id].queue)
    BY <1>1, <1>2, <1>3 DEF LineSound, Once
  <2> DEFINE queue == line[id].queue
  <2>2. queue \in Seq(Tasks) /\ Once(queue) /\ t \notin Standing(queue)
    BY <1>2, <1>5, <2>1
  <2>3. longer = Append(queue, t)
    OBVIOUS
  <2> HIDE DEF queue, longer
  <2>4. /\ longer \in Seq(Tasks) /\ Once(longer)
        /\ \A q \in Tasks : q \in Standing(longer) <=> q \in Standing(queue) \/ q = t
        /\ InFrontOf(t, longer) = Standing(queue)
        /\ \A u \in Tasks : u # t => InFrontOf(u, longer) = InFrontOf(u, queue)
    <3>1. longer \in Seq(Tasks) /\ Once(longer) /\ \A q \in Tasks : q \in Standing(longer) <=> q \in Standing(queue) \/ q = t
      BY <2>2, <2>3, QueueWith
    <3>2. InFrontOf(t, longer) = Standing(queue)
      BY <2>2, <2>3, QueueWith
    <3>3. \A u, v \in Tasks : u # t => (v \in InFrontOf(u, longer) <=> v \in InFrontOf(u, queue))
      BY <2>2, <2>3, QueueWith
    <3>4. \A u \in Tasks : InFrontOf(u, longer) \subseteq Tasks /\ InFrontOf(u, queue) \subseteq Tasks
      BY DEF InFrontOf
    <3>5. \A u \in Tasks : u # t => InFrontOf(u, longer) = InFrontOf(u, queue)
      BY <3>3, <3>4
    <3> QED BY <3>1, <3>2, <3>5
  <2> QED BY <2>4 DEF queue
<1>7. /\ line1 \in [Tasks -> GateRecord] /\ line1[id].queue = longer
      /\ line1[id].readers = line[id].readers /\ line1[id].writing = line[id].writing
      /\ \A g \in Tasks \ {id} : line1[g] = line[g]
  <2>1. line[id] \in GateRecord /\ line1 = [line EXCEPT ![id] = [line[id] EXCEPT !.queue = longer]]
    <3>1. line[id] \in GateRecord
      BY <1>1, <1>2
    <3> QED BY <3>1
  <2> HIDE DEF longer
  <2> DEFINE now == [line[id] EXCEPT !.queue = longer]
  <2>3. now \in GateRecord /\ now.queue = longer /\ now.readers = line[id].readers /\ now.writing = line[id].writing
    BY <1>6, <2>1 DEF GateRecord
  <2>4. line1 = [line EXCEPT ![id] = now]
    BY <2>1
  <2> HIDE DEF now
  <2>5. line1 \in [Tasks -> GateRecord] /\ line1[id] = now /\ \A g \in Tasks \ {id} : line1[g] = line[g]
    BY <1>1, <1>2, <2>3, <2>4
  <2> QED BY <2>3, <2>5
<1> HIDE DEF longer
<1>8. MapSound(map1, tasks1)
  <2>1. ASSUME NEW u \in Tasks, tasks1[u].at \in {"queued", "admitted", "running"}
        PROVE  tasks1[u].gate \in Tasks /\ map1[tasks1[u].root] = tasks1[u].gate
    <3>1. CASE u = t
      BY <1>2, <1>4, <3>1
    <3>2. CASE u # t
      <4>1. /\ tasks1[u] = tasks[u] /\ tasks[u].root \in Roots
            /\ tasks[u].gate \in Tasks /\ map[tasks[u].root] = tasks[u].gate
        BY <1>1, <1>4, <2>1, <3>2 DEF MapSound, TaskRecord
      <4>2. map1[tasks[u].root] = map[tasks[u].root]
        BY <1>2, <4>1
      <4> QED BY <4>1, <4>2
    <3> QED BY <3>1, <3>2
  <2>2. ASSUME NEW r \in Roots, NEW s \in Roots, map1[r] = map1[s], map1[r] # NoTask PROVE r = s
    <3>1. CASE r # root /\ s # root
      BY <1>1, <1>2, <2>2, <3>1 DEF MapSound
    <3>2. CASE r = root \/ s = root
      BY <1>2, <2>2, <3>2
    <3> QED BY <3>1, <3>2
  <2>3. ASSUME NEW r \in Roots, map1[r] # NoTask PROVE tasks1[map1[r]].at # "new"
    <3>1. CASE r = root
      BY <1>2, <1>4, <3>1
    <3>2. CASE r # root
      <4>1. map1[r] = map[r] /\ map[r] \in Tasks /\ tasks[map[r]].at # "new"
        BY <1>1, <1>2, <2>3, <3>2 DEF MapSound
      <4> QED BY <1>4, <4>1
    <3> QED BY <3>1, <3>2
  <2> QED BY <2>1, <2>2, <2>3 DEF MapSound
<1>9. ASSUME NEW g \in Tasks PROVE LineSound(g, line1[g].queue, tasks1)
  <2>1. \A q \in Tasks : q \in Standing(line[g].queue) <=> tasks[q].at = "queued" /\ tasks[q].gate = g
    BY <1>1, <1>3, LineStands DEF Lined
  <2>2. Once(line1[g].queue) /\ line1[g].queue \in Seq(Tasks)
    <3>1. CASE g = id
      BY ONLY <1>6, <1>7, <3>1
    <3>2. CASE g # id
      <4>1. line1[g] = line[g] /\ line[g].queue \in Seq(Tasks) /\ LineSound(g, line[g].queue, tasks)
        BY ONLY <1>1, <1>3, <1>7, <1>9, <3>2
      <4> QED BY ONLY <4>1 DEF LineSound, Once
    <3> QED BY <3>1, <3>2
  <2>3. \A q \in Tasks : q \in Standing(line1[g].queue) <=> tasks1[q].at = "queued" /\ tasks1[q].gate = g
    <3>1. CASE g = id
      <4>1. \A q \in Tasks : q \in Standing(line1[g].queue) <=> q \in Standing(line[id].queue) \/ q = t
        BY <1>6, <1>7, <3>1
      <4> QED BY <1>4, <2>1, <3>1, <4>1
    <3>2. CASE g # id
      <4>1. line1[g] = line[g] /\ t \notin Standing(line[g].queue)
        BY <1>5, <1>7, <3>2
      <4> QED BY <1>4, <2>1, <3>2, <4>1
    <3> QED BY <3>1, <3>2
  <2> DEFINE queue == line1[g].queue
  <2>4. queue \in Seq(Tasks) /\ Once(queue) /\ Standing(queue) = Lined(g, tasks1)
    <3>1. Standing(queue) \subseteq Tasks /\ Lined(g, tasks1) \subseteq Tasks
      BY DEF Standing, Lined
    <3>2. \A q \in Tasks : q \in Lined(g, tasks1) <=> tasks1[q].at = "queued" /\ tasks1[q].gate = g
      BY DEF Lined
    <3> QED BY <2>2, <2>3, <3>1, <3>2
  <2> HIDE DEF queue
  <2>5. LineSound(g, queue, tasks1)
    BY <2>4, LineStands
  <2> QED BY <2>5 DEF queue
<1>10. ASSUME NEW g \in Tasks PROVE WorkSound(g, line1[g], tasks1)
  <2>1. Readers(g, tasks1) = Readers(g, tasks)
    BY <1>4 DEF Readers
  <2>2. Writers(g, tasks1) = Writers(g, tasks)
    BY <1>4 DEF Writers
  <2>3. line1[g].readers = line[g].readers /\ line1[g].writing = line[g].writing
    BY <1>7
  <2> QED BY <1>1, <2>1, <2>2, <2>3 DEF WorkSound
<1>11. ASSUME NEW g \in Tasks, tasks1[g].at = "new" PROVE line1[g] = NoGate
  <2>1. g # t /\ g # id /\ tasks[g].at = "new"
    BY <1>2, <1>4, <1>11
  <2> QED BY <1>1, <1>7, <2>1
<1>12. GateSound(line1, map1, tasks1)
  BY <1>2, <1>4, <1>7, <1>8, <1>9, <1>10, <1>11 DEF GateSound
<1>13. StatesIn(tasks)[t] = "idle" /\ StatesIn(tasks1) = [StatesIn(tasks) EXCEPT ![t] = "waiting"]
  BY <1>4 DEF StatesIn
<1>14. ScopesIn(tasks1) = [ScopesIn(tasks) EXCEPT ![t] = [root |-> root, write |-> w]]
  BY <1>4 DEF ScopesIn
<1> DEFINE s == [root |-> root, write |-> w]
           before == {q \in Tasks : StatesIn(tasks)[q] # "idle" /\ Disturb(ScopesIn(tasks)[q], s)}
<1>15. \A q \in Tasks : /\ StatesIn(tasks1)[q] = IF q = t THEN "waiting" ELSE StatesIn(tasks)[q]
                        /\ ScopesIn(tasks1)[q] = IF q = t THEN s ELSE ScopesIn(tasks)[q]
  BY <1>4 DEF StatesIn, ScopesIn
<1>16. \A q \in Tasks : ScopesIn(tasks)[q].root = tasks[q].root
  BY DEF ScopesIn
<1>17. ASSUME NEW u \in Tasks, u # t, NEW q \in Tasks, StatesIn(tasks)[u] = "waiting"
       PROVE  /\ Disturb(ScopesIn(tasks1)[q], ScopesIn(tasks1)[u])
              /\ StatesIn(tasks1)[q] = "granted" \/ q \in InFrontOf(u, line1[tasks1[u].gate].queue)
              <=>
              /\ Disturb(ScopesIn(tasks)[q], ScopesIn(tasks)[u])
              /\ StatesIn(tasks)[q] = "granted" \/ q \in InFrontOf(u, line[tasks[u].gate].queue)
  <2>1. tasks1[u].gate = tasks[u].gate /\ tasks[u].at = "queued" /\ tasks[u].gate \in Tasks
    BY <1>1, <1>4, <1>17 DEF StatesIn, TaskRecord, MapSound
  <2>2. InFrontOf(u, line1[tasks1[u].gate].queue) = InFrontOf(u, line[tasks[u].gate].queue)
    <3>1. CASE tasks[u].gate = id
      BY <1>6, <1>7, <1>17, <2>1, <3>1
    <3>2. CASE tasks[u].gate # id
      BY <1>7, <2>1, <3>2
    <3> QED BY <3>1, <3>2
  <2>3. t \notin InFrontOf(u, line[tasks[u].gate].queue)
    <3>1. t \notin Standing(line[tasks[u].gate].queue)
      BY <1>5, <2>1
    <3>2. line[tasks[u].gate].queue \in Seq(Tasks)
      BY <1>3, <2>1
    <3> DEFINE queue == line[tasks[u].gate].queue
    <3>3. DOMAIN queue = 1..Len(queue) /\ Len(queue) \in Nat
      BY <3>2, LenProperties
    <3> HIDE DEF queue
    <3>4. \A k \in 1..Len(queue) : \A i \in 1..(k - 1) : i \in DOMAIN queue
      BY <3>3
    <3>5. t \notin Standing(queue)
      BY <3>1 DEF queue
    <3>6. t \notin InFrontOf(u, queue)
      BY <3>3, <3>4, <3>5 DEF InFrontOf, Standing
    <3> QED BY <3>6 DEF queue
  <2> QED BY <1>13, <1>15, <1>17, <2>2, <2>3
<1>18. RivalsIn(line1, tasks1)[t] = before
  <2>1. RivalsIn(line1, tasks1)[t] =
          {q \in Tasks : /\ Disturb(ScopesIn(tasks1)[q], s)
                         /\ StatesIn(tasks1)[q] = "granted" \/ q \in Standing(line[id].queue)}
    <3>1. StatesIn(tasks1)[t] = "waiting" /\ ScopesIn(tasks1)[t] = s
      BY <1>15
    <3>2. InFrontOf(t, line1[tasks1[t].gate].queue) = Standing(line[id].queue)
      BY <1>4, <1>6, <1>7
    <3> HIDE DEF s
    <3> QED BY <3>1, <3>2 DEF RivalsIn
  <2>2. ASSUME NEW q \in Tasks
        PROVE  /\ Disturb(ScopesIn(tasks1)[q], s)
               /\ StatesIn(tasks1)[q] = "granted" \/ q \in Standing(line[id].queue)
               <=> q \in before
    <3>1. CASE q = t
      BY <1>2, <1>5, <1>13, <1>15, <3>1
    <3>2. CASE q # t
      <4>1. ScopesIn(tasks1)[q] = ScopesIn(tasks)[q] /\ StatesIn(tasks1)[q] = StatesIn(tasks)[q]
        BY <1>15, <3>2
      <4>2. q \in Standing(line[id].queue) <=> tasks[q].at = "queued" /\ tasks[q].gate = id
        BY <1>1, <1>2, <1>3, LineStands DEF Lined
      <4>3. Disturb(ScopesIn(tasks)[q], s) => tasks[q].root = root
        BY <1>16 DEF Disturb
      <4>4. tasks[q].at \in {"queued", "admitted", "running"} /\ tasks[q].root = root => tasks[q].gate = id
        BY <1>1, <1>2 DEF MapSound
      <4>5. /\ StatesIn(tasks)[q] = "granted" <=> tasks[q].at \in {"admitted", "running"}
            /\ StatesIn(tasks)[q] # "idle" <=> tasks[q].at \in {"queued", "admitted", "running"}
        BY <1>1 DEF StatesIn, TaskRecord
      <4> QED BY <4>1, <4>2, <4>3, <4>4, <4>5
    <3> QED BY <3>1, <3>2
  <2> QED BY <2>1, <2>2
<1>19. ASSUME NEW u \in Tasks, u # t PROVE RivalsIn(line1, tasks1)[u] = RivalsIn(line, tasks)[u]
  <2>1. StatesIn(tasks1)[u] = StatesIn(tasks)[u]
    BY <1>15, <1>19
  <2>2. CASE StatesIn(tasks)[u] # "waiting"
    BY <2>1, <2>2 DEF RivalsIn
  <2>3. CASE StatesIn(tasks)[u] = "waiting"
    BY <1>17, <1>19, <2>1, <2>3 DEF RivalsIn
  <2> QED BY <2>2, <2>3
<1>20. RivalsIn(line1, tasks1) = [RivalsIn(line, tasks) EXCEPT ![t] = before]
  <2>1. /\ RivalsIn(line1, tasks1) = [u \in Tasks |-> RivalsIn(line1, tasks1)[u]]
        /\ RivalsIn(line, tasks) = [u \in Tasks |-> RivalsIn(line, tasks)[u]]
    BY DEF RivalsIn
  <2> HIDE DEF before
  <2> QED BY <1>18, <1>19, <2>1
<1> QED BY <1>2, <1>12, <1>13, <1>14, <1>20

\* Only who stands in a queue is in front of somebody.
LEMMA InFrontStands ==
  ASSUME NEW queue \in Seq(Tasks), NEW u, NEW v \in Tasks, v \in InFrontOf(u, queue)
  PROVE  v \in Standing(queue)
<1>1. Len(queue) \in Nat /\ DOMAIN queue = 1..Len(queue)
  BY LenProperties
<1>2. PICK k \in 1..Len(queue) : \E i \in 1..(k - 1) : queue[i] = v
  BY <1>1 DEF InFrontOf
<1>3. PICK i \in 1..(k - 1) : queue[i] = v
  BY <1>2
<1>4. i \in DOMAIN queue
  BY <1>1, <1>3
<1> QED BY <1>3, <1>4 DEF Standing

\* Who leaves the gate of its root leaves the others as they are, when its gate forgets it.
LEMMA LeavesGate ==
  ASSUME NEW line, NEW map, NEW tasks, GateSound(line, map, tasks),
         NEW t \in Tasks, tasks[t].at \in {"queued", "admitted", "running"},
         NEW id, id = tasks[t].gate, NEW now \in GateRecord,
         NEW line1, line1 = Put(line, id, now),
         NEW tasks1, tasks1 = Gone(tasks, t),
         LineSound(id, now.queue, tasks1), WorkSound(id, now, tasks1),
         \A u, v \in Tasks : u # t => (v \in InFrontOf(u, now.queue) <=> v # t /\ v \in InFrontOf(u, line[id].queue))
  PROVE  /\ id \in Tasks /\ GateSound(line1, map, tasks1) /\ map[tasks[t].root] = id
         /\ StatesIn(tasks)[t] # "idle"
         /\ StatesIn(tasks1) = Set(StatesIn(tasks), t, "idle")
         /\ \E s \in GateScopes : ScopesIn(tasks1) = Set(ScopesIn(tasks), t, s)
         /\ RivalsIn(line1, tasks1) = Without(RivalsIn(line, tasks), t)
<1>. USE GateAssumption
<1>. USE DEF Put, Gone, Set, Without
<1>1. /\ line \in [Tasks -> GateRecord] /\ tasks \in [Tasks -> TaskRecord] /\ map \in [Roots -> Tasks \cup {NoTask}]
      /\ MapSound(map, tasks)
      /\ \A g \in Tasks : LineSound(g, line[g].queue, tasks) /\ WorkSound(g, line[g], tasks)
      /\ \A g \in Tasks : tasks[g].at = "new" => line[g] = NoGate
  BY DEF GateSound
<1>2. id \in Tasks /\ map[tasks[t].root] = id /\ tasks[t].root \in Roots
  BY <1>1 DEF MapSound, TaskRecord
<1>3. /\ tasks1 \in [Tasks -> TaskRecord]
      /\ tasks1[t].at = "over" /\ tasks1[t].root \in Roots /\ tasks1[t].write = FALSE
      /\ \A u \in Tasks : u # t => tasks1[u] = tasks[u]
  <2>1. Away("over") \in TaskRecord /\ Away("over").at = "over" /\ Away("over").write = FALSE
    BY DEF Away, TaskRecord
  <2> QED BY <1>1, <2>1 DEF TaskRecord
<1>4. /\ line1 \in [Tasks -> GateRecord] /\ line1[id] = now
      /\ \A g \in Tasks : g # id => line1[g] = line[g]
  BY <1>1, <1>2
<1>5. MapSound(map, tasks1)
  <2>1. \A r \in Roots : map[r] # NoTask => tasks1[map[r]].at # "new"
    BY <1>1, <1>3 DEF MapSound
  <2>2. \A u \in Tasks : tasks1[u].at \in {"queued", "admitted", "running"} =>
          tasks1[u].gate \in Tasks /\ map[tasks1[u].root] = tasks1[u].gate
    BY <1>1, <1>3 DEF MapSound
  <2> QED BY <1>1, <2>1, <2>2 DEF MapSound
<1>6. ASSUME NEW g \in Tasks, g # id PROVE LineSound(g, line1[g].queue, tasks1)
  <2>1. \A q \in Tasks : tasks1[q].at = "queued" /\ tasks1[q].gate = g <=> tasks[q].at = "queued" /\ tasks[q].gate = g
    BY <1>3, <1>6
  <2>2. line1[g] = line[g] /\ LineSound(g, line[g].queue, tasks)
    BY <1>1, <1>4, <1>6
  <2>3. line[g].queue \in Seq(Tasks)
    BY <1>1 DEF GateRecord
  <2>4. \A i \in DOMAIN line[g].queue : line[g].queue[i] \in Tasks
    BY <2>3, LenProperties
  <2> QED BY <2>1, <2>2, <2>4 DEF LineSound
<1>7. ASSUME NEW g \in Tasks, g # id PROVE WorkSound(g, line1[g], tasks1)
  <2>1. Readers(g, tasks1) = Readers(g, tasks) /\ Writers(g, tasks1) = Writers(g, tasks)
    BY <1>3, <1>7 DEF Readers, Writers
  <2>2. line1[g] = line[g] /\ WorkSound(g, line[g], tasks)
    BY <1>1, <1>4, <1>7
  <2> QED BY <2>1, <2>2 DEF WorkSound
<1>8. ASSUME NEW g \in Tasks, tasks1[g].at = "new" PROVE line1[g] = NoGate
  <2>1. g # id
    BY <1>1, <1>2, <1>3, <1>8 DEF MapSound
  <2>2. tasks[g].at = "new"
    BY <1>3, <1>8
  <2> QED BY <1>1, <1>4, <2>1, <2>2
<1>9. GateSound(line1, map, tasks1)
  <2>1. \A g \in Tasks : LineSound(g, line1[g].queue, tasks1)
    BY <1>4, <1>6
  <2>2. \A g \in Tasks : WorkSound(g, line1[g], tasks1)
    BY <1>4, <1>7
  <2> QED BY <1>1, <1>3, <1>4, <1>5, <1>8, <2>1, <2>2 DEF GateSound
<1>10. StatesIn(tasks)[t] # "idle" /\ StatesIn(tasks1) = [StatesIn(tasks) EXCEPT ![t] = "idle"]
  BY <1>3 DEF StatesIn
<1>11. \E s \in GateScopes : ScopesIn(tasks1) = [ScopesIn(tasks) EXCEPT ![t] = s]
  <2> DEFINE s == [root |-> tasks1[t].root, write |-> tasks1[t].write]
  <2>1. s \in GateScopes
    BY <1>3 DEF GateScopes
  <2>2. ScopesIn(tasks1) = [ScopesIn(tasks) EXCEPT ![t] = s]
    BY <1>3 DEF ScopesIn
  <2> QED BY <2>1, <2>2
<1>12. /\ StatesIn(tasks1)[t] = "idle"
       /\ \A q \in Tasks : q # t => StatesIn(tasks1)[q] = StatesIn(tasks)[q] /\ ScopesIn(tasks1)[q] = ScopesIn(tasks)[q]
  BY <1>3 DEF StatesIn, ScopesIn
<1>13. ASSUME NEW u \in Tasks, u # t, StatesIn(tasks)[u] = "waiting", NEW q \in Tasks
       PROVE  /\ Disturb(ScopesIn(tasks1)[q], ScopesIn(tasks1)[u])
              /\ StatesIn(tasks1)[q] = "granted" \/ q \in InFrontOf(u, line1[tasks1[u].gate].queue)
              <=>
              /\ q # t /\ Disturb(ScopesIn(tasks)[q], ScopesIn(tasks)[u])
              /\ StatesIn(tasks)[q] = "granted" \/ q \in InFrontOf(u, line[tasks[u].gate].queue)
  <2>1. tasks1[u].gate = tasks[u].gate /\ tasks[u].at = "queued" /\ tasks[u].gate \in Tasks
    BY <1>1, <1>3, <1>13 DEF StatesIn, TaskRecord, MapSound
  <2> DEFINE g == tasks[u].gate
             queue == line1[g].queue
  <2>2. t \notin InFrontOf(u, queue)
    <3>1. queue \in Seq(Tasks) /\ LineSound(g, queue, tasks1)
      BY <1>4, <1>9, <2>1 DEF GateSound, GateRecord
    <3> HIDE DEF g, queue
    <3>2. Standing(queue) = Lined(g, tasks1)
      BY <3>1, LineStands
    <3>3. t \notin Lined(g, tasks1)
      BY <1>3 DEF Lined
    <3>4. ASSUME t \in InFrontOf(u, queue) PROVE FALSE
      BY <3>1, <3>2, <3>3, <3>4, InFrontStands
    <3> QED BY <3>4
  <2>3. q # t => (q \in InFrontOf(u, queue) <=> q \in InFrontOf(u, line[g].queue))
    <3>1. CASE g = id
      BY <1>4, <1>13, <3>1
    <3>2. CASE g # id
      BY <1>4, <2>1, <3>2
    <3> QED BY <3>1, <3>2
  <2> QED BY <1>12, <1>13, <2>1, <2>2, <2>3
<1>14. ASSUME NEW u \in Tasks, u # t PROVE RivalsIn(line1, tasks1)[u] = RivalsIn(line, tasks)[u] \ {t}
  <2>1. StatesIn(tasks1)[u] = StatesIn(tasks)[u]
    BY <1>12, <1>14
  <2>2. CASE StatesIn(tasks)[u] # "waiting"
    BY <2>1, <2>2 DEF RivalsIn
  <2>3. CASE StatesIn(tasks)[u] = "waiting"
    BY <1>13, <1>14, <2>1, <2>3 DEF RivalsIn
  <2> QED BY <2>2, <2>3
<1>15. RivalsIn(line1, tasks1)[t] = {}
  BY <1>12 DEF RivalsIn
<1>16. RivalsIn(line1, tasks1) = [q \in Tasks |-> IF q = t THEN {} ELSE RivalsIn(line, tasks)[q] \ {t}]
  <2>1. RivalsIn(line1, tasks1) = [u \in Tasks |-> RivalsIn(line1, tasks1)[u]]
    BY DEF RivalsIn
  <2> QED BY <1>14, <1>15, <2>1
<1> QED BY <1>2, <1>9, <1>10, <1>11, <1>16

\* run, as a step of the abstract queue.
LEMMA RunTaskEnters ==
  ASSUME GatesInv, NEW t \in Tasks, NEW root \in Roots, NEW w \in BOOLEAN, RunTask(t, root, w)
  PROVE  GatesInv' /\ \E s \in GateScopes : GateQueue!Enter(t, s)
<1> DEFINE id == GateFor(gates, root, t)
           now == Coming(gate[id], t)
           line1 == Put(gate, id, now)
           map1 == Found(gates, root, id)
           tasks1 == Asking(task, t, root, id, w)
           s == Scope(root, w)
<1>1. /\ task[t].at = "new" /\ DrainGate(root, id, now, map1, tasks1)
      /\ GateSound(gate, gates, task) /\ gate \in [Tasks -> GateRecord]
  BY DEF RunTask, GatesInv, GateSound, GateOf, GateFor, Coming, Found, Asking
<1>2. /\ id = GateFor(gates, root, t) /\ now = Coming(gate[id], t)
      /\ line1 = Put(gate, id, Coming(gate[id], t)) /\ map1 = Found(gates, root, id)
      /\ tasks1 = Asking(task, t, root, id, w) /\ line1 = Put(gate, id, now) /\ s = Scope(root, w)
  OBVIOUS
<1> HIDE DEF id, now, line1, map1, tasks1, s
<1>3. /\ id \in Tasks /\ GateSound(line1, map1, tasks1) /\ map1[root] = id
      /\ StatesIn(task)[t] = "idle"
      /\ StatesIn(tasks1) = Set(StatesIn(task), t, "waiting")
      /\ ScopesIn(tasks1) = Set(ScopesIn(task), t, s)
      /\ RivalsIn(line1, tasks1) = Set(RivalsIn(gate, task), t, Disturbing(task, s))
  BY <1>1, <1>2, ComesToGate
<1>4. GatesInv' /\ GateQueue!Admit(StatesIn(tasks1), ScopesIn(tasks1), RivalsIn(line1, tasks1))
  BY <1>1, <1>2, <1>3, DrainStep
<1>5. s \in GateScopes
  BY <1>2 DEF GateScopes, Scope
<1>6. GateQueue!Admit(Set(StatesIn(task), t, "waiting"), Set(ScopesIn(task), t, s), Set(RivalsIn(gate, task), t, Disturbing(task, s)))
  BY <1>3, <1>4
<1>7. GateQueue!Enter(t, s)
  BY <1>3, <1>6 DEF GateQueue!Enter, GateState, GateScope, GateRivals, Set, Disturbing
<1> QED BY <1>4, <1>5, <1>7

\* A task that leaves, as a step of the abstract queue.
LEMMA LeavingStep ==
  ASSUME GatesInv, NEW t \in Tasks, task[t].at \in {"queued", "admitted", "running"},
         NEW id, id = task[t].gate, NEW now \in GateRecord,
         NEW tasks1, tasks1 = Gone(task, t),
         LineSound(id, now.queue, tasks1), WorkSound(id, now, tasks1),
         \A u, v \in Tasks : u # t => (v \in InFrontOf(u, now.queue) <=> v # t /\ v \in InFrontOf(u, gate[id].queue)),
         DrainGate(task[t].root, id, now, gates, tasks1)
  PROVE  GatesInv' /\ \E s \in GateScopes : GateQueue!Leave(t, s)
<1> DEFINE line1 == Put(gate, id, now)
           root == task[t].root
<1>1. GateSound(gate, gates, task) /\ gate \in [Tasks -> GateRecord] /\ root \in Roots
  BY DEF GatesInv, GateSound, TaskRecord
<1>2. line1 = Put(gate, id, now) /\ root = task[t].root /\ DrainGate(root, id, now, gates, tasks1)
  OBVIOUS
<1> HIDE DEF line1
<1>3. /\ id \in Tasks /\ GateSound(line1, gates, tasks1) /\ gates[root] = id
      /\ StatesIn(task)[t] # "idle"
      /\ StatesIn(tasks1) = Set(StatesIn(task), t, "idle")
      /\ \E s \in GateScopes : ScopesIn(tasks1) = Set(ScopesIn(task), t, s)
      /\ RivalsIn(line1, tasks1) = Without(RivalsIn(gate, task), t)
  BY <1>1, <1>2, LeavesGate
<1> HIDE DEF root
<1>4. GatesInv' /\ GateQueue!Admit(StatesIn(tasks1), ScopesIn(tasks1), RivalsIn(line1, tasks1))
  BY <1>1, <1>2, <1>3, DrainStep
<1>5. PICK s \in GateScopes : ScopesIn(tasks1) = Set(ScopesIn(task), t, s)
  BY <1>3
<1>6. GateQueue!Admit(Set(StatesIn(task), t, "idle"), Set(ScopesIn(task), t, s), Without(RivalsIn(gate, task), t))
  BY <1>3, <1>4, <1>5
<1>7. GateQueue!Leave(t, s)
  BY <1>3, <1>6 DEF GateQueue!Leave, GateState, GateScope, GateRivals, Set, Without
<1> QED BY <1>4, <1>7

\* cancel: the task is taken out of the queue it waits in.
LEMMA CancelTaskLeaves ==
  ASSUME GatesInv, NEW t \in Tasks, CancelTask(t)
  PROVE  GatesInv' /\ \E s \in GateScopes : GateQueue!Leave(t, s)
<1>. USE GateAssumption
<1> DEFINE id == task[t].gate
           queue == gate[id].queue
           shorter == RemoveAt(queue, PlaceOf(t, queue))
           now == [gate[id] EXCEPT !.queue = RemoveAt(@, PlaceOf(t, @))]
           tasks1 == Gone(task, t)
<1>1. /\ task[t].at = "queued" /\ DrainGate(task[t].root, id, now, gates, tasks1)
      /\ id \in Tasks /\ gate[id] \in GateRecord /\ queue \in Seq(Tasks)
      /\ LineSound(id, queue, task) /\ WorkSound(id, gate[id], task)
      /\ task \in [Tasks -> TaskRecord]
  <2>1. task[t].at = "queued" /\ DrainGate(task[t].root, id, now, gates, tasks1)
    BY DEF CancelTask, Gone
  <2>2. /\ gate \in [Tasks -> GateRecord] /\ task \in [Tasks -> TaskRecord] /\ MapSound(gates, task)
        /\ \A g \in Tasks : LineSound(g, gate[g].queue, task) /\ WorkSound(g, gate[g], task)
    BY DEF GatesInv, GateSound
  <2>3. id \in Tasks
    BY <2>1, <2>2 DEF MapSound
  <2> QED BY <2>1, <2>2, <2>3 DEF GateRecord
<1>2. now = [gate[id] EXCEPT !.queue = shorter] /\ shorter = RemoveAt(queue, PlaceOf(t, queue))
  OBVIOUS
<1>3. /\ \A u \in Tasks : u # t => tasks1[u] = task[u]
      /\ tasks1[t].at = "over" /\ tasks1 = Gone(task, t)
  BY <1>1 DEF Away, Gone
<1>id. id = task[t].gate /\ queue = gate[id].queue
  OBVIOUS
<1> HIDE DEF id, queue, shorter, now, tasks1
<1>4. Once(queue) /\ t \in Standing(queue) /\ Standing(queue) = Lined(id, task)
  <2>1. Once(queue) /\ Standing(queue) = Lined(id, task)
    BY <1>1, LineStands
  <2> QED BY <1>1, <1>id, <2>1 DEF Lined
<1>5. /\ shorter \in Seq(Tasks) /\ Once(shorter)
      /\ \A q \in Tasks : q \in Standing(shorter) <=> q \in Standing(queue) /\ q # t
      /\ \A u, v \in Tasks : u # t => (v \in InFrontOf(u, shorter) <=> v # t /\ v \in InFrontOf(u, queue))
  BY <1>1, <1>2, <1>4, QueueWithout
<1>6. now \in GateRecord /\ now.queue = shorter /\ now.readers = gate[id].readers /\ now.writing = gate[id].writing
  BY <1>1, <1>2, <1>5 DEF GateRecord
<1>7. LineSound(id, shorter, tasks1)
  <2>1. \A q \in Tasks : q \in Lined(id, tasks1) <=> q \in Lined(id, task) /\ q # t
    BY <1>3 DEF Lined
  <2>2. Standing(shorter) \subseteq Tasks /\ Lined(id, tasks1) \subseteq Tasks
    BY DEF Standing, Lined
  <2>3. Standing(shorter) = Lined(id, tasks1)
    BY <1>4, <1>5, <2>1, <2>2
  <2> QED BY <1>5, <2>3, LineStands
<1>8. WorkSound(id, now, tasks1)
  <2>1. Readers(id, tasks1) = Readers(id, task) /\ Writers(id, tasks1) = Writers(id, task)
    BY <1>1, <1>3 DEF Readers, Writers
  <2> QED BY <1>1, <1>6, <2>1 DEF WorkSound
<1>9. \A u, v \in Tasks : u # t => (v \in InFrontOf(u, now.queue) <=> v # t /\ v \in InFrontOf(u, gate[id].queue))
  BY <1>5, <1>6, <1>id
<1>10. LineSound(id, now.queue, tasks1)
  BY <1>6, <1>7
<1>11. DrainGate(task[t].root, id, now, gates, tasks1) /\ task[t].at \in {"queued", "admitted", "running"}
  BY <1>1
<1> QED BY <1>3, <1>6, <1>8, <1>9, <1>10, <1>11, <1>id, LeavingStep

\* finally: the gate has one reader less, or no writer any more.
LEMMA EndTaskLeaves ==
  ASSUME GatesInv, NEW t \in Tasks, EndTask(t)
  PROVE  GatesInv' /\ \E s \in GateScopes : GateQueue!Leave(t, s)
<1>. USE GateAssumption
<1> DEFINE id == task[t].gate
           queue == gate[id].queue
           now == IF task[t].write THEN [gate[id] EXCEPT !.writing = FALSE]
                  ELSE [gate[id] EXCEPT !.readers = @ - 1]
           tasks1 == Gone(task, t)
<1>1. /\ task[t].at \in {"admitted", "running"} /\ DrainGate(task[t].root, id, now, gates, tasks1)
      /\ id \in Tasks /\ gate[id] \in GateRecord /\ queue \in Seq(Tasks)
      /\ LineSound(id, queue, task) /\ WorkSound(id, gate[id], task)
      /\ task \in [Tasks -> TaskRecord]
  <2>1. task[t].at \in {"admitted", "running"} /\ DrainGate(task[t].root, id, now, gates, tasks1)
    BY DEF EndTask, Gone
  <2>2. /\ gate \in [Tasks -> GateRecord] /\ task \in [Tasks -> TaskRecord] /\ MapSound(gates, task)
        /\ \A g \in Tasks : LineSound(g, gate[g].queue, task) /\ WorkSound(g, gate[g], task)
    BY DEF GatesInv, GateSound
  <2>3. id \in Tasks
    BY <2>1, <2>2 DEF MapSound
  <2> QED BY <2>1, <2>2, <2>3 DEF GateRecord
<1>2. now = IF task[t].write THEN [gate[id] EXCEPT !.writing = FALSE] ELSE [gate[id] EXCEPT !.readers = gate[id].readers - 1]
  OBVIOUS
<1>3. /\ \A u \in Tasks : u # t => tasks1[u] = task[u]
      /\ tasks1[t].at = "over" /\ tasks1 = Gone(task, t)
  BY <1>1 DEF Away, Gone
<1>id. id = task[t].gate /\ queue = gate[id].queue
  OBVIOUS
<1> HIDE DEF id, queue, now, tasks1
<1>4. IF task[t].write THEN t \in Writers(id, task) /\ Writers(id, task) = {t} /\ Readers(id, task) = {}
      ELSE t \in Readers(id, task) /\ Writers(id, task) = {}
  <2>1. CASE task[t].write
    <3>1. t \in Writers(id, task)
      BY <1>1, <1>id, <2>1 DEF Writers
    <3>2. \A u \in Writers(id, task) \cup Readers(id, task) : t = u
      BY <1>1, <3>1 DEF WorkSound
    <3>3. t \notin Readers(id, task)
      BY <2>1 DEF Readers
    <3> QED BY <2>1, <3>1, <3>2, <3>3
  <2>2. CASE ~task[t].write
    <3>1. t \in Readers(id, task)
      BY <1>1, <1>id, <2>2 DEF Readers
    <3>2. t \notin Writers(id, task)
      BY <2>2 DEF Writers
    <3>3. \A u \in Writers(id, task) : u = t
      BY <1>1, <3>1 DEF WorkSound
    <3> QED BY <2>2, <3>1, <3>2, <3>3
  <2> QED BY <2>1, <2>2
<1>5. Writers(id, tasks1) = {}
  <2>1. \A u \in Tasks : u \in Writers(id, tasks1) => u # t /\ u \in Writers(id, task)
    BY <1>3 DEF Writers
  <2>2. Writers(id, tasks1) \subseteq Tasks
    BY DEF Writers
  <2> QED BY <1>4, <2>1, <2>2
<1>6. Readers(id, tasks1) = Readers(id, task) \ {t}
  BY <1>3 DEF Readers
<1>7. IsFiniteSet(Readers(id, task)) /\ Cardinality(Readers(id, task)) = gate[id].readers /\ gate[id].readers \in Nat
      /\ (gate[id].writing <=> Writers(id, task) # {}) /\ gate[id].writing \in BOOLEAN
  BY <1>1 DEF WorkSound, GateRecord
<1>8. /\ now \in GateRecord /\ now.queue = queue
      /\ IsFiniteSet(Readers(id, tasks1)) /\ Cardinality(Readers(id, tasks1)) = now.readers /\ now.writing = FALSE
  <2>1. CASE task[t].write
    <3>1. now = [gate[id] EXCEPT !.writing = FALSE]
      BY <1>2, <2>1
    <3>2. now \in GateRecord /\ now.queue = queue /\ now.readers = gate[id].readers /\ now.writing = FALSE
      BY <1>1, <1>id, <3>1 DEF GateRecord
    <3>3. Readers(id, tasks1) = Readers(id, task)
      BY <1>4, <1>6, <2>1
    <3> QED BY <1>7, <3>2, <3>3
  <2>2. CASE ~task[t].write
    <3>1. now = [gate[id] EXCEPT !.readers = gate[id].readers - 1]
      BY <1>2, <2>2
    <3>2. t \in Readers(id, task) /\ gate[id].writing = FALSE
      BY <1>4, <1>7, <2>2
    <3>3. IsFiniteSet(Readers(id, tasks1)) /\ Cardinality(Readers(id, tasks1)) = gate[id].readers - 1
      BY <1>6, <1>7, <3>2, FS_RemoveElement
    <3>4. gate[id].readers - 1 \in Nat
      BY <3>3, FS_CardinalityType
    <3>5. now \in GateRecord /\ now.queue = queue /\ now.readers = gate[id].readers - 1 /\ now.writing = gate[id].writing
      BY <1>1, <1>id, <3>1, <3>4 DEF GateRecord
    <3> QED BY <3>2, <3>3, <3>5
  <2> QED BY <2>1, <2>2
<1>9. WorkSound(id, now, tasks1)
  BY <1>5, <1>8 DEF WorkSound
<1>10. Once(queue) /\ Standing(queue) = Lined(id, task)
  BY <1>1, LineStands
<1>11. LineSound(id, queue, tasks1)
  <2>1. Lined(id, tasks1) = Lined(id, task)
    BY <1>1, <1>3 DEF Lined
  <2> QED BY <1>1, <1>10, <2>1, LineStands
<1>12. \A u, v \in Tasks : u # t => (v \in InFrontOf(u, queue) <=> v # t /\ v \in InFrontOf(u, queue))
  <2>1. t \notin Standing(queue)
    BY <1>1, <1>10 DEF Lined
  <2> QED BY <1>1, <2>1, InFrontStands
<1>13. \A u, v \in Tasks : u # t => (v \in InFrontOf(u, now.queue) <=> v # t /\ v \in InFrontOf(u, gate[id].queue))
  BY <1>8, <1>12, <1>id
<1>14. LineSound(id, now.queue, tasks1) /\ now \in GateRecord
  BY <1>8, <1>11
<1>15. DrainGate(task[t].root, id, now, gates, tasks1) /\ task[t].at \in {"queued", "admitted", "running"}
  BY <1>1
<1> QED BY <1>3, <1>9, <1>13, <1>14, <1>15, <1>id, LeavingStep

\* The first microtask changes nothing that the queue can see.
LEMMA BeginTaskUnseen ==
  ASSUME GatesInv, NEW t \in Tasks, BeginTask(t)
  PROVE  GatesInv' /\ UNCHANGED <<GateState, GateScope, GateRivals>>
<1>1. /\ task[t].at = "admitted" /\ task' = [task EXCEPT ![t].at = "running"] /\ gates' = gates /\ gate' = gate
      /\ gate \in [Tasks -> GateRecord] /\ task \in [Tasks -> TaskRecord] /\ gates \in [Roots -> Tasks \cup {NoTask}]
      /\ MapSound(gates, task)
      /\ \A g \in Tasks : LineSound(g, gate[g].queue, task) /\ WorkSound(g, gate[g], task)
      /\ \A g \in Tasks : task[g].at = "new" => gate[g] = NoGate
  BY DEF BeginTask, GatesInv, GateSound
<1>2. /\ task' \in [Tasks -> TaskRecord]
      /\ \A u \in Tasks : /\ u # t => task'[u] = task[u]
                          /\ task'[u].root = task[u].root /\ task'[u].gate = task[u].gate /\ task'[u].write = task[u].write
      /\ task'[t].at = "running"
  BY <1>1 DEF TaskRecord
<1>3. MapSound(gates', task')
  BY <1>1, <1>2 DEF MapSound
<1>4. ASSUME NEW g \in Tasks PROVE LineSound(g, gate'[g].queue, task')
  <2>1. \A q \in Tasks : task'[q].at = "queued" /\ task'[q].gate = g <=> task[q].at = "queued" /\ task[q].gate = g
    BY <1>1, <1>2
  <2>2. gate[g].queue \in Seq(Tasks)
    BY <1>1 DEF GateRecord
  <2>3. \A i \in DOMAIN gate[g].queue : gate[g].queue[i] \in Tasks
    BY <2>2, LenProperties
  <2> QED BY <1>1, <2>1, <2>3 DEF LineSound
<1>5. ASSUME NEW g \in Tasks PROVE WorkSound(g, gate'[g], task')
  <2>1. Readers(g, task') = Readers(g, task)
    BY <1>1, <1>2 DEF Readers
  <2>2. Writers(g, task') = Writers(g, task)
    BY <1>1, <1>2 DEF Writers
  <2> QED BY <1>1, <2>1, <2>2 DEF WorkSound
<1>6. GatesInv'
  BY <1>1, <1>2, <1>3, <1>4, <1>5 DEF GatesInv, GateSound
<1>7. GateState' = GateState /\ GateScope' = GateScope
  BY <1>1, <1>2 DEF GateState, GateScope, StatesIn, ScopesIn
<1>8. GateRivals' = GateRivals
  <2>1. StatesIn(task') = StatesIn(task) /\ ScopesIn(task') = ScopesIn(task)
    BY <1>7 DEF GateState, GateScope
  <2>2. \A u \in Tasks : StatesIn(task)[u] = "waiting" => task'[u].gate = task[u].gate
    BY <1>2
  <2>3. RivalsIn(gate, task') = RivalsIn(gate, task)
    BY <2>1, <2>2 DEF RivalsIn
  <2> QED BY <1>1, <2>3 DEF GateRivals
<1> QED BY <1>6, <1>7, <1>8

\* The invariant holds at the beginning, when nobody is there.
LEMMA GatesInvInit == GateInit => GatesInv
<1>. USE GateAssumption
<1> SUFFICES ASSUME GateInit PROVE GatesInv
  OBVIOUS
<1>1. /\ gates = [r \in Roots |-> NoTask] /\ gate = [g \in Tasks |-> NoGate]
      /\ task = [t \in Tasks |-> Away("new")]
  BY DEF GateInit
<1>2. NoGate \in GateRecord /\ NoGate.readers = 0 /\ NoGate.writing = FALSE /\ NoGate.queue = <<>>
  BY EmptySeq DEF NoGate, GateRecord
<1>3. Away("new") \in TaskRecord /\ Away("new").at = "new"
  BY DEF Away, TaskRecord
<1>4. \A g \in Tasks : LineSound(g, gate[g].queue, task)
  <2>1. DOMAIN <<>> = {}
    BY EmptySeq
  <2> QED BY <1>1, <1>2, <1>3, <2>1 DEF LineSound
<1>5. \A g \in Tasks : WorkSound(g, gate[g], task)
  <2>1. \A g \in Tasks : Readers(g, task) = {} /\ Writers(g, task) = {}
    BY <1>1, <1>3 DEF Readers, Writers
  <2> QED BY <1>1, <1>2, <2>1, FS_EmptySet DEF WorkSound
<1>6. MapSound(gates, task)
  BY <1>1, <1>3 DEF MapSound
<1> QED BY <1>1, <1>2, <1>3, <1>4, <1>5, <1>6 DEF GatesInv, GateSound

\* Every step keeps it and is a step of the abstract queue.
LEMMA GateStep ==
  GatesInv /\ [GateNext]_gateVars => GatesInv' /\ [GateQueue!AdmissionNext]_GateQueue!admissionVars
<1> SUFFICES ASSUME GatesInv, [GateNext]_gateVars
             PROVE  GatesInv' /\ [GateQueue!AdmissionNext]_GateQueue!admissionVars
  OBVIOUS
<1>1. ASSUME NEW t \in Tasks, NEW root \in Roots, NEW w \in BOOLEAN, RunTask(t, root, w)
      PROVE  GatesInv' /\ GateQueue!AdmissionNext
  BY <1>1, RunTaskEnters DEF GateQueue!AdmissionNext
<1>2. ASSUME NEW t \in Tasks, BeginTask(t)
      PROVE  GatesInv' /\ UNCHANGED GateQueue!admissionVars
  BY <1>2, BeginTaskUnseen DEF GateQueue!admissionVars
<1>3. ASSUME NEW t \in Tasks, CancelTask(t) \/ EndTask(t)
      PROVE  GatesInv' /\ GateQueue!AdmissionNext
  BY <1>3, CancelTaskLeaves, EndTaskLeaves DEF GateQueue!AdmissionNext
<1>4. CASE UNCHANGED gateVars
  BY <1>4 DEF gateVars, GatesInv, GateQueue!admissionVars, GateState, GateScope, GateRivals
<1> QED BY <1>1, <1>2, <1>3, <1>4 DEF GateNext

\* The gates stay consistent: a queue holds exactly those that wait at its gate, a gate
\* counts its readers, a writer is alone at it, and no two projects share a gate, also
\* when gates come and go (ProjectExecutionGate.run, cancel, drain).
THEOREM GatesInvariant == GateSpec => []GatesInv
<1>1. GatesInv /\ [GateNext]_gateVars => GatesInv'
  BY GateStep
<1> QED BY <1>1, GatesInvInit, PTL DEF GateSpec

\* INV-8: whoever changes a project is alone in it, and nobody is let in past one that
\* came before: the gates implement the abstract queue.
THEOREM TasksAdmittedInOrder == GateSpec => GateInOrder
<1>1. GateInit => GateQueue!AdmissionInit
  <2> SUFFICES ASSUME GateInit PROVE GateQueue!AdmissionInit
    OBVIOUS
  <2>1. task = [t \in Tasks |-> Away("new")] /\ Away("new").at = "new"
    BY DEF GateInit, Away
  <2>2. Away("new").root \in Roots /\ Away("new").write = FALSE
    BY GateAssumption DEF Away
  <2>3. GateState = [t \in Tasks |-> "idle"]
    BY <2>1 DEF GateState, StatesIn
  <2>4. GateScope \in [Tasks -> GateScopes]
    BY <2>1, <2>2 DEF GateScope, ScopesIn, GateScopes
  <2>5. GateRivals = [t \in Tasks |-> {}]
    BY <2>3 DEF GateRivals, RivalsIn, GateState
  <2> QED BY <2>3, <2>4, <2>5 DEF GateQueue!AdmissionInit
<1>2. GatesInv /\ [GateNext]_gateVars => [GateQueue!AdmissionNext]_GateQueue!admissionVars
  BY GateStep
<1> QED BY <1>1, <1>2, GatesInvariant, PTL DEF GateSpec, GateInOrder, GateQueue!AdmissionSpec

-----------------------------------------------------------------------------
(* EffectScheduler *)

\* What the refinement rests on: the map holds who waits or runs, and only one that
\* waits has predecessors.
EffectInv ==
  /\ effect \in [Operations -> {"idle", "waiting", "running"}]
  /\ scopeOf \in [Operations -> EffectScopes]
  /\ predecessors \in [Operations -> SUBSET Operations]
  /\ pending = {o \in Operations : effect[o] # "idle"}
  /\ \A o \in Operations : effect[o] # "waiting" => predecessors[o] = {}

\* The invariant holds at the beginning.
LEMMA EffectInvInit == EffectInit => EffectInv
BY EffectAssumption DEF EffectInit, EffectInv, EffectScopes

\* Every step keeps the invariant.
LEMMA EffectInvStep == EffectInv /\ [EffectNext]_effectVars => EffectInv'
<1>. SUFFICES ASSUME EffectInv, [EffectNext]_effectVars PROVE EffectInv'
  OBVIOUS
<1>. USE DEF EffectInv
<1>1. ASSUME NEW o \in Operations, NEW s \in EffectScopes, AcquireEffect(o, s) PROVE EffectInv'
  BY <1>1 DEF AcquireEffect, Before
<1>2. ASSUME NEW o \in Operations, StartEffect(o) PROVE EffectInv'
  BY <1>2 DEF StartEffect
<1>3. ASSUME NEW o \in Operations, effect[o] # "idle", Resolve(o) PROVE EffectInv'
  BY <1>3 DEF Resolve
<1>4. CASE UNCHANGED effectVars
  BY <1>4 DEF effectVars
<1> QED BY <1>1, <1>2, <1>3, <1>4 DEF EffectNext, AbortEffect, EndEffect

\* The invariant of the scheduler.
THEOREM EffectInvariant == EffectSpec => []EffectInv
BY EffectInvInit, EffectInvStep, PTL DEF EffectSpec

\* A step of the scheduler is a step of the abstract queue, or none.
LEMMA EffectStepRefines ==
  ASSUME EffectInv, [EffectNext]_effectVars
  PROVE  [EffectQueue!AdmissionNext]_EffectQueue!admissionVars
<1>. USE DEF EffectInv
<1>1. ASSUME NEW o \in Operations, NEW s \in EffectScopes, AcquireEffect(o, s)
      PROVE  EffectQueue!Enter(o, s)
  <2>1. EffectState[o] = "idle"
    BY <1>1 DEF AcquireEffect, EffectState
  <2>2. EffectState' = [EffectState EXCEPT ![o] = "waiting"]
    BY <1>1 DEF AcquireEffect, EffectState
  <2>3. scopeOf' = [scopeOf EXCEPT ![o] = s]
    BY <1>1 DEF AcquireEffect
  <2>4. Before(s) = {q \in Operations : EffectState[q] # "idle" /\ Overlap(scopeOf[q], s)}
    BY DEF Before, EffectState, Overlap
  <2>5. predecessors' =
          [predecessors EXCEPT ![o] = {q \in Operations : EffectState[q] # "idle" /\ Overlap(scopeOf[q], s)}]
    BY <1>1, <2>4 DEF AcquireEffect
  <2>6. EffectState' = [r \in Operations |->
                          IF r \in {} THEN "granted" ELSE [EffectState EXCEPT ![o] = "waiting"][r]]
    BY <2>2 DEF EffectState
  <2> DEFINE Free == {r \in Operations : /\ [EffectState EXCEPT ![o] = "waiting"][r] = "waiting"
                                         /\ predecessors'[r] = {}}
  <2>7. {} \in SUBSET Free
    OBVIOUS
  <2>8. \E G \in SUBSET Free :
          EffectState' = [r \in Operations |->
                            IF r \in G THEN "granted" ELSE [EffectState EXCEPT ![o] = "waiting"][r]]
    BY <2>6, <2>7
  <2> QED BY <2>1, <2>3, <2>5, <2>8 DEF EffectQueue!Enter, EffectQueue!Admit
<1>2. ASSUME NEW o \in Operations, StartEffect(o)
      PROVE  EffectQueue!Admit(EffectState, scopeOf, predecessors)
  <2>1. {o} \in SUBSET {r \in Operations : EffectState[r] = "waiting" /\ predecessors[r] = {}}
    BY <1>2 DEF StartEffect, EffectState
  <2>2. EffectState' = [r \in Operations |-> IF r \in {o} THEN "granted" ELSE EffectState[r]]
    BY <1>2 DEF StartEffect, EffectState
  <2>3. scopeOf' = scopeOf /\ predecessors' = predecessors
    BY <1>2 DEF StartEffect
  <2> QED BY <2>1, <2>2, <2>3 DEF EffectQueue!Admit
<1>3. ASSUME NEW o \in Operations, effect[o] # "idle", Resolve(o)
      PROVE  EffectQueue!Leave(o, scopeOf[o])
  <2>1. EffectState[o] # "idle"
    BY <1>3 DEF EffectState
  <2>2. EffectState' = [r \in Operations |->
                          IF r \in {} THEN "granted" ELSE [EffectState EXCEPT ![o] = "idle"][r]]
    BY <1>3 DEF Resolve, EffectState
  <2>3. scopeOf' = [scopeOf EXCEPT ![o] = scopeOf[o]]
    BY <1>3 DEF Resolve
  <2>4. predecessors' = [q \in Operations |-> IF q = o THEN {} ELSE predecessors[q] \ {o}]
    BY <1>3 DEF Resolve
  <2> QED BY <2>1, <2>2, <2>3, <2>4 DEF EffectQueue!Leave, EffectQueue!Admit
<1>4. CASE UNCHANGED effectVars
  BY <1>4 DEF effectVars, EffectQueue!admissionVars, EffectState
<1>5. \A o \in Operations : scopeOf[o] \in EffectScopes
  OBVIOUS
<1> QED BY <1>1, <1>2, <1>3, <1>4, <1>5 DEF EffectNext, EffectQueue!AdmissionNext, AbortEffect, EndEffect

\* Effects on a common resource are admitted one at a time and in order, however many of
\* those that wait are aborted.
THEOREM EffectsAdmittedInOrder == EffectSpec => EffectsInOrder
<1>1. EffectInit => EffectQueue!AdmissionInit
  BY EffectAssumption DEF EffectInit, EffectQueue!AdmissionInit, EffectState, EffectScopes
<1>2. EffectInv /\ [EffectNext]_effectVars =>
        [EffectQueue!AdmissionNext]_EffectQueue!admissionVars
  BY EffectStepRefines
<1> QED BY <1>1, <1>2, EffectInvariant, PTL DEF EffectSpec, EffectsInOrder, EffectQueue!AdmissionSpec

EffectAdmission == INSTANCE OrderedAdmissionProofs WITH
                     Requests <- Operations, Scopes <- EffectScopes, Conflict <- Overlap,
                     state <- EffectState, scope <- scopeOf, rivals <- predecessors

\* So no two operations at work have a resource in common.
THEOREM EffectsApart == EffectSpec => []EffectAdmission!AdmittedApart
<1>1. EffectAdmission!ConflictAssumption
  BY DEF EffectAdmission!ConflictAssumption, Overlap
<1>2. EffectAdmission!AdmissionSpec => []EffectAdmission!AdmittedApart
  BY <1>1, EffectAdmission!NeverInConflict
<1>3. EffectQueue!AdmissionSpec => EffectAdmission!AdmissionSpec
  BY DEF EffectQueue!AdmissionSpec, EffectQueue!AdmissionInit, EffectQueue!AdmissionNext,
         EffectQueue!admissionVars, EffectQueue!Enter, EffectQueue!Leave, EffectQueue!Admit,
         EffectAdmission!AdmissionSpec, EffectAdmission!AdmissionInit, EffectAdmission!AdmissionNext,
         EffectAdmission!admissionVars, EffectAdmission!Enter, EffectAdmission!Leave, EffectAdmission!Admit
<1> QED BY <1>2, <1>3, EffectsAdmittedInOrder, PTL DEF EffectsInOrder

-----------------------------------------------------------------------------
(* KeyedSerialQueue *)

\* With o and with each member, the chain has whom that one awaits.
LEMMA ChainGoesOn ==
  ASSUME NEW before \in [SerialOperations -> SerialOperations \cup {NoOperation}], NEW o \in SerialOperations,
         NEW q \in Chain(before, o) \cup {o}, before[q] # NoOperation
  PROVE  before[q] \in Chain(before, o)
BY DEF Chain

\* Nothing smaller has.
LEMMA ChainIsLeast ==
  ASSUME NEW before \in [SerialOperations -> SerialOperations \cup {NoOperation}], NEW o \in SerialOperations,
         NEW S \in SUBSET SerialOperations,
         \A q \in S \cup {o} : before[q] # NoOperation => before[q] \in S
  PROVE  Chain(before, o) \subseteq S
BY DEF Chain

\* Nobody is before an operation that awaits nobody.
LEMMA ChainEnds ==
  ASSUME NEW before \in [SerialOperations -> SerialOperations \cup {NoOperation}], NEW o \in SerialOperations,
         before[o] = NoOperation
  PROVE  Chain(before, o) = {}
<1> DEFINE S == {}
<1>1. S \in SUBSET SerialOperations /\ \A q \in S \cup {o} : before[q] # NoOperation => before[q] \in S
  OBVIOUS
<1> HIDE DEF S
<1>2. Chain(before, o) \subseteq S
  BY <1>1, ChainIsLeast
<1> QED BY <1>2 DEF S

\* Otherwise it is whom the operation awaits, and whoever is before that one.
LEMMA ChainUnfolds ==
  ASSUME NEW before \in [SerialOperations -> SerialOperations \cup {NoOperation}], NEW o \in SerialOperations,
         before[o] # NoOperation
  PROVE  Chain(before, o) = {before[o]} \cup Chain(before, before[o])
<1> DEFINE p == before[o]
<1>1. p \in SerialOperations
  OBVIOUS
<1>2. Chain(before, o) \subseteq {p} \cup Chain(before, p)
  <2> DEFINE S == {p} \cup Chain(before, p)
  <2>1. S \in SUBSET SerialOperations
    BY <1>1 DEF Chain
  <2>2. ASSUME NEW q \in S \cup {o}, before[q] # NoOperation
        PROVE  before[q] \in S
    <3>1. CASE q = o
      BY <3>1
    <3>2. CASE q \in Chain(before, p) \cup {p}
      BY <1>1, <2>2, <3>2, ChainGoesOn
    <3> QED BY <3>1, <3>2
  <2> HIDE DEF S
  <2>3. Chain(before, o) \subseteq S
    BY <2>1, <2>2, ChainIsLeast
  <2> QED BY <2>3 DEF S
<1>3. p \in Chain(before, o)
  BY <1>1, ChainGoesOn
<1>4. Chain(before, p) \subseteq Chain(before, o)
  <2>1. Chain(before, o) \in SUBSET SerialOperations
    BY DEF Chain
  <2>2. \A q \in Chain(before, o) \cup {p} : before[q] # NoOperation => before[q] \in Chain(before, o)
    BY <1>3, ChainGoesOn
  <2> QED BY <1>1, <2>1, <2>2, ChainIsLeast
<1> QED BY <1>2, <1>3, <1>4

\* The chain depends on its members only.
LEMMA ChainStays ==
  ASSUME NEW before \in [SerialOperations -> SerialOperations \cup {NoOperation}], NEW o \in SerialOperations,
         NEW after \in [SerialOperations -> SerialOperations \cup {NoOperation}],
         \A q \in Chain(before, o) \cup {o} : after[q] = before[q]
  PROVE  Chain(after, o) = Chain(before, o)
<1>0. Chain(before, o) \in SUBSET SerialOperations /\ Chain(after, o) \in SUBSET SerialOperations
  BY DEF Chain
<1>1. \A q \in Chain(before, o) \cup {o} : after[q] # NoOperation => after[q] \in Chain(before, o)
  BY ChainGoesOn
<1>2. Chain(after, o) \subseteq Chain(before, o)
  BY <1>0, <1>1, ChainIsLeast
<1>3. \A q \in Chain(after, o) \cup {o} : before[q] # NoOperation => before[q] \in Chain(after, o)
  BY <1>2, ChainGoesOn
<1>4. Chain(before, o) \subseteq Chain(after, o)
  BY <1>0, <1>3, ChainIsLeast
<1> QED BY <1>2, <1>4

\* Who leaves the front of a chain is missing from it, and nobody else.
LEMMA ChainLosesItsHead ==
  ASSUME NEW before \in [SerialOperations -> SerialOperations \cup {NoOperation}], NEW o \in SerialOperations,
         NEW head \in SerialOperations, before[head] = NoOperation, NoOperation \notin SerialOperations,
         NEW after \in [SerialOperations -> SerialOperations \cup {NoOperation}],
         \A q \in SerialOperations : after[q] = IF before[q] = head THEN NoOperation ELSE before[q]
  PROVE  Chain(after, o) = Chain(before, o) \ {head}
<1>0. Chain(before, o) \in SUBSET SerialOperations /\ Chain(after, o) \in SUBSET SerialOperations
  BY DEF Chain
<1> DEFINE Less == Chain(before, o) \ {head}
           More == Chain(after, o) \cup {head}
<1>1. Less \in SUBSET SerialOperations /\ More \in SUBSET SerialOperations
  BY <1>0
<1>2. \A q \in Less \cup {o} : after[q] # NoOperation => after[q] \in Less
  BY <1>0, ChainGoesOn
<1>3. ASSUME NEW q \in More \cup {o}, before[q] # NoOperation
      PROVE  before[q] \in More
  <2>1. q # head /\ q \in Chain(after, o) \cup {o} /\ q \in SerialOperations
    BY <1>0, <1>3
  <2>2. CASE before[q] = head
    BY <2>2
  <2>3. CASE before[q] # head
    <3>1. after[q] = before[q]
      BY <2>1, <2>3
    <3> QED BY <1>3, <2>1, <3>1, ChainGoesOn
  <2> QED BY <2>2, <2>3
<1> HIDE DEF Less, More
<1>4. Chain(after, o) \subseteq Less
  BY <1>1, <1>2, ChainIsLeast
<1>5. Chain(before, o) \subseteq More
  BY <1>1, <1>3, ChainIsLeast
<1> QED BY <1>4, <1>5 DEF Less, More

\* Of a key, the tail and the chain before it are exactly the operations that are there;
\* only one that waits has somebody before it, who is there and has the same key.
SerialInv ==
  /\ tails \in [Keys -> SerialOperations \cup {NoOperation}]
  /\ previous \in [SerialOperations -> SerialOperations \cup {NoOperation}]
  /\ keyOf \in [SerialOperations -> Keys]
  /\ serial \in [SerialOperations -> {"idle", "waiting", "running"}]
  /\ \A o \in SerialOperations : serial[o] # "waiting" => previous[o] = NoOperation
  /\ \A o \in SerialOperations : previous[o] # NoOperation =>
       serial[previous[o]] # "idle" /\ keyOf[previous[o]] = keyOf[o]
  /\ \A k \in Keys :
       {o \in SerialOperations : serial[o] # "idle" /\ keyOf[o] = k} =
         IF tails[k] = NoOperation THEN {} ELSE {tails[k]} \cup Chain(previous, tails[k])

\* Whoever stands in the chain of an operation that is there, is there and has its key.
LEMMA ChainIsThere ==
  ASSUME SerialInv, NEW o \in SerialOperations
  PROVE  \A q \in Chain(previous, o) : q \in SerialOperations /\ serial[q] # "idle" /\ keyOf[q] = keyOf[o]
<1> DEFINE S == {q \in SerialOperations : serial[q] # "idle" /\ keyOf[q] = keyOf[o]}
<1>1. S \in SUBSET SerialOperations /\ \A q \in S \cup {o} : previous[q] # NoOperation => previous[q] \in S
  BY DEF SerialInv
<1>2. previous \in [SerialOperations -> SerialOperations \cup {NoOperation}]
  BY DEF SerialInv
<1> HIDE DEF S
<1>3. Chain(previous, o) \subseteq S
  BY <1>1, <1>2, ChainIsLeast
<1> QED BY <1>3 DEF S

\* What a call of run does to the chains: its own is everybody of its key who is there, the
\* others stay.
LEMMA RunChains ==
  ASSUME SerialInv, NEW o \in SerialOperations, NEW k \in Keys, RunSerial(o, k)
  PROVE  /\ previous' \in [SerialOperations -> SerialOperations \cup {NoOperation}]
         /\ Chain(previous', o) = {q \in SerialOperations : serial[q] # "idle" /\ keyOf[q] = k}
         /\ \A q \in SerialOperations \ {o} : Chain(previous', q) = Chain(previous, q)
<1>. USE SerialAssumption DEF SerialInv
<1>1. previous' \in [SerialOperations -> SerialOperations \cup {NoOperation}]
  BY DEF RunSerial
<1>2. \A q \in SerialOperations : previous'[q] = IF q = o THEN tails[k] ELSE previous[q]
  BY DEF RunSerial
<1>3. serial[o] = "idle"
  BY DEF RunSerial
<1>4. ASSUME NEW q \in SerialOperations \ {o} PROVE Chain(previous', q) = Chain(previous, q)
  <2>1. \A p \in Chain(previous, q) \cup {q} : p \in SerialOperations /\ p # o
    BY <1>3, ChainIsThere
  <2>2. \A p \in Chain(previous, q) \cup {q} : previous'[p] = previous[p]
    BY <1>2, <2>1
  <2> QED BY <1>1, <2>2, ChainStays
<1>5. CASE tails[k] = NoOperation
  <2>1. Chain(previous', o) = {}
    BY <1>1, <1>2, <1>5, ChainEnds
  <2> QED BY <1>1, <1>4, <1>5, <2>1
<1>6. CASE tails[k] # NoOperation
  <2>1. tails[k] \in SerialOperations \ {o}
    BY <1>3, <1>6
  <2>2. Chain(previous', o) = {tails[k]} \cup Chain(previous', tails[k])
    BY <1>1, <1>2, <2>1, ChainUnfolds
  <2> QED BY <1>1, <1>4, <1>6, <2>1, <2>2
<1> QED BY <1>5, <1>6

\* What the end of an operation does to the chains: it is missing.
LEMMA EndChains ==
  ASSUME SerialInv, NEW o \in SerialOperations, EndSerial(o)
  PROVE  /\ previous' \in [SerialOperations -> SerialOperations \cup {NoOperation}]
         /\ \A q \in SerialOperations : Chain(previous', q) = Chain(previous, q) \ {o}
<1>. USE SerialAssumption DEF SerialInv
<1>1. previous' \in [SerialOperations -> SerialOperations \cup {NoOperation}]
  BY DEF EndSerial
<1>2. \A q \in SerialOperations : previous'[q] = IF previous[q] = o THEN NoOperation ELSE previous[q]
  BY DEF EndSerial
<1>3. previous[o] = NoOperation
  BY DEF EndSerial
<1>4. PICK before : before = previous
  OBVIOUS
<1>5. PICK after : after = previous'
  OBVIOUS
<1>6. /\ before \in [SerialOperations -> SerialOperations \cup {NoOperation}]
      /\ after \in [SerialOperations -> SerialOperations \cup {NoOperation}]
      /\ before[o] = NoOperation
      /\ \A q \in SerialOperations : after[q] = IF before[q] = o THEN NoOperation ELSE before[q]
  BY <1>1, <1>2, <1>3, <1>4, <1>5
<1>7. ASSUME NEW q \in SerialOperations PROVE Chain(after, q) = Chain(before, q) \ {o}
  BY ONLY <1>6, o \in SerialOperations, NoOperation \notin SerialOperations, ChainLosesItsHead
<1> QED BY <1>1, <1>4, <1>5, <1>7

\* The invariant holds at the beginning and every step keeps it.
LEMMA SerialInvariant == SerialSpec => []SerialInv
<1>. USE SerialAssumption
<1>1. SerialInit => SerialInv
  BY DEF SerialInit, SerialInv
<1>2. ASSUME SerialInv, NEW o \in SerialOperations, NEW k \in Keys, RunSerial(o, k) PROVE SerialInv'
  <2> DEFINE There(l) == {q \in SerialOperations : serial[q] # "idle" /\ keyOf[q] = l}
  <2>1. /\ tails' \in [Keys -> SerialOperations \cup {NoOperation}]
        /\ keyOf' \in [SerialOperations -> Keys]
        /\ serial' \in [SerialOperations -> {"idle", "waiting", "running"}]
    BY <1>2 DEF SerialInv, RunSerial
  <2>2. serial[o] = "idle" /\ previous[o] = NoOperation
    BY <1>2 DEF SerialInv, RunSerial
  <2>3. \A q \in SerialOperations :
          /\ previous'[q] = IF q = o THEN tails[k] ELSE previous[q]
          /\ keyOf'[q] = IF q = o THEN k ELSE keyOf[q]
          /\ serial'[q] = IF q = o THEN "waiting" ELSE serial[q]
    BY <1>2 DEF SerialInv, RunSerial
  <2>4. \A l \in Keys : tails'[l] = IF l = k THEN o ELSE tails[l]
    BY <1>2 DEF SerialInv, RunSerial
  <2>5. \A l \in Keys : There(l)' = IF l = k THEN There(k) \cup {o} ELSE There(l)
    BY <2>2, <2>3
  <2>6. /\ previous' \in [SerialOperations -> SerialOperations \cup {NoOperation}]
        /\ Chain(previous', o) = There(k)
        /\ \A q \in SerialOperations \ {o} : Chain(previous', q) = Chain(previous, q)
    BY <1>2, RunChains
  <2>7. tails[k] # NoOperation => tails[k] \in There(k)
    BY <1>2 DEF SerialInv
  <2>8. \A q \in SerialOperations : previous'[q] # NoOperation =>
          serial'[previous'[q]] # "idle" /\ keyOf'[previous'[q]] = keyOf'[q]
    <3>1. ASSUME NEW q \in SerialOperations, previous'[q] # NoOperation
          PROVE  serial'[previous'[q]] # "idle" /\ keyOf'[previous'[q]] = keyOf'[q]
      <4>1. CASE q = o
        <5>1. previous'[q] = tails[k] /\ tails[k] \in There(k)
          BY <2>3, <2>7, <3>1, <4>1
        <5> QED BY <2>2, <2>3, <4>1, <5>1
      <4>2. CASE q # o
        <5>1. previous'[q] = previous[q] /\ previous[q] \in SerialOperations
          BY <1>2, <2>3, <3>1, <4>2 DEF SerialInv
        <5>2. serial[previous[q]] # "idle" /\ keyOf[previous[q]] = keyOf[q]
          BY <1>2, <3>1, <5>1 DEF SerialInv
        <5> QED BY <2>2, <2>3, <4>2, <5>1, <5>2
      <4> QED BY <4>1, <4>2
    <3> QED BY <3>1
  <2>9. ASSUME NEW l \in Keys
        PROVE  There(l)' = IF tails'[l] = NoOperation THEN {} ELSE {tails'[l]} \cup Chain(previous', tails'[l])
    <3>1. CASE l = k
      BY <2>4, <2>5, <2>6, <3>1
    <3>2. CASE l # k
      <4>1. There(l)' = There(l) /\ tails'[l] = tails[l]
        BY <2>4, <2>5, <3>2
      <4>2. There(l) = IF tails[l] = NoOperation THEN {} ELSE {tails[l]} \cup Chain(previous, tails[l])
        BY <1>2 DEF SerialInv
      <4>3. tails[l] # NoOperation => tails[l] \in SerialOperations \ {o}
        BY <2>2, <4>2
      <4> QED BY <2>6, <4>1, <4>2, <4>3
    <3> QED BY <3>1, <3>2
  <2>10. \A q \in SerialOperations : serial'[q] # "waiting" => previous'[q] = NoOperation
    BY <1>2, <2>3 DEF SerialInv
  <2> QED BY <2>1, <2>6, <2>8, <2>9, <2>10 DEF SerialInv
<1>3. ASSUME SerialInv, NEW o \in SerialOperations, StartSerial(o) PROVE SerialInv'
  <2>1. UNCHANGED <<tails, previous, keyOf>>
    BY <1>3 DEF StartSerial
  <2>2. \A q \in SerialOperations : serial'[q] = IF q = o THEN "running" ELSE serial[q]
    BY <1>3 DEF SerialInv, StartSerial
  <2>3. serial[o] = "waiting" /\ previous[o] = NoOperation
    BY <1>3 DEF StartSerial
  <2>4. serial' \in [SerialOperations -> {"idle", "waiting", "running"}]
    BY <1>3 DEF SerialInv, StartSerial
  <2> QED BY <1>3, <2>1, <2>2, <2>3, <2>4 DEF SerialInv
<1>4. ASSUME SerialInv, NEW o \in SerialOperations, EndSerial(o) PROVE SerialInv'
  <2> DEFINE There(l) == {q \in SerialOperations : serial[q] # "idle" /\ keyOf[q] = l}
  <2>1. /\ tails' \in [Keys -> SerialOperations \cup {NoOperation}]
        /\ keyOf' = keyOf /\ keyOf' \in [SerialOperations -> Keys]
        /\ serial' \in [SerialOperations -> {"idle", "waiting", "running"}]
    BY <1>4 DEF SerialInv, EndSerial, Forget
  <2>2. serial[o] = "running" /\ previous[o] = NoOperation
    BY <1>4 DEF SerialInv, EndSerial
  <2>3. \A q \in SerialOperations :
          /\ previous'[q] = IF previous[q] = o THEN NoOperation ELSE previous[q]
          /\ serial'[q] = IF q = o THEN "idle" ELSE serial[q]
    BY <1>4 DEF SerialInv, EndSerial
  <2>4. \A l \in Keys : tails'[l] = IF l = keyOf[o] /\ tails[l] = o THEN NoOperation ELSE tails[l]
    BY <1>4 DEF SerialInv, EndSerial, Forget
  <2>5. \A l \in Keys : There(l)' = There(l) \ {o}
    BY <2>1, <2>3
  <2>6. /\ previous' \in [SerialOperations -> SerialOperations \cup {NoOperation}]
        /\ \A q \in SerialOperations : Chain(previous', q) = Chain(previous, q) \ {o}
    BY <1>4, EndChains
  <2>7. ASSUME NEW l \in Keys
        PROVE  There(l)' = IF tails'[l] = NoOperation THEN {} ELSE {tails'[l]} \cup Chain(previous', tails'[l])
    <3>1. There(l) = IF tails[l] = NoOperation THEN {} ELSE {tails[l]} \cup Chain(previous, tails[l])
      BY <1>4 DEF SerialInv
    <3>2. CASE tails[l] = o
      <4>1. Chain(previous, o) = {}
        BY <1>4, <2>2, ChainEnds DEF SerialInv
      <4>2. o \in There(l) /\ keyOf[o] = l
        BY <3>1, <3>2, SerialAssumption
      <4> QED BY <2>4, <2>5, <3>1, <3>2, <4>1, <4>2, SerialAssumption
    <3>3. CASE tails[l] # o
      <4>1. tails'[l] = tails[l]
        BY <2>4, <3>3
      <4>2. tails[l] \in SerialOperations \cup {NoOperation}
        BY <1>4 DEF SerialInv
      <4> QED BY <2>5, <2>6, <3>1, <3>3, <4>1, <4>2
    <3> QED BY <3>2, <3>3
  <2>8. \A q \in SerialOperations : serial'[q] # "waiting" => previous'[q] = NoOperation
    BY <1>4, <2>2, <2>3 DEF SerialInv
  <2>9. \A q \in SerialOperations : previous'[q] # NoOperation =>
          serial'[previous'[q]] # "idle" /\ keyOf'[previous'[q]] = keyOf'[q]
    BY <1>4, <2>1, <2>3 DEF SerialInv
  <2> QED BY <2>1, <2>6, <2>7, <2>8, <2>9 DEF SerialInv
<1>5. ASSUME SerialInv, UNCHANGED serialVars PROVE SerialInv'
  BY <1>5 DEF SerialInv, serialVars
<1>6. SerialInv /\ [SerialNext]_serialVars => SerialInv'
  BY <1>2, <1>3, <1>4, <1>5 DEF SerialNext
<1> QED BY <1>1, <1>6, PTL DEF SerialSpec

\* A step of the queue by key is a step of the abstract queue, or none.
LEMMA SerialStepRefines ==
  ASSUME SerialInv, [SerialNext]_serialVars
  PROVE  [SerialQueue!AdmissionNext]_SerialQueue!admissionVars
<1>. USE SerialAssumption
<1>a. /\ previous \in [SerialOperations -> SerialOperations \cup {NoOperation}]
      /\ keyOf \in [SerialOperations -> Keys]
      /\ serial \in [SerialOperations -> {"idle", "waiting", "running"}]
  BY DEF SerialInv
<1>1. ASSUME NEW o \in SerialOperations, NEW k \in Keys, RunSerial(o, k)
      PROVE  SerialQueue!Enter(o, k)
  <2>1. SerialState[o] = "idle"
    BY <1>1 DEF RunSerial, SerialState
  <2>2. SerialState' = [SerialState EXCEPT ![o] = "waiting"]
    BY <1>a, <1>1 DEF RunSerial, SerialState
  <2>3. keyOf' = [keyOf EXCEPT ![o] = k]
    BY <1>1 DEF RunSerial
  <2>4. InFront' = [InFront EXCEPT ![o] = {q \in SerialOperations : serial[q] # "idle" /\ keyOf[q] = k}]
    BY <1>1, RunChains DEF InFront
  <2>5. {q \in SerialOperations : serial[q] # "idle" /\ keyOf[q] = k} =
          {q \in SerialOperations : SerialState[q] # "idle" /\ SameKey(keyOf[q], k)}
    BY DEF SerialState, SameKey
  <2>6. SerialState' = [r \in SerialOperations |->
                          IF r \in {} THEN "granted" ELSE [SerialState EXCEPT ![o] = "waiting"][r]]
    BY <2>2 DEF SerialState
  <2> DEFINE Free == {r \in SerialOperations : /\ [SerialState EXCEPT ![o] = "waiting"][r] = "waiting"
                                               /\ InFront'[r] = {}}
  <2>7. {} \in SUBSET Free
    OBVIOUS
  <2>8. \E G \in SUBSET Free :
          SerialState' = [r \in SerialOperations |->
                            IF r \in G THEN "granted" ELSE [SerialState EXCEPT ![o] = "waiting"][r]]
    BY <2>6, <2>7
  <2>9. InFront' = [InFront EXCEPT ![o] = {q \in SerialOperations : SerialState[q] # "idle" /\ SameKey(keyOf[q], k)}]
    BY <2>4, <2>5
  <2> QED BY <2>1, <2>3, <2>8, <2>9 DEF SerialQueue!Enter, SerialQueue!Admit
<1>2. ASSUME NEW o \in SerialOperations, StartSerial(o)
      PROVE  SerialQueue!Admit(SerialState, keyOf, InFront)
  <2>1. InFront[o] = {}
    BY <1>a, <1>2, ChainEnds DEF StartSerial, InFront
  <2>2. {o} \in SUBSET {r \in SerialOperations : SerialState[r] = "waiting" /\ InFront[r] = {}}
    BY <1>2, <2>1 DEF StartSerial, SerialState
  <2>3. SerialState' = [r \in SerialOperations |-> IF r \in {o} THEN "granted" ELSE SerialState[r]]
    BY <1>a, <1>2 DEF StartSerial, SerialState
  <2>4. keyOf' = keyOf /\ InFront' = InFront
    BY <1>2 DEF StartSerial, InFront
  <2> QED BY <2>2, <2>3, <2>4 DEF SerialQueue!Admit
<1>3. ASSUME NEW o \in SerialOperations, EndSerial(o)
      PROVE  SerialQueue!Leave(o, keyOf[o])
  <2>1. SerialState[o] # "idle" /\ previous[o] = NoOperation
    BY <1>3 DEF EndSerial, SerialState, SerialInv
  <2>2. SerialState' = [r \in SerialOperations |->
                          IF r \in {} THEN "granted" ELSE [SerialState EXCEPT ![o] = "idle"][r]]
    BY <1>a, <1>3 DEF EndSerial, SerialState
  <2>3. keyOf' = [keyOf EXCEPT ![o] = keyOf[o]]
    BY <1>a, <1>3 DEF EndSerial
  <2>4. Chain(previous, o) = {}
    BY <1>a, <2>1, ChainEnds
  <2>5. InFront' = [q \in SerialOperations |-> IF q = o THEN {} ELSE InFront[q] \ {o}]
    BY <1>3, <2>4, EndChains DEF InFront
  <2> QED BY <2>1, <2>2, <2>3, <2>5 DEF SerialQueue!Leave, SerialQueue!Admit
<1>4. CASE UNCHANGED serialVars
  BY <1>4 DEF serialVars, SerialQueue!admissionVars, SerialState, InFront
<1> QED BY <1>a, <1>1, <1>2, <1>3, <1>4 DEF SerialNext, SerialQueue!AdmissionNext

\* Operations of one key run one at a time and in the order in which they came, also when the
\* key is forgotten and comes back while others still wait.
THEOREM SerialAdmittedInOrder == SerialSpec => SerialInOrder
<1>1. SerialInit => SerialQueue!AdmissionInit
  <2> SUFFICES ASSUME SerialInit PROVE SerialQueue!AdmissionInit
    OBVIOUS
  <2>1. previous \in [SerialOperations -> SerialOperations \cup {NoOperation}]
        /\ \A o \in SerialOperations : previous[o] = NoOperation
    BY DEF SerialInit
  <2>2. InFront = [o \in SerialOperations |-> {}]
    BY <2>1, ChainEnds DEF InFront
  <2> QED BY <2>2, SerialAssumption DEF SerialInit, SerialQueue!AdmissionInit, SerialState
<1>2. SerialInv /\ [SerialNext]_serialVars =>
        [SerialQueue!AdmissionNext]_SerialQueue!admissionVars
  BY SerialStepRefines
<1> QED BY <1>1, <1>2, SerialInvariant, PTL DEF SerialSpec, SerialInOrder, SerialQueue!AdmissionSpec

-----------------------------------------------------------------------------
(* EventDelivery *)

\* Where the tail has passed, everybody is told, and told done exactly before the first
\* failure.
Answered ==
  /\ \A i \in DOMAIN answer : answer[i] = "open" <=> i >= turn
  /\ \A i \in DOMAIN answer : i < turn /\ (failure = 0 \/ i < failure) => answer[i] = "done"
  /\ \A i \in DOMAIN answer : i < turn /\ failure # 0 /\ i >= failure => answer[i] = "failed"
  /\ \A i \in DOMAIN write : i < turn /\ (failure = 0 \/ i < failure) => write[i] = "ok"

\* What was handed over is in step with the tail until the first failure, which is
\* behind the tail; the failed event itself may have been handed over.
InStep ==
  /\ \A k \in DOMAIN handed : handed[k] = k
  /\ failure = 0 => Len(handed) = (turn - 1) + (IF handing THEN 1 ELSE 0)
  /\ failure # 0 => failure < turn /\ ~handing /\ Len(handed) \in {failure - 1, failure}
  /\ handing => turn \in DOMAIN write /\ write[turn] = "ok"

\* Whose flush succeeded waited for events that were all done.
FlushedDone == flush.at = "done" => flush.tail < turn /\ (failure = 0 \/ flush.tail < failure)

DeliveryInv == DeliveryTypeOK /\ handed \in Seq(Nat) /\ Answered /\ InStep /\ FlushedDone

\* The invariant says what the run checks.
LEMMA DeliveryInvGives == DeliveryInv => PrefixHandedOver
<1>. SUFFICES ASSUME DeliveryInv PROVE PrefixHandedOver
  OBVIOUS
<1>. USE DEF DeliveryInv, DeliveryTypeOK, Answered, InStep, FlushedDone
<1>1. \A k \in DOMAIN handed : handed[k] = k
  OBVIOUS
<1>0. /\ Len(answer) \in Nat /\ DOMAIN answer = 1..Len(answer) /\ DOMAIN write = 1..Len(answer)
      /\ turn \in Nat /\ failure \in Nat
      /\ Len(handed) \in Nat /\ DOMAIN handed = 1..Len(handed)
  BY LenProperties
<1>2. /\ Len(handed) = (turn - 1) + (IF handing THEN 1 ELSE 0) \/ failure # 0
      /\ failure # 0 => Len(handed) <= failure
  OBVIOUS
<1>3. ASSUME NEW i \in DOMAIN answer, answer[i] = "done", NEW j \in 1..i
      PROVE  write[j] = "ok" /\ answer[j] = "done" /\ j \in DOMAIN handed
  <2>1. i < turn /\ (failure = 0 \/ i < failure)
    BY <1>3
  <2>2. j < turn /\ (failure = 0 \/ j < failure) /\ j \in DOMAIN answer /\ j \in DOMAIN write
    BY ONLY <1>0, <1>3, <2>1
  <2>3. j \in DOMAIN handed
    <3>1. CASE failure = 0
      BY ONLY InStep, <1>0, <2>2, <3>1 DEF InStep
    <3>2. CASE failure # 0
      <4>1. PICK h \in Nat : h = Len(handed)
        BY ONLY <1>0
      <4>2. h = failure - 1 \/ h = failure
        BY ONLY InStep, <3>2, <4>1 DEF InStep
      <4>3. j \in Nat /\ 1 <= j /\ j <= h
        BY ONLY <1>0, <2>2, <3>2, <4>2, h \in Nat
      <4> QED BY ONLY <1>0, <4>1, <4>3
    <3> QED BY ONLY <3>1, <3>2
  <2>4. write[j] = "ok" /\ answer[j] = "done"
    BY ONLY Answered, <2>2 DEF Answered
  <2> QED BY ONLY <2>3, <2>4
<1>4. ASSUME flush.at = "done", NEW i \in 1..flush.tail
      PROVE  answer[i] = "done"
  BY <1>4
<1> QED BY <1>1, <1>2, <1>3, <1>4 DEF PrefixHandedOver

\* It holds at the beginning.
LEMMA DeliveryInvInit == DeliveryInit => DeliveryInv
<1>. SUFFICES ASSUME DeliveryInit PROVE DeliveryInv
  OBVIOUS
<1>. USE DEF DeliveryInit
<1>1. DeliveryTypeOK
  <2>1. write \in Seq({"writing", "ok", "failed"}) /\ answer \in Seq({"open", "done", "failed"})
    OBVIOUS
  <2>2. Len(write) = 0 /\ Len(answer) = 0
    OBVIOUS
  <2>3. flush \in [at : {"none", "waiting", "done", "failed"}, tail : 0..Len(write)]
    BY <2>2
  <2>4. turn = 1 /\ failure = 0 /\ handing \in BOOLEAN /\ closed \in BOOLEAN
    BY Zenon
  <2> HIDE DEF DeliveryInit
  <2> QED BY <2>1, <2>2, <2>3, <2>4 DEF DeliveryTypeOK
<1>2. handed \in Seq(Nat)
  OBVIOUS
<1>3. Answered
  BY DEF Answered
<1>4. InStep
  BY DEF InStep
<1> QED BY <1>1, <1>2, <1>3, <1>4 DEF DeliveryInv, FlushedDone

\* An event is appended at the end.
LEMMA AppendKeeps == ASSUME DeliveryInv, AppendEvent PROVE DeliveryInv'
<1>. USE DEF DeliveryInv, DeliveryTypeOK
<1>1. /\ write' = Append(write, "writing") /\ answer' = Append(answer, "open")
      /\ UNCHANGED <<turn, handing, handed, failure, closed, flush>> /\ failure = 0
  BY DEF AppendEvent
<1>2. DeliveryTypeOK' /\ handed' \in Seq(Nat)
  BY <1>1
<1>3. Answered'
  BY <1>1 DEF Answered
<1>4. InStep'
  BY <1>1 DEF InStep
<1>5. FlushedDone'
  BY <1>1 DEF FlushedDone
<1> QED BY <1>2, <1>3, <1>4, <1>5

\* A write ends.
LEMMA WriteKeeps ==
  ASSUME DeliveryInv, NEW i \in DOMAIN write, NEW result \in {"ok", "failed"}, EndWrite(i, result)
  PROVE  DeliveryInv'
<1>. USE DEF DeliveryInv, DeliveryTypeOK
<1>1. /\ write[i] = "writing" /\ write' = [write EXCEPT ![i] = result]
      /\ UNCHANGED <<answer, turn, handing, handed, failure, closed, flush>>
  BY DEF EndWrite
<1>2. DeliveryTypeOK' /\ handed' \in Seq(Nat)
  BY <1>1
<1>3. Answered'
  BY <1>1 DEF Answered
<1>4. InStep'
  BY <1>1 DEF InStep
<1>5. FlushedDone'
  BY <1>1 DEF FlushedDone
<1> QED BY <1>2, <1>3, <1>4, <1>5

\* The task of an event begins its handover, or tells a failure.
LEMMA TaskKeeps == ASSUME DeliveryInv, NEW i \in DOMAIN write, Task(i) PROVE DeliveryInv'
<1>. USE DEF DeliveryInv, DeliveryTypeOK
<1>0. i = turn /\ ~handing /\ write[i] # "writing" /\ UNCHANGED <<write, closed, flush>>
  BY DEF Task
<1>1. CASE Stopped(i)
  <2>1. /\ answer' = [answer EXCEPT ![i] = "failed"] /\ turn' = i + 1
        /\ failure' = IF failure = 0 THEN i ELSE failure
        /\ UNCHANGED <<handing, handed>>
    BY <1>1 DEF Task, Tell
  <2>2. DeliveryTypeOK' /\ handed' \in Seq(Nat)
    BY <1>0, <2>1
  <2>3. Answered'
    BY <1>0, <2>1 DEF Answered, InStep
  <2>4. InStep'
    BY <1>0, <2>1 DEF InStep
  <2>5. FlushedDone'
    BY <1>0, <2>1 DEF FlushedDone, InStep
  <2> QED BY <2>2, <2>3, <2>4, <2>5
<1>2. CASE ~Stopped(i)
  <2>1. /\ handing' = TRUE /\ handed' = Append(handed, i) /\ UNCHANGED <<answer, turn, failure>>
        /\ failure = 0 /\ write[i] = "ok"
    BY <1>2 DEF Task, Stopped
  <2>2. DeliveryTypeOK' /\ handed' \in Seq(Nat)
    BY <1>0, <2>1
  <2>3. Answered'
    BY <1>0, <2>1 DEF Answered
  <2>4. InStep'
    BY <1>0, <2>1 DEF InStep
  <2>5. FlushedDone'
    BY <1>0, <2>1 DEF FlushedDone
  <2> QED BY <2>2, <2>3, <2>4, <2>5
<1> QED BY <1>1, <1>2

\* A handover ends.
LEMMA HandoverKeeps ==
  ASSUME DeliveryInv, NEW result \in {"done", "failed"}, EndHandover(result)
  PROVE  DeliveryInv'
<1>. USE DEF DeliveryInv, DeliveryTypeOK
<1>1. /\ handing /\ handing' = FALSE /\ answer' = [answer EXCEPT ![turn] = result] /\ turn' = turn + 1
      /\ failure' = IF result = "failed" /\ failure = 0 THEN turn ELSE failure
      /\ UNCHANGED <<write, handed, closed, flush>>
  BY DEF EndHandover, Tell
<1>2. failure = 0 /\ turn \in DOMAIN write /\ write[turn] = "ok" /\ Len(handed) = turn
  BY <1>1 DEF InStep
<1>3. DeliveryTypeOK' /\ handed' \in Seq(Nat)
  <2>1. turn \in DOMAIN answer /\ answer' \in Seq({"open", "done", "failed"}) /\ Len(answer') = Len(answer)
    BY <1>1, <1>2
  <2>2. turn' \in 1..(Len(write) + 1) /\ failure' \in 0..Len(write)
    BY <1>1, <1>2
  <2> QED BY <1>1, <2>1, <2>2
<1>4. Answered'
  BY <1>1, <1>2 DEF Answered
<1>5. InStep'
  BY <1>1, <1>2 DEF InStep
<1>6. FlushedDone'
  BY <1>1, <1>2 DEF FlushedDone
<1> QED BY <1>3, <1>4, <1>5, <1>6

\* A flush begins or answers.
LEMMA FlushKeeps ==
  ASSUME DeliveryInv, EndFlush \/ \E close \in BOOLEAN : BeginFlush(close)
  PROVE  DeliveryInv'
<1>. USE DEF DeliveryInv, DeliveryTypeOK
<1>1. UNCHANGED <<write, answer, turn, handing, handed, failure>> /\ closed' \in BOOLEAN
  BY DEF EndFlush, BeginFlush
<1>2. /\ flush' \in [at : {"none", "waiting", "done", "failed"}, tail : 0..Len(write)]
      /\ flush'.at = "done" => flush'.tail < turn /\ failure = 0
  <2>1. CASE EndFlush
    <3>1. /\ flush' = [at |-> IF failure # 0 THEN "failed" ELSE "done", tail |-> flush.tail]
          /\ turn > flush.tail
      BY <2>1 DEF EndFlush
    <3> QED BY <3>1
  <2>2. ASSUME NEW close \in BOOLEAN, BeginFlush(close)
        PROVE  flush' = [at |-> "waiting", tail |-> Len(write)]
    BY <2>2 DEF BeginFlush
  <2> QED BY <2>1, <2>2
<1>3. Answered' /\ InStep'
  BY <1>1 DEF Answered, InStep
<1> QED BY <1>1, <1>2, <1>3 DEF FlushedDone

\* What is handed over is a prefix of what was appended, and who is told done can rely on
\* everything up to its event, for any number of events.
THEOREM DeliveryKeepsOrder == DeliverySpec => []PrefixHandedOver
<1>1. DeliveryInv /\ [DeliveryNext]_deliveryVars => DeliveryInv'
  <2>1. CASE UNCHANGED deliveryVars
    BY <2>1 DEF deliveryVars, DeliveryInv, DeliveryTypeOK, Answered, InStep, FlushedDone
  <2> QED BY <2>1, AppendKeeps, WriteKeeps, TaskKeeps, HandoverKeeps, FlushKeeps
          DEF DeliveryNext, Storing, Handing
<1> QED BY <1>1, DeliveryInvInit, DeliveryInvGives, PTL DEF DeliverySpec

-----------------------------------------------------------------------------
(* Queues *)

\* A behaviour of all the queues is a behaviour of each of them.
LEMMA EachQueueBehaves ==
  FairQueues => LockManagerSpec /\ GateSpec /\ EffectSpec /\ SerialSpec /\ DeliverySpec
<1>1. QueuesInit => LockManagerInit /\ GateInit /\ EffectInit /\ SerialInit /\ DeliveryInit
  BY DEF QueuesInit
<1> USE DEF AllVars, OnlyUpdateLock, OnlyPathLocks, OnlyGate, OnlyEffects, OnlySerial, OnlyDelivery
<1>2. [QueuesNext]_AllVars => [LockManagerNext]_lockManagerVars
  BY DEF QueuesNext
<1>3. [QueuesNext]_AllVars => [GateNext]_gateVars
  BY DEF QueuesNext
<1>4. [QueuesNext]_AllVars => [EffectNext]_effectVars
  BY DEF QueuesNext
<1>5. [QueuesNext]_AllVars => [SerialNext]_serialVars
  BY DEF QueuesNext
<1>6. [QueuesNext]_AllVars => [DeliveryNext]_deliveryVars
  BY DEF QueuesNext
<1> QED BY <1>1, <1>2, <1>3, <1>4, <1>5, <1>6, PTL
        DEF FairQueues, LockManagerSpec, GateSpec, EffectSpec, SerialSpec, DeliverySpec

\* Transactions that touch a common path, commands of a project of which one writes,
\* effects on a common resource and operations of one key run one at a time, in the order
\* in which they came, whoever gives up waiting and for any number of each: the four
\* queues, as they are composed, implement the abstract one.
THEOREM QueuesAdmitInOrder == FairQueues => AdmittedInOrder
  BY EachQueueBehaves, LocksAdmittedInOrder, TasksAdmittedInOrder, EffectsAdmittedInOrder,
     SerialAdmittedInOrder, PTL DEF AdmittedInOrder

\* In the same composition the delivery hands over a prefix of what was appended.
THEOREM QueuesDeliverInOrder == FairQueues => []PrefixHandedOver
  BY EachQueueBehaves, DeliveryKeepsOrder, PTL

=============================================================================
