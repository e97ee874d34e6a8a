------------------------- MODULE RemoteNodeLinkProofs -------------------------
(* Theorems about the call runner of the node and about the link in front   *)
(* of it, for every value of their constants: what the runner and the       *)
(* connection promise, that no call is forgotten, and that the link         *)
(* implements RemoteCall.                                                   *)
EXTENDS RemoteNodeLink, FiniteSetTheorems, SubsequencesProofs

-----------------------------------------------------------------------------
(* The call runner *)

\* The cache update keeps a sequence of results.
LEMMA CacheType ==
  ASSUME RunnerTypeOK, NEW c \in CallIds, NEW s \in Status
  PROVE  /\ Stored(c, s) \in Seq(Result)
         /\ Trimmed(Stored(c, s)) \in Seq(Result)
         /\ Evicted(Stored(c, s)) \subseteq CallIds
<1>. DEFINE new == [call |-> c, status |-> s]
<1>a. completed \in Seq(Result) /\ new \in Result
  BY DEF RunnerTypeOK, Result
<1>1. Stored(c, s) \in Seq(Result)
  <2>1. CASE Cached(c)
    <3>1. completed \in [1..Len(completed) -> Result] /\ Len(completed) \in Nat
          /\ DOMAIN completed = 1..Len(completed)
      BY <1>a, LenProperties
    <3>2. [i \in DOMAIN completed |->
             IF completed[i].call = c THEN new ELSE completed[i]]
          \in [1..Len(completed) -> Result]
      BY <1>a, <3>1
    <3>3. QED  BY <2>1, <3>1, <3>2, SeqDef DEF Stored
  <2>2. CASE ~Cached(c)
    BY <1>a, <2>2, AppendProperties DEF Stored
  <2>. QED  BY <2>1, <2>2
<1>2. Trimmed(Stored(c, s)) \in Seq(Result)
  BY <1>1, RunnerAssumption DEF Trimmed
<1>3. Evicted(Stored(c, s)) \subseteq CallIds
  <2>. SUFFICES ASSUME Len(Stored(c, s)) > Capacity
                PROVE  Head(Stored(c, s)).call \in CallIds
    BY DEF Evicted
  <2>1. Stored(c, s) # <<>>
    BY <1>1, RunnerAssumption, EmptySeq
  <2>2. Head(Stored(c, s)) \in Result
    BY <1>1, <2>1, HeadTailProperties
  <2>. QED  BY <2>2 DEF Result
<1>. QED  BY <1>1, <1>2, <1>3

\* Writing one result to the cache keeps the types of the cache and of lost.
LEMMA RememberType ==
  ASSUME RunnerTypeOK, NEW c \in CallIds, NEW s \in Status, Remember(c, s)
  PROVE  completed' \in Seq(Result) /\ lost' \in SUBSET CallIds
BY CacheType DEF Remember, RunnerTypeOK

\* Nothing the cache knew is forgotten silently: an outcome that leaves the
\* cache is counted as lost, and the cache learns of no callId but the one written.
LEMMA RememberKeeps ==
  ASSUME RunnerTypeOK, NEW c \in CallIds, NEW s \in Status, Remember(c, s)
  PROVE  /\ \A d \in CallIds : Cached(d) \/ d = c => Cached(d)' \/ d \in lost'
         /\ \A d \in CallIds : Cached(d)' => Cached(d) \/ d = c
         /\ lost \subseteq lost'
<1>. DEFINE st == Stored(c, s)
            new == [call |-> c, status |-> s]
<1>1. completed \in Seq(Result) /\ st \in Seq(Result)
  BY CacheType DEF RunnerTypeOK
<1>2. completed' = Trimmed(st) /\ lost' = lost \cup Evicted(st)
  BY DEF Remember
<1>3. /\ \A i \in DOMAIN completed : i \in DOMAIN st /\ st[i].call = completed[i].call
      /\ \E i \in DOMAIN st : st[i].call = c
      /\ \A j \in DOMAIN st : st[j].call = c \/ (j \in DOMAIN completed /\ st[j].call = completed[j].call)
  <2>1. CASE Cached(c)
    <3>1. st = [i \in DOMAIN completed |->
                  IF completed[i].call = c THEN new ELSE completed[i]]
      BY <2>1 DEF Stored
    <3>2. PICK k \in DOMAIN completed : completed[k].call = c
      BY <2>1 DEF Cached
    <3>. QED  BY <3>1, <3>2
  <2>2. CASE ~Cached(c)
    <3>1. st = Append(completed, new)
      BY <2>2 DEF Stored
    <3>. QED  BY <1>1, <3>1, AppendProperties
  <2>. QED  BY <2>1, <2>2
<1>4. /\ \A j \in DOMAIN st : \/ \E k \in DOMAIN Trimmed(st) : Trimmed(st)[k] = st[j]
                              \/ st[j].call \in Evicted(st)
      /\ \A k \in DOMAIN Trimmed(st) : \E j \in DOMAIN st : st[j] = Trimmed(st)[k]
  <2>1. CASE Len(st) > Capacity
    <3>1. st # <<>> /\ Len(st) \in Nat /\ Len(st) > 0 /\ DOMAIN st = 1..Len(st)
      BY <1>1, <2>1, RunnerAssumption, EmptySeq, LenProperties DEF RunnerAssumption
    <3>2. Trimmed(st) = Tail(st) /\ Evicted(st) = {st[1].call}
      BY <2>1, <3>1, <1>1 DEF Trimmed, Evicted
    <3>3. Len(Tail(st)) = Len(st) - 1 /\ \A k \in 1..Len(Tail(st)) : Tail(st)[k] = st[k + 1]
          /\ Tail(st) \in Seq(Result)
      BY <3>1, <1>1, HeadTailProperties
    <3>4. DOMAIN Tail(st) = 1..Len(Tail(st))
      BY <3>3, LenProperties
    <3>5. ASSUME NEW j \in DOMAIN st
          PROVE  \/ \E k \in DOMAIN Trimmed(st) : Trimmed(st)[k] = st[j]
                 \/ st[j].call \in Evicted(st)
      <4>1. CASE j = 1
        BY <4>1, <3>2
      <4>2. CASE j # 1
        <5>1. j - 1 \in DOMAIN Tail(st) /\ Tail(st)[j - 1] = st[j]
          BY <4>2, <3>1, <3>3, <3>4
        <5>. QED  BY <5>1, <3>2
      <4>. QED  BY <4>1, <4>2
    <3>6. ASSUME NEW k \in DOMAIN Trimmed(st)
          PROVE  \E j \in DOMAIN st : st[j] = Trimmed(st)[k]
      <4>1. k + 1 \in DOMAIN st /\ st[k + 1] = Trimmed(st)[k]
        BY <3>1, <3>2, <3>3, <3>4
      <4>. QED  BY <4>1
    <3>. QED  BY <3>5, <3>6
  <2>2. CASE ~(Len(st) > Capacity)
    BY <2>2 DEF Trimmed
  <2>. QED  BY <2>1, <2>2
<1>. HIDE DEF st
<1>5. ASSUME NEW d \in CallIds, Cached(d) \/ d = c
      PROVE  Cached(d)' \/ d \in lost'
  <2>1. PICK j \in DOMAIN st : st[j].call = d
    BY <1>3, <1>5 DEF Cached
  <2>2. CASE \E k \in DOMAIN Trimmed(st) : Trimmed(st)[k] = st[j]
    BY <2>1, <2>2, <1>2 DEF Cached
  <2>3. CASE st[j].call \in Evicted(st)
    BY <2>1, <2>3, <1>2
  <2>. QED  BY <1>4, <2>2, <2>3
<1>6. ASSUME NEW d \in CallIds, Cached(d)'
      PROVE  Cached(d) \/ d = c
  <2>1. PICK k \in DOMAIN Trimmed(st) : Trimmed(st)[k].call = d
    BY <1>6, <1>2 DEF Cached
  <2>2. PICK j \in DOMAIN st : st[j] = Trimmed(st)[k]
    BY <1>4
  <2>. QED  BY <2>1, <2>2, <1>3 DEF Cached
<1>. QED  BY <1>2, <1>5, <1>6

\* What settling a call changes: exactly its flag, its entry in the book and the
\* records, each of them consistent again.
LEMMA SettleEffect ==
  ASSUME RunnerInv, NEW r \in Runs, NEW s \in Status,
         stage[r] \in {"waiting", "executing"}, Settle(r, s)
  PROVE  /\ owner' = owner /\ client' = client
         /\ settled' = [settled EXCEPT ![r] = TRUE]
         /\ calls' \in [CallIds -> Runs \cup {None}]
         /\ \A c \in CallIds : calls'[c] = IF calls[c] = r THEN None ELSE calls[c]
         /\ completed' \in Seq(Result) /\ lost' \in SUBSET CallIds
         /\ activity' = {c \in CallIds : calls'[c] # None}
         /\ audit' \in [Runs -> Nat] /\ sent' \in Sent \cup {None}
         /\ \A q \in Runs : audit'[q] <= 1 /\ (audit'[q] = 1 => settled'[q])
         /\ \A q \in Runs : q # r => audit'[q] = audit[q]
         /\ \A c \in CallIds : Cached(c)' => calls'[c] = None
         /\ \A q \in Runs, d \in CallIds : settled'[q] /\ owner[q] = d => Cached(d)' \/ d \in lost'
         /\ lost \subseteq lost'
<1>. USE DEF Stage
<1>0. RunnerTypeOK /\ BookConsistent /\ MemoryConsistent /\ AuditConsistent /\ ActivityMatchesBook
  BY DEF RunnerInv
<1>a. \A c \in CallIds : calls[c] # None => owner[calls[c]] = c /\ ~settled[calls[c]]
  BY <1>0 DEF BookConsistent
<1>1. CASE settled[r]
  <2>1. UNCHANGED <<calls, owner, client, settled, completed, activity, audit, lost>> /\ sent' = None
    BY <1>1 DEF Settle, book, records
  <2>2. settled' = [settled EXCEPT ![r] = TRUE]
    BY <1>0, <1>1, <2>1 DEF RunnerTypeOK
  <2>3. \A c \in CallIds : calls[c] # r
    BY <1>a, <1>1, RunnerAssumption DEF RunnerAssumption
  <2>4. \A c \in CallIds : Cached(c)' <=> Cached(c)
    BY <2>1 DEF Cached
  <2>5. settled' = settled
    BY <2>1
  <2>6. /\ calls' \in [CallIds -> Runs \cup {None}]
        /\ \A c \in CallIds : calls'[c] = IF calls[c] = r THEN None ELSE calls[c]
    BY <1>0, <2>1, <2>3 DEF RunnerTypeOK
  <2>7. completed' \in Seq(Result) /\ lost' \in SUBSET CallIds /\ lost \subseteq lost'
    BY <1>0, <2>1 DEF RunnerTypeOK
  <2>8. activity' = {c \in CallIds : calls'[c] # None}
    BY <1>0, <2>1 DEF ActivityMatchesBook
  <2>9. /\ audit' \in [Runs -> Nat] /\ sent' \in Sent \cup {None}
        /\ \A q \in Runs : audit'[q] <= 1 /\ (audit'[q] = 1 => settled'[q])
        /\ \A q \in Runs : q # r => audit'[q] = audit[q]
    BY <1>0, <2>1 DEF RunnerTypeOK, AuditConsistent
  <2>10. /\ \A c \in CallIds : Cached(c)' => calls'[c] = None
         /\ \A q \in Runs, d \in CallIds : settled'[q] /\ owner[q] = d => Cached(d)' \/ d \in lost'
    <3>1. /\ \A c \in CallIds : Cached(c) => calls[c] = None
          /\ \A q \in Runs : settled[q] => Cached(owner[q]) \/ owner[q] \in lost
      BY <1>0 DEF MemoryConsistent
    <3>. HIDE DEF Cached
    <3>. QED  BY <2>1, <2>4, <3>1
  <2>. QED
    <3>. HIDE DEF Cached
    <3>. QED  BY <2>1, <2>2, <2>6, <2>7, <2>8, <2>9, <2>10
<1>2. CASE ~settled[r]
  <2>. DEFINE c == owner[r]
  <2>1. c \in CallIds /\ client[r] \in Clients /\ calls[c] = r
    BY <1>0, <1>2 DEF BookConsistent
  <2>2. /\ settled' = [settled EXCEPT ![r] = TRUE]
        /\ calls' = [calls EXCEPT ![c] = None]
        /\ Remember(c, s)
        /\ audit' = [audit EXCEPT ![r] = @ + 1]
        /\ activity' = activity \ {c}
        /\ sent' = [to |-> client[r], call |-> c, status |-> s]
        /\ UNCHANGED <<owner, client>>
    BY <1>2 DEF Settle, Deliver
  <2>. HIDE DEF c
  <2>3. calls' \in [CallIds -> Runs \cup {None}]
        /\ \A d \in CallIds : calls'[d] = IF calls[d] = r THEN None ELSE calls[d]
    <3>1. \A d \in CallIds : calls[d] = r => d = c
      BY <1>a, RunnerAssumption DEF RunnerAssumption, c
    <3>. QED  BY <1>0, <2>1, <2>2, <3>1 DEF RunnerTypeOK
  <2>4. completed' \in Seq(Result) /\ lost' \in SUBSET CallIds
    BY <1>0, <2>1, <2>2, RememberType
  <2>5. /\ \A d \in CallIds : Cached(d) \/ d = c => Cached(d)' \/ d \in lost'
        /\ \A d \in CallIds : Cached(d)' => Cached(d) \/ d = c
        /\ lost \subseteq lost'
    <3>. HIDE DEF Cached
    <3>. QED  BY <1>0, <2>1, <2>2, RememberKeeps
  <2>6. activity' = {d \in CallIds : calls'[d] # None}
    BY <1>0, <2>1, <2>2 DEF ActivityMatchesBook, RunnerTypeOK
  <2>7. /\ audit' \in [Runs -> Nat]
        /\ \A q \in Runs : audit'[q] <= 1 /\ (audit'[q] = 1 => settled'[q])
        /\ \A q \in Runs : q # r => audit'[q] = audit[q]
    <3>1. audit[r] = 0
      BY <1>0, <1>2 DEF AuditConsistent, RunnerTypeOK
    <3>2. settled \in [Runs -> BOOLEAN] /\ audit \in [Runs -> Nat]
      BY <1>0 DEF RunnerTypeOK
    <3>3. \A q \in Runs : audit[q] <= 1 /\ (audit[q] = 1 => settled[q])
      BY <1>0 DEF AuditConsistent
    <3>. QED  BY <2>2, <3>1, <3>2, <3>3
  <2>8. sent' \in Sent \cup {None}
    BY <2>1, <2>2 DEF Sent
  <2>9. \A d \in CallIds : Cached(d)' => calls'[d] = None
    <3>. HIDE DEF Cached
    <3>1. \A d \in CallIds : Cached(d) => calls[d] = None
      BY <1>0 DEF MemoryConsistent
    <3>. QED  BY <1>0, <2>1, <2>3, <2>5, <3>1
  <2>10. \A q \in Runs, d \in CallIds : settled'[q] /\ owner[q] = d => Cached(d)' \/ d \in lost'
    <3>. HIDE DEF Cached
    <3>. SUFFICES ASSUME NEW q \in Runs, NEW d \in CallIds, settled'[q], owner[q] = d
                  PROVE  Cached(d)' \/ d \in lost'
      OBVIOUS
    <3>1. CASE q = r
      BY <2>1, <2>5, <3>1 DEF c
    <3>2. CASE q # r
      <4>1. settled[q]
        BY <1>0, <2>2, <3>2 DEF RunnerTypeOK
      <4>3. Cached(d) \/ d \in lost
        BY <1>0, <4>1 DEF MemoryConsistent
      <4>. QED  BY <2>5, <4>3
    <3>. QED  BY <3>1, <3>2
  <2>. HIDE DEF Cached
  <2>. QED  BY <2>2, <2>3, <2>4, <2>5, <2>6, <2>7, <2>8, <2>9, <2>10
<1>. QED  BY <1>1, <1>2

\* Entering the pool keeps its counter exact and its queue free of duplicates.
LEMMA EnterEffect ==
  ASSUME RunnerInv, NEW r \in Runs, stage[r] = "unused", Enter(r)
  PROVE  /\ stage' \in [Runs -> Stage] /\ active' \in Nat /\ waiting' \in Seq(Runs)
         /\ stage'[r] \in {"waiting", "executing"}
         /\ \A q \in Runs : q # r => stage'[q] = stage[q]
         /\ PoolDiscipline' /\ QueueConsistent'
<1>0. RunnerTypeOK /\ PoolDiscipline /\ QueueConsistent
  BY DEF RunnerInv
<1>t. /\ stage \in [Runs -> Stage] /\ active \in Nat /\ waiting \in Seq(Runs)
      /\ DOMAIN waiting = 1..Len(waiting) /\ Len(waiting) \in Nat
  BY <1>0, LenProperties DEF RunnerTypeOK
<1>n. Limit \in Nat
  BY RunnerAssumption DEF RunnerAssumption
<1>f. IsFiniteSet(Executing)
  BY RunnerAssumption, FS_Subset DEF RunnerAssumption, Executing
<1>1. CASE active >= Limit
  <2>1. waiting' = Append(waiting, r) /\ stage' = [stage EXCEPT ![r] = "waiting"] /\ active' = active
    BY <1>1 DEF Enter
  <2>2. /\ waiting' \in Seq(Runs) /\ Len(waiting') = Len(waiting) + 1
        /\ \A i \in 1..Len(waiting) : waiting'[i] = waiting[i]
        /\ waiting'[Len(waiting) + 1] = r
    BY <1>t, <2>1, AppendProperties
  <2>3. DOMAIN waiting' = 1..(Len(waiting) + 1)
    BY <2>2, LenProperties
  <2>4. Executing' = Executing
    BY <1>t, <2>1 DEF Executing
  <2>5. PoolDiscipline'
    BY <1>0, <1>1, <1>t, <1>n, <2>1, <2>4 DEF PoolDiscipline
  <2>6. \A i \in 1..Len(waiting) : waiting[i] # r
    BY <1>0, <1>t DEF QueueConsistent
  <2>7. QueueConsistent'
    <3>1. ASSUME NEW q \in Runs
          PROVE  stage'[q] = "waiting" <=> \E i \in DOMAIN waiting' : waiting'[i] = q
      <4>1. CASE q = r
        BY <1>t, <2>1, <2>2, <2>3, <4>1
      <4>2. CASE q # r
        <5>1. stage[q] = "waiting" <=> \E i \in DOMAIN waiting : waiting[i] = q
          BY <1>0 DEF QueueConsistent
        <5>2. (\E i \in DOMAIN waiting : waiting[i] = q) <=> \E i \in DOMAIN waiting' : waiting'[i] = q
          BY <1>t, <2>2, <2>3, <4>2
        <5>. QED  BY <1>t, <2>1, <4>2, <5>1, <5>2
      <4>. QED  BY <4>1, <4>2
    <3>2. ASSUME NEW i \in DOMAIN waiting', NEW j \in DOMAIN waiting', waiting'[i] = waiting'[j]
          PROVE  i = j
      <4>1. \A k, l \in 1..Len(waiting) : waiting[k] = waiting[l] => k = l
        BY <1>0, <1>t DEF QueueConsistent
      <4>. QED  BY <1>t, <2>2, <2>3, <2>6, <3>2, <4>1
    <3>. QED  BY <3>1, <3>2 DEF QueueConsistent
  <2>. QED  BY <1>t, <2>1, <2>2, <2>5, <2>7 DEF Stage
<1>2. CASE ~(active >= Limit)
  <2>1. active' = active + 1 /\ stage' = [stage EXCEPT ![r] = "executing"] /\ waiting' = waiting
    BY <1>2 DEF Enter
  <2>2. waiting = <<>>
    BY <1>0, <1>2, <1>t, <1>n DEF PoolDiscipline
  <2>3. Executing' = Executing \cup {r} /\ r \notin Executing
    BY <1>t, <2>1 DEF Executing
  <2>4. Cardinality(Executing') = Cardinality(Executing) + 1
    BY <1>f, <2>3, FS_AddElement
  <2>5. PoolDiscipline'
    BY <1>0, <1>2, <1>t, <1>n, <2>1, <2>2, <2>4 DEF PoolDiscipline
  <2>6. QueueConsistent'
    BY <1>0, <1>t, <2>1 DEF QueueConsistent
  <2>. QED  BY <1>t, <2>1, <2>5, <2>6 DEF Stage
<1>. QED  BY <1>1, <1>2

\* Leaving the pool: the slot passes to the first waiter whose call is open, or
\* is given back; every waiter passed over had been settled.
LEMMA LeaveEffect ==
  ASSUME RunnerInv, NEW r \in Runs, stage[r] = "executing", Leave(r)
  PROVE  /\ stage' \in [Runs -> Stage] /\ active' \in Nat /\ waiting' \in Seq(Runs)
         /\ stage'[r] = "over"
         /\ \A q \in Runs : q # r =>
              \/ stage'[q] = stage[q]
              \/ stage[q] = "waiting" /\ stage'[q] = "executing"
              \/ stage[q] = "waiting" /\ stage'[q] = "skipped" /\ settled[q]
         /\ PoolDiscipline' /\ QueueConsistent'
<1>0. RunnerTypeOK /\ PoolDiscipline /\ QueueConsistent
  BY DEF RunnerInv
<1>t. /\ stage \in [Runs -> Stage] /\ active \in Nat /\ waiting \in Seq(Runs)
      /\ DOMAIN waiting = 1..Len(waiting) /\ Len(waiting) \in Nat
      /\ \A k \in 1..Len(waiting) : waiting[k] \in Runs
      /\ settled \in [Runs -> BOOLEAN]
  BY <1>0, LenProperties, ElementOfSeq DEF RunnerTypeOK
<1>n. Limit \in Nat
  BY RunnerAssumption DEF RunnerAssumption
<1>f. IsFiniteSet(Executing) /\ r \in Executing
  BY RunnerAssumption, FS_Subset DEF RunnerAssumption, Executing
<1>q. /\ \A q \in Runs : stage[q] = "waiting" <=> \E k \in 1..Len(waiting) : waiting[k] = q
      /\ \A k, l \in 1..Len(waiting) : waiting[k] = waiting[l] => k = l
  BY <1>0, <1>t DEF QueueConsistent
<1>c. active = Cardinality(Executing) /\ active <= Limit
      /\ Cardinality(Executing \ {r}) = active - 1 /\ IsFiniteSet(Executing \ {r})
      /\ Cardinality(Executing \ {r}) \in Nat
  BY <1>0, <1>f, FS_RemoveElement, FS_CardinalityType, FS_Subset DEF PoolDiscipline
<1>1. CASE /\ Live = {} /\ active' = active - 1 /\ waiting' = <<>>
           /\ stage' = [q \in Runs |-> IF q = r THEN "over"
                                     ELSE IF stage[q] = "waiting" THEN "skipped"
                                     ELSE stage[q]]
  <2>1. ASSUME NEW q \in Runs, stage[q] = "waiting"
        PROVE  settled[q]
    <3>1. PICK k \in 1..Len(waiting) : waiting[k] = q
      BY <1>q, <2>1
    <3>. QED  BY <1>1, <1>t, <3>1 DEF Live
  <2>2. Executing' = Executing \ {r}
    BY <1>1, <1>t DEF Executing
  <2>3. PoolDiscipline'
    BY <1>1, <1>t, <1>c, <1>n, <2>2 DEF PoolDiscipline
  <2>4. QueueConsistent'
    BY <1>1 DEF QueueConsistent
  <2>5. stage' \in [Runs -> Stage] /\ active' \in Nat /\ waiting' \in Seq(Runs)
    BY <1>1, <1>t, <1>c DEF Stage
  <2>. QED  BY <1>1, <2>1, <2>3, <2>4, <2>5
<1>2. ASSUME NEW i \in Live, \A j \in Live : i <= j,
             waiting' = SubSeq(waiting, i + 1, Len(waiting)),
             stage' = [q \in Runs |-> IF q = r THEN "over"
                                    ELSE IF q = waiting[i] THEN "executing"
                                    ELSE IF \E k \in 1..(i - 1) : waiting[k] = q THEN "skipped"
                                    ELSE stage[q]],
             active' = active
      PROVE  /\ stage' \in [Runs -> Stage] /\ active' \in Nat /\ waiting' \in Seq(Runs)
             /\ stage'[r] = "over"
             /\ \A q \in Runs : q # r =>
                  \/ stage'[q] = stage[q]
                  \/ stage[q] = "waiting" /\ stage'[q] = "executing"
                  \/ stage[q] = "waiting" /\ stage'[q] = "skipped" /\ settled[q]
             /\ PoolDiscipline' /\ QueueConsistent'
  <2>1. i \in 1..Len(waiting) /\ waiting[i] \in Runs /\ stage[waiting[i]] = "waiting" /\ waiting[i] # r
    BY <1>t, <1>q DEF Live
  <2>2. \A k \in 1..(i - 1) : /\ k \in 1..Len(waiting) /\ settled[waiting[k]]
                              /\ stage[waiting[k]] = "waiting" /\ waiting[k] # waiting[i]
    <3>. TAKE k \in 1..(i - 1)
    <3>1. k \in 1..Len(waiting) /\ k < i
      BY <2>1, <1>t
    <3>2. k \notin Live
      BY <1>2, <2>1, <3>1, <1>t
    <3>. QED  BY <1>t, <1>q, <2>1, <3>1, <3>2 DEF Live
  <2>3. /\ waiting' \in Seq(Runs) /\ Len(waiting') = Len(waiting) - i
        /\ \A k \in 1..(Len(waiting) - i) : waiting'[k] = waiting[i + k]
        /\ DOMAIN waiting' = 1..(Len(waiting) - i)
    <3>1. CASE i + 1 <= Len(waiting)
      BY <1>2, <1>t, <2>1, <3>1, SubSeqProperties, LenProperties
    <3>2. CASE i = Len(waiting)
      BY <1>2, <1>t, <2>1, <3>2, SubSeqProperties, LenProperties
    <3>3. i + 1 <= Len(waiting) \/ i = Len(waiting)
      <4>1. Len(waiting) \in Nat
        BY <1>t
      <4>2. i \in 1..Len(waiting)
        BY <2>1
      <4>. QED  BY <4>1, <4>2
    <3>. QED  BY <3>1, <3>2, <3>3
  <2>4. \A q \in Runs : q # r =>
                  \/ stage'[q] = stage[q]
                  \/ stage[q] = "waiting" /\ stage'[q] = "executing"
                  \/ stage[q] = "waiting" /\ stage'[q] = "skipped" /\ settled[q]
    BY <1>2, <2>1, <2>2
  <2>5. stage' \in [Runs -> Stage]
    BY <1>2, <1>t DEF Stage
  <2>6. Executing' = (Executing \ {r}) \cup {waiting[i]} /\ waiting[i] \notin Executing \ {r}
    BY <1>2, <1>t, <2>1, <2>2 DEF Executing
  <2>7. Cardinality(Executing') = active
    <3>1. Cardinality((Executing \ {r}) \cup {waiting[i]}) = Cardinality(Executing \ {r}) + 1
      BY <1>c, <2>6, FS_AddElement
    <3>2. active \in Nat
      BY <1>t
    <3>. QED  BY <1>c, <2>6, <3>1, <3>2
  <2>8. waiting # <<>> /\ active = Limit
    BY <1>0, <1>t, <2>1 DEF PoolDiscipline
  <2>9. PoolDiscipline'
    BY <1>2, <1>c, <1>n, <2>7, <2>8 DEF PoolDiscipline
  <2>10. QueueConsistent'
    <3>1. ASSUME NEW q \in Runs
          PROVE  stage'[q] = "waiting" <=> \E k \in DOMAIN waiting' : waiting'[k] = q
      <4>1. ASSUME stage'[q] = "waiting"
            PROVE  \E k \in DOMAIN waiting' : waiting'[k] = q
        <5>1. stage[q] = "waiting" /\ q # waiting[i] /\ \A k \in 1..(i - 1) : waiting[k] # q
          BY <1>2, <4>1
        <5>2. PICK k \in 1..Len(waiting) : waiting[k] = q
          BY <1>q, <5>1
        <5>3. k - i \in 1..(Len(waiting) - i) /\ i + (k - i) = k
          BY <1>t, <2>1, <5>1, <5>2
        <5>. QED  BY <2>3, <5>2, <5>3
      <4>2. ASSUME NEW k \in DOMAIN waiting', waiting'[k] = q
            PROVE  stage'[q] = "waiting"
        <5>1. i + k \in 1..Len(waiting) /\ waiting[i + k] = q
          BY <1>t, <2>1, <2>3, <4>2
        <5>2. stage[q] = "waiting" /\ q # r
          BY <1>q, <5>1
        <5>3. q # waiting[i] /\ \A l \in 1..(i - 1) : waiting[l] # q
          BY <1>t, <1>q, <2>1, <2>3, <4>2, <5>1
        <5>. QED  BY <1>2, <5>2, <5>3
      <4>. QED  BY <4>1, <4>2
    <3>2. ASSUME NEW k \in DOMAIN waiting', NEW l \in DOMAIN waiting', waiting'[k] = waiting'[l]
          PROVE  k = l
      <4>1. i + k \in 1..Len(waiting) /\ i + l \in 1..Len(waiting) /\ waiting[i + k] = waiting[i + l]
        BY <1>t, <2>1, <2>3, <3>2
      <4>2. i + k = i + l
        BY <1>q, <4>1
      <4>. QED  BY <1>t, <2>1, <2>3, <4>2
    <3>. QED  BY <3>1, <3>2 DEF QueueConsistent
  <2>. QED  BY <1>2, <1>t, <2>3, <2>4, <2>5, <2>9, <2>10
<1>. QED  BY <1>1, <1>2 DEF Leave

-----------------------------------------------------------------------------
(* The inductive invariant, action by action. *)

LEMMA InitInv == RunnerInit => RunnerInv
<1>. SUFFICES ASSUME RunnerInit PROVE RunnerInv
  OBVIOUS
<1>. USE DEF RunnerInit
<1>1. RunnerTypeOK
  <2>1. waiting \in Seq(Runs) /\ completed \in Seq(Result)
    BY EmptySeq
  <2>2. active \in Nat /\ audit \in [Runs -> Nat]
    OBVIOUS
  <2>. QED  BY <2>1, <2>2 DEF RunnerTypeOK, Stage
<1>2. PoolDiscipline
  <2>1. Executing = {}
    BY DEF Executing
  <2>. QED  BY <2>1, FS_EmptySet, RunnerAssumption DEF PoolDiscipline, RunnerAssumption
<1>3. QueueConsistent
  BY DEF QueueConsistent
<1>4. BookConsistent
  BY DEF BookConsistent
<1>5. MemoryConsistent
  BY DEF MemoryConsistent, Cached
<1>6. AuditConsistent
  BY DEF AuditConsistent
<1>7. ActivityMatchesBook
  BY DEF ActivityMatchesBook
<1>. QED  BY <1>1, <1>2, <1>3, <1>4, <1>5, <1>6, <1>7 DEF RunnerInv

\* A step that changes nothing but the frame handed to deliver.
LEMMA QuietInv ==
  ASSUME RunnerInv, UNCHANGED <<book, pool, records, stopped>>, sent' \in Sent \cup {None}
  PROVE  RunnerInv'
BY DEF RunnerInv, RunnerTypeOK, PoolDiscipline, Executing, QueueConsistent, BookConsistent,
       MemoryConsistent, Cached, AuditConsistent, ActivityMatchesBook, book, pool, records

\* Settling alone (cancel, deadline): the pool is not touched.
LEMMA SettleInv ==
  ASSUME RunnerInv, NEW r \in Runs, NEW s \in Status,
         stage[r] \in {"waiting", "executing"}, Settle(r, s), UNCHANGED <<pool, stopped>>
  PROVE  RunnerInv'
<1>0. RunnerTypeOK /\ PoolDiscipline /\ QueueConsistent /\ BookConsistent /\ MemoryConsistent
  BY DEF RunnerInv
<1>p. stage' = stage /\ active' = active /\ waiting' = waiting /\ stopped' = stopped
  BY DEF pool
<1>s. /\ owner' = owner /\ client' = client
      /\ settled' = [settled EXCEPT ![r] = TRUE]
      /\ calls' \in [CallIds -> Runs \cup {None}]
      /\ \A c \in CallIds : calls'[c] = IF calls[c] = r THEN None ELSE calls[c]
      /\ completed' \in Seq(Result) /\ lost' \in SUBSET CallIds
      /\ activity' = {c \in CallIds : calls'[c] # None}
      /\ audit' \in [Runs -> Nat] /\ sent' \in Sent \cup {None}
      /\ \A q \in Runs : audit'[q] <= 1 /\ (audit'[q] = 1 => settled'[q])
      /\ \A q \in Runs : q # r => audit'[q] = audit[q]
      /\ \A c \in CallIds : Cached(c)' => calls'[c] = None
      /\ \A q \in Runs, d \in CallIds : settled'[q] /\ owner[q] = d => Cached(d)' \/ d \in lost'
      /\ lost \subseteq lost'
  BY SettleEffect
<1>t. settled \in [Runs -> BOOLEAN] /\ settled' \in [Runs -> BOOLEAN]
  BY <1>0, <1>s DEF RunnerTypeOK
<1>. HIDE DEF Cached
<1>1. RunnerTypeOK'
  BY <1>0, <1>p, <1>s, <1>t DEF RunnerTypeOK
<1>2. PoolDiscipline' /\ QueueConsistent'
  BY <1>0, <1>p DEF PoolDiscipline, QueueConsistent, Executing
<1>3. BookConsistent'
  BY <1>0, <1>p, <1>s, <1>t DEF BookConsistent
<1>4. MemoryConsistent'
  <2>1. \A q \in Runs : settled'[q] => owner'[q] \in CallIds
    BY <1>0, <1>p, <1>s, <1>t DEF BookConsistent
  <2>2. \A q \in Runs : settled'[q] => Cached(owner[q])' \/ owner[q] \in lost'
    BY <1>s, <2>1
  <2>. QED  BY <1>0, <1>p, <1>s, <2>1, <2>2 DEF MemoryConsistent
<1>5. AuditConsistent' /\ ActivityMatchesBook'
  BY <1>s DEF AuditConsistent, ActivityMatchesBook
<1>. QED  BY <1>1, <1>2, <1>3, <1>4, <1>5 DEF RunnerInv

LEMMA RejectStaleInv ==
  ASSUME RunnerInv, NEW c \in CallIds, NEW cl \in Clients, RejectStale(c, cl)
  PROVE  RunnerInv'
<1>0. RunnerTypeOK /\ PoolDiscipline /\ QueueConsistent /\ BookConsistent /\ MemoryConsistent
      /\ AuditConsistent /\ ActivityMatchesBook
  BY DEF RunnerInv
<1>1. /\ calls' = calls /\ owner' = owner /\ client' = client /\ settled' = settled
      /\ stage' = stage /\ active' = active /\ waiting' = waiting
      /\ activity' = activity /\ audit' = audit /\ stopped' = stopped
      /\ Remember(c, "stale") /\ calls[c] = None
      /\ sent' \in Sent
  BY DEF RejectStale, book, pool, Deliver, Sent, Status
<1>2. completed' \in Seq(Result) /\ lost' \in SUBSET CallIds
  BY <1>0, <1>1, RememberType DEF Status
<1>. HIDE DEF Cached
<1>3. /\ \A d \in CallIds : Cached(d) => Cached(d)' \/ d \in lost'
      /\ \A d \in CallIds : Cached(d)' => Cached(d) \/ d = c
      /\ lost \subseteq lost'
  BY <1>0, <1>1, RememberKeeps DEF Status
<1>4. RunnerTypeOK'
  BY <1>0, <1>1, <1>2 DEF RunnerTypeOK
<1>5. PoolDiscipline' /\ QueueConsistent' /\ BookConsistent' /\ AuditConsistent' /\ ActivityMatchesBook'
  BY <1>0, <1>1
  DEF PoolDiscipline, Executing, QueueConsistent, BookConsistent, AuditConsistent, ActivityMatchesBook
<1>6. MemoryConsistent'
  <2>1. ASSUME NEW q \in Runs, settled[q]
        PROVE  Cached(owner[q])' \/ owner[q] \in lost'
    <3>1. owner[q] \in CallIds
      BY <1>0, <2>1 DEF BookConsistent
    <3>2. Cached(owner[q]) \/ owner[q] \in lost
      BY <1>0, <2>1 DEF MemoryConsistent
    <3>3. \A d \in CallIds : d = owner[q] => Cached(d)' \/ d \in lost'
      BY <1>3, <3>2
    <3>. QED  BY <1>1, <3>1, <3>3
  <2>2. \A d \in CallIds : Cached(d)' => calls[d] = None
    BY <1>0, <1>1, <1>3 DEF MemoryConsistent
  <2>. QED  BY <1>0, <1>1, <1>3, <2>1, <2>2 DEF MemoryConsistent
<1>. QED  BY <1>4, <1>5, <1>6 DEF RunnerInv

LEMMA AcceptInv ==
  ASSUME RunnerInv, NEW c \in CallIds, NEW cl \in Clients, ~stopped, Accept(c, cl), stopped' = stopped
  PROVE  RunnerInv'
<1>0. RunnerTypeOK /\ PoolDiscipline /\ QueueConsistent /\ BookConsistent /\ MemoryConsistent
      /\ AuditConsistent /\ ActivityMatchesBook
  BY DEF RunnerInv
<1>1. PICK r \in Runs :
        /\ stage[r] = "unused"
        /\ calls' = [calls EXCEPT ![c] = r]
        /\ owner' = [owner EXCEPT ![r] = c]
        /\ client' = [client EXCEPT ![r] = cl]
        /\ Enter(r)
  BY DEF Accept
<1>2. /\ ~Cached(c) /\ calls[c] = None
      /\ activity' = activity \cup {c} /\ sent' = None
      /\ settled' = settled /\ completed' = completed /\ audit' = audit /\ lost' = lost
  BY DEF Accept
<1>3. /\ stage' \in [Runs -> Stage] /\ active' \in Nat /\ waiting' \in Seq(Runs)
      /\ stage'[r] \in {"waiting", "executing"}
      /\ \A q \in Runs : q # r => stage'[q] = stage[q]
      /\ PoolDiscipline' /\ QueueConsistent'
  BY <1>1, EnterEffect
<1>t. /\ calls \in [CallIds -> Runs \cup {None}] /\ owner \in [Runs -> CallIds \cup {None}]
      /\ client \in [Runs -> Clients \cup {None}] /\ settled \in [Runs -> BOOLEAN]
      /\ None \notin CallIds \cup Clients \cup Runs
  BY <1>0, RunnerAssumption DEF RunnerTypeOK, RunnerAssumption
<1>n. /\ \A d \in CallIds : calls'[d] = IF d = c THEN r ELSE calls[d]
      /\ \A q \in Runs : owner'[q] = IF q = r THEN c ELSE owner[q]
      /\ \A q \in Runs : client'[q] = IF q = r THEN cl ELSE client[q]
  BY <1>1, <1>t
<1>4. RunnerTypeOK'
  <2>1. calls' \in [CallIds -> Runs \cup {None}] /\ owner' \in [Runs -> CallIds \cup {None}]
        /\ client' \in [Runs -> Clients \cup {None}]
    BY <1>1, <1>t
  <2>. QED  BY <1>0, <1>2, <1>3, <2>1 DEF RunnerTypeOK
<1>b. /\ \A d \in CallIds : calls[d] # None => owner[calls[d]] = d /\ ~settled[calls[d]]
                                              /\ stage[calls[d]] \in {"waiting", "executing"}
      /\ \A q \in Runs : stage[q] = "unused" => owner[q] = None /\ ~settled[q] /\ audit[q] = 0
      /\ \A q \in Runs : stage[q] # "unused" => owner[q] \in CallIds /\ client[q] \in Clients
      /\ \A q \in Runs : stage[q] # "unused" /\ ~settled[q] => calls[owner[q]] = q
      /\ \A q \in Runs : stage[q] \in {"detached", "skipped", "over"} => settled[q]
  BY <1>0 DEF BookConsistent
<1>5. BookConsistent'
  <2>1. ASSUME NEW d \in CallIds, calls'[d] # None
        PROVE  /\ owner'[calls'[d]] = d
               /\ ~settled'[calls'[d]]
               /\ stage'[calls'[d]] \in {"waiting", "executing"}
    <3>1. CASE d = c
      BY <1>1, <1>2, <1>3, <1>n, <1>b, <3>1
    <3>2. CASE d # c
      BY <1>1, <1>2, <1>3, <1>n, <1>b, <1>t, <2>1, <3>2
    <3>. QED  BY <3>1, <3>2
  <2>2. ASSUME NEW q \in Runs
        PROVE  /\ stage'[q] # "unused" => owner'[q] \in CallIds /\ client'[q] \in Clients
               /\ stage'[q] = "unused" => owner'[q] = None /\ ~settled'[q] /\ audit'[q] = 0
               /\ stage'[q] # "unused" /\ ~settled'[q] => calls'[owner'[q]] = q
               /\ stage'[q] \in {"detached", "skipped", "over"} => settled'[q]
    <3>1. CASE q = r
      BY <1>1, <1>2, <1>3, <1>n, <1>b, <3>1
    <3>2. CASE q # r
      <4>1. stage'[q] = stage[q] /\ owner'[q] = owner[q] /\ client'[q] = client[q]
        BY <1>3, <1>n, <3>2
      <4>2. stage[q] # "unused" /\ ~settled[q] => calls'[owner[q]] = q
        BY <1>2, <1>b, <1>n, <1>t
      <4>. QED  BY <1>2, <1>b, <4>1, <4>2
    <3>. QED  BY <3>1, <3>2
  <2>. QED  BY <2>1, <2>2 DEF BookConsistent
<1>6. \A d \in CallIds : Cached(d)' <=> Cached(d)
  BY <1>2 DEF Cached
<1>. HIDE DEF Cached
<1>7. MemoryConsistent'
  <2>1. \A d \in CallIds : Cached(d) => calls'[d] = None
    BY <1>0, <1>2, <1>n DEF MemoryConsistent
  <2>2. \A q \in Runs, d \in CallIds : settled[q] /\ owner'[q] = d => Cached(d) \/ d \in lost
    BY <1>0, <1>1, <1>b, <1>n DEF MemoryConsistent
  <2>3. \A q \in Runs : settled[q] => owner'[q] \in CallIds
    BY <1>b, <1>n
  <2>4. ASSUME NEW q \in Runs, q # r, stage[q] # "unused", owner[q] = c
        PROVE  c \in lost
    <3>1. settled[q]
      BY <1>2, <1>b, <1>t, <2>4
    <3>. QED  BY <1>0, <1>2, <2>4, <3>1 DEF MemoryConsistent
  <2>5. ASSUME NEW p \in Runs, NEW q \in Runs, p # q, owner'[p] = owner'[q],
               stage'[p] # "unused", stage'[q] # "unused"
        PROVE  owner'[p] \in lost
    <3>1. CASE p = r
      BY <1>3, <1>n, <2>4, <2>5, <3>1
    <3>2. CASE q = r
      BY <1>3, <1>n, <2>4, <2>5, <3>2
    <3>3. CASE p # r /\ q # r
      BY <1>0, <1>3, <1>n, <2>5, <3>3 DEF MemoryConsistent
    <3>. QED  BY <3>1, <3>2, <3>3
  <2>. QED  BY <1>2, <1>6, <2>1, <2>2, <2>3, <2>5 DEF MemoryConsistent
<1>8. AuditConsistent' /\ ActivityMatchesBook'
  BY <1>0, <1>2, <1>n, <1>t DEF AuditConsistent, ActivityMatchesBook
<1>. QED  BY <1>3, <1>4, <1>5, <1>7, <1>8 DEF RunnerInv

LEMMA FinishInv ==
  ASSUME RunnerInv, NEW r \in Runs, NEW s \in Outcome, Finish(r, s)
  PROVE  RunnerInv'
<1>0. RunnerTypeOK /\ PoolDiscipline /\ QueueConsistent /\ BookConsistent /\ MemoryConsistent
  BY DEF RunnerInv
<1>a. stage[r] = "executing" /\ Settle(r, s) /\ Leave(r) /\ stopped' = stopped /\ s \in Status
  BY DEF Finish, Status
<1>s. /\ owner' = owner /\ client' = client
      /\ settled' = [settled EXCEPT ![r] = TRUE]
      /\ calls' \in [CallIds -> Runs \cup {None}]
      /\ \A c \in CallIds : calls'[c] = IF calls[c] = r THEN None ELSE calls[c]
      /\ completed' \in Seq(Result) /\ lost' \in SUBSET CallIds
      /\ activity' = {c \in CallIds : calls'[c] # None}
      /\ audit' \in [Runs -> Nat] /\ sent' \in Sent \cup {None}
      /\ \A q \in Runs : audit'[q] <= 1 /\ (audit'[q] = 1 => settled'[q])
      /\ \A q \in Runs : q # r => audit'[q] = audit[q]
      /\ \A c \in CallIds : Cached(c)' => calls'[c] = None
      /\ \A q \in Runs, d \in CallIds : settled'[q] /\ owner[q] = d => Cached(d)' \/ d \in lost'
      /\ lost \subseteq lost'
  BY <1>a, SettleEffect
<1>l. /\ stage' \in [Runs -> Stage] /\ active' \in Nat /\ waiting' \in Seq(Runs)
      /\ stage'[r] = "over"
      /\ \A q \in Runs : q # r =>
           \/ stage'[q] = stage[q]
           \/ stage[q] = "waiting" /\ stage'[q] = "executing"
           \/ stage[q] = "waiting" /\ stage'[q] = "skipped" /\ settled[q]
      /\ PoolDiscipline' /\ QueueConsistent'
  BY <1>a, LeaveEffect
<1>t. settled \in [Runs -> BOOLEAN] /\ settled' \in [Runs -> BOOLEAN]
      /\ settled'[r] /\ \A q \in Runs : q # r => settled'[q] = settled[q]
  BY <1>0, <1>s DEF RunnerTypeOK
<1>. HIDE DEF Cached
<1>1. RunnerTypeOK'
  BY <1>0, <1>a, <1>s, <1>l, <1>t DEF RunnerTypeOK
<1>b. /\ \A d \in CallIds : calls[d] # None => owner[calls[d]] = d /\ ~settled[calls[d]]
                                              /\ stage[calls[d]] \in {"waiting", "executing"}
                                              /\ calls[d] \in Runs
      /\ \A q \in Runs : stage[q] = "unused" => owner[q] = None /\ ~settled[q] /\ audit[q] = 0
      /\ \A q \in Runs : stage[q] # "unused" => owner[q] \in CallIds /\ client[q] \in Clients
      /\ \A q \in Runs : stage[q] # "unused" /\ ~settled[q] => calls[owner[q]] = q
      /\ \A q \in Runs : stage[q] \in {"detached", "skipped", "over"} => settled[q]
      /\ stopped => \A d \in CallIds : calls[d] = None
  BY <1>0 DEF BookConsistent, RunnerTypeOK
<1>2. BookConsistent'
  <2>1. ASSUME NEW d \in CallIds, calls'[d] # None
        PROVE  /\ owner'[calls'[d]] = d
               /\ ~settled'[calls'[d]]
               /\ stage'[calls'[d]] \in {"waiting", "executing"}
    <3>1. calls'[d] = calls[d] /\ calls[d] # r /\ calls[d] \in Runs
      BY <1>s, <1>b, <2>1
    <3>. QED  BY <1>s, <1>l, <1>t, <1>b, <3>1, <2>1
  <2>2. ASSUME NEW q \in Runs
        PROVE  /\ stage'[q] # "unused" => owner'[q] \in CallIds /\ client'[q] \in Clients
               /\ stage'[q] = "unused" => owner'[q] = None /\ ~settled'[q] /\ audit'[q] = 0
               /\ stage'[q] # "unused" /\ ~settled'[q] => calls'[owner'[q]] = q
               /\ stage'[q] \in {"detached", "skipped", "over"} => settled'[q]
    <3>1. CASE q = r
      BY <1>a, <1>b, <1>s, <1>l, <1>t, <3>1
    <3>2. CASE q # r
      <4>1. owner'[q] = owner[q] /\ client'[q] = client[q] /\ settled'[q] = settled[q]
            /\ audit'[q] = audit[q]
        BY <1>s, <1>t, <3>2
      <4>2. /\ stage'[q] = "unused" <=> stage[q] = "unused"
            /\ stage'[q] \in {"detached", "skipped", "over"} => settled[q]
        BY <1>b, <1>l, <3>2
      <4>3. stage[q] # "unused" /\ ~settled[q] => calls'[owner[q]] = q
        BY <1>b, <1>s, <3>2
      <4>. QED  BY <1>b, <4>1, <4>2, <4>3
    <3>. QED  BY <3>1, <3>2
  <2>3. stopped' => \A d \in CallIds : calls'[d] = None
    BY <1>a, <1>b, <1>s
  <2>. QED  BY <2>1, <2>2, <2>3 DEF BookConsistent
<1>3. MemoryConsistent'
  <2>1. \A q \in Runs : settled'[q] => owner'[q] \in CallIds
    BY <1>b, <1>l, <1>s, <1>t, <1>a
  <2>2. \A q \in Runs : settled'[q] => Cached(owner[q])' \/ owner[q] \in lost'
    BY <1>s, <2>1
  <2>3. \A q \in Runs : stage'[q] # "unused" => stage[q] # "unused"
    BY <1>l, <1>a
  <2>. QED  BY <1>0, <1>s, <2>2, <2>3 DEF MemoryConsistent
<1>4. AuditConsistent' /\ ActivityMatchesBook'
  BY <1>s DEF AuditConsistent, ActivityMatchesBook
<1>. QED  BY <1>1, <1>2, <1>3, <1>4, <1>l DEF RunnerInv

\* What a step that empties the book (a stop or a crash) leaves behind.
LEMMA AbortBook ==
  ASSUME RunnerInv, NEW more \in SUBSET CallIds,
         settled' = [r \in Runs |-> settled[r] \/ \E c \in CallIds : calls[c] = r],
         {c \in CallIds : calls[c] # None} \subseteq more,
         lost' = lost \cup more,
         calls' = [c \in CallIds |-> None]
  PROVE  /\ settled' \in [Runs -> BOOLEAN] /\ lost' \in SUBSET CallIds
         /\ calls' \in [CallIds -> Runs \cup {None}]
         /\ \A r \in Runs : stage[r] # "unused" => settled'[r]
         /\ \A r \in Runs : stage[r] = "unused" => ~settled'[r]
         /\ \A r \in Runs : settled'[r] => owner[r] \in CallIds
         /\ \A r \in Runs : settled[r] => settled'[r]
         /\ \A r \in Runs : settled'[r] => Cached(owner[r]) \/ owner[r] \in lost'
<1>0. RunnerTypeOK /\ BookConsistent /\ MemoryConsistent /\ None \notin Runs
  BY RunnerAssumption DEF RunnerInv, RunnerAssumption
<1>. HIDE DEF Cached
<1>t. settled \in [Runs -> BOOLEAN] /\ lost \in SUBSET CallIds
  BY <1>0 DEF RunnerTypeOK
<1>b. /\ \A d \in CallIds : calls[d] # None => owner[calls[d]] = d /\ stage[calls[d]] # "unused"
      /\ \A q \in Runs : stage[q] = "unused" => ~settled[q]
      /\ \A q \in Runs : stage[q] # "unused" => owner[q] \in CallIds
      /\ \A q \in Runs : stage[q] # "unused" /\ ~settled[q] => calls[owner[q]] = q
  BY <1>0 DEF BookConsistent
<1>1. settled' \in [Runs -> BOOLEAN] /\ lost' \in SUBSET CallIds
  BY <1>t
<1>2. \A r \in Runs : settled'[r] <=> settled[r] \/ \E c \in CallIds : calls[c] = r
  BY <1>t
<1>3. \A r \in Runs : stage[r] # "unused" => settled'[r]
  BY <1>b, <1>2
<1>4. \A r \in Runs : stage[r] = "unused" => ~settled'[r]
  BY <1>0, <1>b, <1>2
<1>5. \A r \in Runs : settled'[r] => owner[r] \in CallIds
  BY <1>b, <1>4
<1>6. ASSUME NEW r \in Runs, settled'[r]
      PROVE  Cached(owner[r]) \/ owner[r] \in lost'
  <2>1. CASE settled[r]
    BY <1>0, <2>1 DEF MemoryConsistent
  <2>2. CASE \E c \in CallIds : calls[c] = r
    BY <1>0, <1>b, <2>2
  <2>. QED  BY <1>2, <1>6, <2>1, <2>2
<1>. QED  BY <1>1, <1>2, <1>3, <1>4, <1>5, <1>6

LEMMA AbortAllInv ==
  ASSUME RunnerInv, AbortAll
  PROVE  RunnerInv'
<1>0. RunnerTypeOK /\ PoolDiscipline /\ QueueConsistent /\ BookConsistent /\ MemoryConsistent
      /\ AuditConsistent /\ ActivityMatchesBook
  BY DEF RunnerInv
<1>1. /\ stopped' = TRUE
      /\ activity' = activity \ {c \in CallIds : calls[c] # None}
      /\ calls' = [c \in CallIds |-> None]
      /\ sent' = None
      /\ owner' = owner /\ client' = client /\ stage' = stage /\ active' = active
      /\ waiting' = waiting /\ completed' = completed /\ audit' = audit
      /\ lost \subseteq lost'
  BY DEF AbortAll, pool
<1>2. /\ settled' \in [Runs -> BOOLEAN] /\ lost' \in SUBSET CallIds
      /\ calls' \in [CallIds -> Runs \cup {None}]
      /\ \A r \in Runs : stage[r] # "unused" => settled'[r]
      /\ \A r \in Runs : stage[r] = "unused" => ~settled'[r]
      /\ \A r \in Runs : settled'[r] => owner[r] \in CallIds
      /\ \A r \in Runs : settled[r] => settled'[r]
      /\ \A r \in Runs : settled'[r] => Cached(owner[r]) \/ owner[r] \in lost'
  BY AbortBook DEF AbortAll
<1>3. \A c \in CallIds : calls'[c] = None
  BY <1>1
<1>4. RunnerTypeOK'
  BY <1>0, <1>1, <1>2 DEF RunnerTypeOK
<1>5. PoolDiscipline' /\ QueueConsistent'
  BY <1>0, <1>1 DEF PoolDiscipline, QueueConsistent, Executing
<1>6. BookConsistent'
  BY <1>0, <1>1, <1>2, <1>3 DEF BookConsistent
<1>7. \A c \in CallIds : Cached(c)' <=> Cached(c)
  BY <1>1 DEF Cached
<1>8. MemoryConsistent'
  <2>. HIDE DEF Cached
  <2>1. \A q \in Runs, d \in CallIds : settled'[q] /\ owner[q] = d => Cached(d)' \/ d \in lost'
    BY <1>2, <1>7
  <2>2. \A q \in Runs : settled'[q] => Cached(owner[q])' \/ owner[q] \in lost'
    BY <1>1, <1>2, <2>1
  <2>. QED  BY <1>0, <1>1, <1>3, <2>2 DEF MemoryConsistent
<1>9. AuditConsistent' /\ ActivityMatchesBook'
  BY <1>0, <1>1, <1>2, <1>3 DEF AuditConsistent, ActivityMatchesBook
<1>. QED  BY <1>4, <1>5, <1>6, <1>8, <1>9 DEF RunnerInv

LEMMA ProcessExitInv ==
  ASSUME RunnerInv, ProcessExit
  PROVE  RunnerInv'
<1>0. RunnerTypeOK /\ PoolDiscipline /\ QueueConsistent /\ BookConsistent /\ MemoryConsistent
      /\ AuditConsistent /\ ActivityMatchesBook
  BY DEF RunnerInv
<1>1. /\ stopped' = TRUE
      /\ lost' = lost \cup {c \in CallIds : calls[c] # None \/ Cached(c)}
      /\ calls' = [c \in CallIds |-> None]
      /\ completed' = <<>> /\ active' = 0 /\ waiting' = <<>>
      /\ stage' = [r \in Runs |-> CASE stage[r] \in {"executing", "detached"} -> "over"
                                    [] stage[r] = "waiting" -> "skipped"
                                    [] OTHER -> stage[r]]
      /\ activity' = {} /\ sent' = None
      /\ owner' = owner /\ client' = client /\ audit' = audit
  BY DEF ProcessExit
<1>2. /\ settled' \in [Runs -> BOOLEAN] /\ lost' \in SUBSET CallIds
      /\ calls' \in [CallIds -> Runs \cup {None}]
      /\ \A r \in Runs : stage[r] # "unused" => settled'[r]
      /\ \A r \in Runs : stage[r] = "unused" => ~settled'[r]
      /\ \A r \in Runs : settled'[r] => owner[r] \in CallIds
      /\ \A r \in Runs : settled[r] => settled'[r]
      /\ \A r \in Runs : settled'[r] => Cached(owner[r]) \/ owner[r] \in lost'
  <2>. DEFINE more == {c \in CallIds : calls[c] # None \/ Cached(c)}
  <2>1. more \in SUBSET CallIds /\ {c \in CallIds : calls[c] # None} \subseteq more
    OBVIOUS
  <2>2. settled' = [r \in Runs |-> settled[r] \/ \E c \in CallIds : calls[c] = r]
    BY DEF ProcessExit
  <2>3. lost' = lost \cup more
    BY <1>1
  <2>. HIDE DEF more
  <2>. QED  BY <1>1, <2>1, <2>2, <2>3, AbortBook
<1>3. /\ \A c \in CallIds : calls'[c] = None /\ ~Cached(c)'
      /\ \A c \in CallIds : Cached(c) => c \in lost'
  BY <1>1 DEF Cached
<1>. HIDE DEF Cached
<1>g. /\ stage' \in [Runs -> Stage] /\ stage \in [Runs -> Stage]
      /\ \A r \in Runs : stage'[r] \notin {"waiting", "executing"}
      /\ \A r \in Runs : stage'[r] = "unused" <=> stage[r] = "unused"
  BY <1>0, <1>1 DEF RunnerTypeOK, Stage
<1>4. RunnerTypeOK'
  <2>1. waiting' \in Seq(Runs) /\ completed' \in Seq(Result) /\ active' \in Nat
    BY <1>1, EmptySeq
  <2>. QED  BY <1>0, <1>1, <1>2, <1>g, <2>1 DEF RunnerTypeOK
<1>5. PoolDiscipline' /\ QueueConsistent'
  <2>1. Executing' = {}
    BY <1>g DEF Executing
  <2>2. PoolDiscipline'
    BY <1>1, <2>1, FS_EmptySet, RunnerAssumption DEF PoolDiscipline, RunnerAssumption
  <2>3. QueueConsistent'
    BY <1>1, <1>g DEF QueueConsistent
  <2>. QED  BY <2>2, <2>3
<1>6. BookConsistent'
  BY <1>0, <1>1, <1>2, <1>3, <1>g DEF BookConsistent
<1>8. MemoryConsistent'
  <2>2. \A q \in Runs : settled'[q] => owner[q] \in lost'
    BY <1>2, <1>3
  <2>3. lost \subseteq lost'
    BY <1>1
  <2>. QED  BY <1>0, <1>1, <1>3, <1>g, <2>2, <2>3 DEF MemoryConsistent
<1>9. AuditConsistent' /\ ActivityMatchesBook'
  BY <1>0, <1>1, <1>2, <1>3 DEF AuditConsistent, ActivityMatchesBook
<1>. QED  BY <1>4, <1>5, <1>6, <1>8, <1>9 DEF RunnerInv

LEMMA NewRunnerInv ==
  ASSUME RunnerInv, NewRunner
  PROVE  RunnerInv'
<1>0. RunnerTypeOK /\ PoolDiscipline /\ QueueConsistent /\ BookConsistent /\ MemoryConsistent
      /\ AuditConsistent /\ ActivityMatchesBook
  BY DEF RunnerInv
<1>1. /\ stopped /\ stopped' = FALSE
      /\ lost' = lost \cup {c \in CallIds : Cached(c)}
      /\ completed' = <<>> /\ active' = 0 /\ waiting' = <<>>
      /\ stage' = [r \in Runs |-> CASE stage[r] = "executing" -> "detached"
                                    [] stage[r] = "waiting" -> "skipped"
                                    [] OTHER -> stage[r]]
      /\ sent' = None
      /\ calls' = calls /\ owner' = owner /\ client' = client /\ settled' = settled
      /\ activity' = activity /\ audit' = audit
  BY DEF NewRunner, book
<1>2. /\ \A c \in CallIds : ~Cached(c)'
      /\ \A c \in CallIds : Cached(c) => c \in lost'
      /\ lost' \in SUBSET CallIds /\ lost \subseteq lost'
  BY <1>0, <1>1 DEF Cached, RunnerTypeOK
<1>. HIDE DEF Cached
<1>g. /\ stage' \in [Runs -> Stage] /\ stage \in [Runs -> Stage]
      /\ \A r \in Runs : stage'[r] \notin {"waiting", "executing"}
      /\ \A r \in Runs : stage'[r] = "unused" <=> stage[r] = "unused"
  BY <1>0, <1>1 DEF RunnerTypeOK, Stage
<1>s. \A r \in Runs : stage[r] # "unused" => settled[r]
  BY <1>0, <1>1, RunnerAssumption DEF BookConsistent, RunnerAssumption
<1>4. RunnerTypeOK'
  <2>1. waiting' \in Seq(Runs) /\ completed' \in Seq(Result) /\ active' \in Nat
    BY <1>1, EmptySeq
  <2>. QED  BY <1>0, <1>1, <1>2, <1>g, <2>1 DEF RunnerTypeOK
<1>5. PoolDiscipline' /\ QueueConsistent'
  <2>1. Executing' = {}
    BY <1>g DEF Executing
  <2>2. PoolDiscipline'
    BY <1>1, <2>1, FS_EmptySet, RunnerAssumption DEF PoolDiscipline, RunnerAssumption
  <2>3. QueueConsistent'
    BY <1>1, <1>g DEF QueueConsistent
  <2>. QED  BY <2>2, <2>3
<1>6. BookConsistent'
  BY <1>0, <1>1, <1>g, <1>s DEF BookConsistent
<1>7. MemoryConsistent'
  <2>1. \A q \in Runs : settled[q] => owner[q] \in CallIds
    BY <1>0 DEF BookConsistent
  <2>2. \A q \in Runs : settled[q] => owner[q] \in lost'
    BY <1>0, <1>2, <2>1 DEF MemoryConsistent
  <2>. QED  BY <1>0, <1>1, <1>2, <1>g, <2>2 DEF MemoryConsistent
<1>8. AuditConsistent' /\ ActivityMatchesBook'
  BY <1>0, <1>1 DEF AuditConsistent, ActivityMatchesBook
<1>. QED  BY <1>4, <1>5, <1>6, <1>7, <1>8 DEF RunnerInv

LEMMA FinishDetachedInv ==
  ASSUME RunnerInv, NEW r \in Runs, FinishDetached(r)
  PROVE  RunnerInv'
<1>0. RunnerTypeOK /\ PoolDiscipline /\ QueueConsistent /\ BookConsistent /\ MemoryConsistent
      /\ AuditConsistent /\ ActivityMatchesBook
  BY DEF RunnerInv
<1>1. /\ stage[r] = "detached" /\ stage' = [stage EXCEPT ![r] = "over"] /\ sent' = None
      /\ calls' = calls /\ owner' = owner /\ client' = client /\ settled' = settled
      /\ active' = active /\ waiting' = waiting /\ stopped' = stopped
      /\ completed' = completed /\ activity' = activity /\ audit' = audit /\ lost' = lost
  BY DEF FinishDetached, book, records
<1>2. /\ stage' \in [Runs -> Stage]
      /\ \A q \in Runs : stage'[q] = IF q = r THEN "over" ELSE stage[q]
  BY <1>0, <1>1 DEF RunnerTypeOK, Stage
<1>3. RunnerTypeOK'
  BY <1>0, <1>1, <1>2 DEF RunnerTypeOK
<1>4. PoolDiscipline' /\ QueueConsistent'
  <2>1. Executing' = Executing
    BY <1>1, <1>2 DEF Executing
  <2>. QED  BY <1>0, <1>1, <1>2, <2>1 DEF PoolDiscipline, QueueConsistent
<1>5. BookConsistent'
  BY <1>0, <1>1, <1>2 DEF BookConsistent
<1>6. \A c \in CallIds \cup {None} : Cached(c)' <=> Cached(c)
  BY <1>1 DEF Cached
<1>7. MemoryConsistent'
  <2>. HIDE DEF Cached
  <2>1. \A q \in Runs : owner[q] \in CallIds \cup {None}
    BY <1>0 DEF RunnerTypeOK
  <2>2. \A q \in Runs : Cached(owner[q])' <=> Cached(owner[q])
    BY <1>1, <1>6, <2>1
  <2>. QED  BY <1>0, <1>1, <1>2, <1>6, <2>2 DEF MemoryConsistent
<1>8. AuditConsistent' /\ ActivityMatchesBook'
  BY <1>0, <1>1 DEF AuditConsistent, ActivityMatchesBook
<1>. QED  BY <1>3, <1>4, <1>5, <1>7, <1>8 DEF RunnerInv

LEMMA ForgetCompletedInv ==
  ASSUME RunnerInv, ForgetCompleted
  PROVE  RunnerInv'
<1>0. RunnerTypeOK /\ PoolDiscipline /\ QueueConsistent /\ BookConsistent /\ MemoryConsistent
      /\ AuditConsistent /\ ActivityMatchesBook
  BY DEF RunnerInv
<1>1. /\ lost' = lost \cup {c \in CallIds : Cached(c)} /\ completed' = <<>> /\ sent' = None
      /\ calls' = calls /\ owner' = owner /\ client' = client /\ settled' = settled
      /\ stage' = stage /\ active' = active /\ waiting' = waiting
      /\ activity' = activity /\ audit' = audit /\ stopped' = stopped
  BY DEF ForgetCompleted, book, pool
<1>2. /\ \A c \in CallIds : ~Cached(c)'
      /\ \A c \in CallIds : Cached(c) => c \in lost'
      /\ lost' \in SUBSET CallIds /\ lost \subseteq lost'
  BY <1>0, <1>1 DEF Cached, RunnerTypeOK
<1>. HIDE DEF Cached
<1>3. RunnerTypeOK'
  BY <1>0, <1>1, <1>2, EmptySeq DEF RunnerTypeOK
<1>4. PoolDiscipline' /\ QueueConsistent' /\ BookConsistent' /\ AuditConsistent' /\ ActivityMatchesBook'
  BY <1>0, <1>1
  DEF PoolDiscipline, Executing, QueueConsistent, BookConsistent, AuditConsistent, ActivityMatchesBook
<1>5. MemoryConsistent'
  <2>1. \A q \in Runs : settled[q] => owner[q] \in CallIds
    BY <1>0 DEF BookConsistent
  <2>2. \A q \in Runs : settled[q] => owner[q] \in lost'
    BY <1>0, <1>2, <2>1 DEF MemoryConsistent
  <2>. QED  BY <1>0, <1>1, <1>2, <2>2 DEF MemoryConsistent
<1>. QED  BY <1>3, <1>4, <1>5 DEF RunnerInv

LEMMA SubmitInv ==
  ASSUME RunnerInv, NEW c \in CallIds, NEW cl \in Clients, NEW fresh \in BOOLEAN, Submit(c, cl, fresh)
  PROVE  RunnerInv'
<1>1. CASE Replay(c, cl)
  <2>1. CachedStatus(c) \in Status
    <3>1. completed \in Seq(Result) /\ Cached(c)
      BY <1>1 DEF RunnerInv, RunnerTypeOK, Replay
    <3>2. PICK i \in DOMAIN completed : /\ completed[i].call = c
                                       /\ CachedStatus(c) = completed[i].status
      BY <3>1 DEF Cached, CachedStatus
    <3>3. completed[i] \in Result
      BY <3>1, <3>2, LenProperties, ElementOfSeq
    <3>. QED  BY <3>2, <3>3 DEF Result
  <2>2. sent' \in Sent
    BY <1>1, <2>1 DEF Replay, Deliver, Sent
  <2>. QED  BY <1>1, <2>2, QuietInv DEF Replay
<1>2. CASE Duplicate(c)
  BY <1>2, QuietInv DEF Duplicate
<1>3. CASE RejectStale(c, cl)
  BY <1>3, RejectStaleInv
<1>4. CASE Accept(c, cl)
  BY <1>4, AcceptInv DEF Submit, Accept
<1>. QED  BY <1>1, <1>2, <1>3, <1>4 DEF Submit

LEMMA CancelInv ==
  ASSUME RunnerInv, NEW c \in CallIds, Cancel(c)
  PROVE  RunnerInv'
<1>1. CASE calls[c] = None
  BY <1>1, QuietInv DEF Cancel
<1>2. CASE calls[c] # None
  <2>1. calls[c] \in Runs /\ stage[calls[c]] \in {"waiting", "executing"}
    BY <1>2 DEF RunnerInv, RunnerTypeOK, BookConsistent
  <2>2. Settle(calls[c], "cancelled") /\ UNCHANGED <<pool, stopped>> /\ "cancelled" \in Status
    BY <1>2 DEF Cancel, Status
  <2>. QED  BY <2>1, <2>2, SettleInv
<1>. QED  BY <1>1, <1>2

LEMMA DeadlineInv ==
  ASSUME RunnerInv, NEW r \in Runs, Deadline(r)
  PROVE  RunnerInv'
<1>1. stage[r] \in {"waiting", "executing"}
  BY DEF Deadline, RunnerInv, RunnerTypeOK, BookConsistent, Stage
<1>2. Settle(r, "deadline") /\ UNCHANGED <<pool, stopped>> /\ "deadline" \in Status
  BY DEF Deadline, Status
<1>. QED  BY <1>1, <1>2, SettleInv

\* Every step keeps the inductive invariant.
LEMMA NextInv == RunnerInv /\ [RunnerNext]_vars => RunnerInv'
<1>. SUFFICES ASSUME RunnerInv, [RunnerNext]_vars
              PROVE  RunnerInv'
  OBVIOUS
<1>1. CASE \E c \in CallIds, cl \in Clients, fresh \in BOOLEAN : Submit(c, cl, fresh)
  BY <1>1, SubmitInv
<1>2. CASE \E c \in CallIds : Cancel(c)
  BY <1>2, CancelInv
<1>3. CASE \E r \in Runs : Deadline(r)
  BY <1>3, DeadlineInv
<1>4. CASE \E r \in Runs, s \in Outcome : Finish(r, s)
  BY <1>4, FinishInv
<1>5. CASE AbortAll
  BY <1>5, AbortAllInv
<1>6. CASE NewRunner
  BY <1>6, NewRunnerInv
<1>7. CASE \E r \in Runs : FinishDetached(r)
  BY <1>7, FinishDetachedInv
<1>8. CASE ForgetCompleted
  BY <1>8, ForgetCompletedInv
<1>9. CASE ProcessExit
  BY <1>9, ProcessExitInv
<1>10. CASE UNCHANGED vars
  <2>1. sent' \in Sent \cup {None}
    BY <1>10 DEF vars, RunnerInv, RunnerTypeOK
  <2>. QED  BY <1>10, <2>1, QuietInv DEF vars
<1>. QED  BY <1>1, <1>2, <1>3, <1>4, <1>5, <1>6, <1>7, <1>8, <1>9, <1>10 DEF RunnerNext

-----------------------------------------------------------------------------
(* What holds of every behaviour of a runner. *)

\* The inductive invariant of the runner: book, queue, flags, cache, audit and
\* product stream agree after every handler, timer and continuation.
THEOREM RunnerInvariant == RunnerSpec => []RunnerInv
BY InitInv, NextInv, PTL DEF RunnerSpec

\* Every variable keeps its type, whatever the limits and the number of calls.
THEOREM RunnerTypes == RunnerSpec => []RunnerTypeOK
<1>1. RunnerInv => RunnerTypeOK
  BY DEF RunnerInv
<1>. QED  BY <1>1, RunnerInvariant, PTL

\* The invocation pool's counter is exact, never exceeds maxConcurrent, and no
\* task waits while a slot is free (RemoteNodeInvocationPool.run).
THEOREM PoolIsBounded == RunnerSpec => []PoolDiscipline
<1>1. RunnerInv => PoolDiscipline
  BY DEF RunnerInv
<1>. QED  BY <1>1, RunnerInvariant, PTL

\* Answer, deadline, cancel and stop race in any order: settle lets one through.
THEOREM VerdictIsUnique == RunnerSpec => []OneVerdict
<1>1. RunnerInv => OneVerdict
  BY DEF RunnerInv, AuditConsistent, OneVerdict
<1>. QED  BY <1>1, RunnerInvariant, PTL

\* A callId is executed twice only when its outcome was lost in between: the
\* precise condition of the runner's at-most-once promise.
THEOREM ExecutionIsUnique == RunnerSpec => []NoSecondExecution
<1>1. RunnerInv => NoSecondExecution
  BY DEF RunnerInv, MemoryConsistent, NoSecondExecution, Invoked
<1>. QED  BY <1>1, RunnerInvariant, PTL

\* The product stream shows exactly the calls in the book, also after a stop.
THEOREM ActivityIsExact == RunnerSpec => []ActivityMatchesBook
<1>1. RunnerInv => ActivityMatchesBook
  BY DEF RunnerInv
<1>. QED  BY <1>1, RunnerInvariant, PTL

-----------------------------------------------------------------------------
(* One verdict per callId while the cache remembers it. *)

\* The cache has one entry per callId.
CacheKeys ==
  \A i, j \in DOMAIN completed : completed[i].call = completed[j].call => i = j

\* What a step does to the cache and to the deliver callback: it repeats what the cache
\* says and leaves the cache alone or empties it, or it writes and delivers the verdict of
\* a callId that is not there.
CacheStep ==
  \/ /\ completed' \in {completed, <<>>}
     /\ sent' # None => Cached(sent'.call) /\ sent'.status = CachedStatus(sent'.call)
  \/ \E d \in CallIds, u \in Status : ~Cached(d) /\ Remember(d, u) /\ sent'.call = d

\* settle writes the verdict of a call in flight, which no result is cached for.
LEMMA SettleCacheStep ==
  ASSUME RunnerInv, NEW r \in Runs, NEW s \in Status, stage[r] # "unused", Settle(r, s)
  PROVE  CacheStep
<1>1. CASE settled[r]
  BY <1>1 DEF Settle, CacheStep, records
<1>2. CASE ~settled[r]
  <2>1. owner[r] \in CallIds /\ calls[owner[r]] = r /\ r # None
    BY <1>2, RunnerAssumption DEF RunnerInv, BookConsistent, RunnerAssumption
  <2>2. ~Cached(owner[r])
    <3>. HIDE DEF Cached
    <3>. QED  BY <2>1 DEF RunnerInv, MemoryConsistent
  <2>3. Remember(owner[r], s) /\ sent' = [to |-> client[r], call |-> owner[r], status |-> s]
    BY <1>2 DEF Settle, Deliver
  <2>4. sent'.call = owner[r]
    BY <2>3
  <2>. QED  BY <2>1, <2>2, <2>3, <2>4 DEF CacheStep
<1>. QED  BY <1>1, <1>2

\* Every step of the runner is of one of the two kinds.
LEMMA NextCacheStep == RunnerInv /\ [RunnerNext]_vars => CacheStep \/ UNCHANGED vars
<1>. SUFFICES ASSUME RunnerInv, RunnerNext PROVE CacheStep
  OBVIOUS
<1>s. Outcome \subseteq Status /\ {"cancelled", "deadline", "stale"} \subseteq Status
  BY DEF Status
<1>1. ASSUME NEW c \in CallIds, NEW cl \in Clients, NEW fresh \in BOOLEAN, Submit(c, cl, fresh)
      PROVE  CacheStep
  <2>1. CASE Replay(c, cl)
    <3>1. /\ completed' = completed /\ Cached(c)
          /\ sent' = [to |-> cl, call |-> c, status |-> CachedStatus(c)]
      BY <2>1 DEF Replay, Deliver, records
    <3>2. sent'.call = c /\ sent'.status = CachedStatus(c)
      BY <3>1
    <3>. HIDE DEF Cached, CachedStatus
    <3>. QED  BY <3>1, <3>2 DEF CacheStep
  <2>2. CASE Duplicate(c)
    BY <2>2 DEF Duplicate, CacheStep, records
  <2>3. CASE RejectStale(c, cl)
    <3>1. ~Cached(c) /\ Remember(c, "stale") /\ sent'.call = c
      BY <2>3 DEF RejectStale, Deliver
    <3>. QED  BY <1>s, <3>1 DEF CacheStep
  <2>4. CASE Accept(c, cl)
    BY <2>4 DEF Accept, CacheStep
  <2>. QED  BY <1>1, <2>1, <2>2, <2>3, <2>4 DEF Submit
<1>2. ASSUME NEW c \in CallIds, Cancel(c)
      PROVE  CacheStep
  <2>1. CASE calls[c] = None
    BY <1>2, <2>1 DEF Cancel, CacheStep, records
  <2>2. CASE calls[c] # None
    <3>1. calls[c] \in Runs /\ stage[calls[c]] # "unused"
      <4>1. calls \in [CallIds -> Runs \cup {None}]
        BY DEF RunnerInv, RunnerTypeOK
      <4>2. stage[calls[c]] \in {"waiting", "executing"}
        BY <2>2 DEF RunnerInv, BookConsistent
      <4>. QED  BY <2>2, <4>1, <4>2
    <3>2. Settle(calls[c], "cancelled")
      BY <1>2, <2>2 DEF Cancel
    <3>. QED  BY <1>s, <3>1, <3>2, SettleCacheStep
  <2>. QED  BY <2>1, <2>2
<1>3. ASSUME NEW r \in Runs, Deadline(r)
      PROVE  CacheStep
  <2>1. stage[r] # "unused" /\ Settle(r, "deadline")
    BY <1>3 DEF Deadline
  <2>. QED  BY <1>s, <2>1, SettleCacheStep
<1>4. ASSUME NEW r \in Runs, NEW s \in Outcome, Finish(r, s)
      PROVE  CacheStep
  <2>1. stage[r] # "unused" /\ Settle(r, s)
    BY <1>4 DEF Finish
  <2>. QED  BY <1>s, <2>1, SettleCacheStep
<1>5. CASE AbortAll
  BY <1>5 DEF AbortAll, CacheStep
<1>6. CASE NewRunner
  BY <1>6 DEF NewRunner, CacheStep
<1>7. ASSUME NEW r \in Runs, FinishDetached(r)
      PROVE  CacheStep
  BY <1>7 DEF FinishDetached, CacheStep, records
<1>8. CASE ForgetCompleted
  BY <1>8 DEF ForgetCompleted, CacheStep
<1>9. CASE ProcessExit
  BY <1>9 DEF ProcessExit, CacheStep
<1>. QED  BY <1>1, <1>2, <1>3, <1>4, <1>5, <1>6, <1>7, <1>8, <1>9 DEF RunnerNext

\* A new entry changes no other and is the only one of its callId.
LEMMA RememberNew ==
  ASSUME RunnerTypeOK, CacheKeys, NEW d \in CallIds, NEW u \in Status, ~Cached(d), Remember(d, u)
  PROVE  /\ CacheKeys'
         /\ \A k \in DOMAIN completed' :
              completed'[k] = [call |-> d, status |-> u] \/ \E i \in DOMAIN completed : completed[i] = completed'[k]
<1>. DEFINE new == [call |-> d, status |-> u]
            st == Append(completed, new)
<1>1. completed \in Seq(Result) /\ new \in Result
  BY DEF RunnerTypeOK, Result
<1>2. /\ st \in Seq(Result) /\ Len(st) = Len(completed) + 1 /\ Len(completed) \in Nat
      /\ DOMAIN st = 1..Len(st) /\ DOMAIN completed = 1..Len(completed)
      /\ \A i \in DOMAIN completed : st[i] = completed[i]
      /\ st[Len(st)] = new
  BY <1>1, AppendProperties, LenProperties
<1>3. \A i, j \in DOMAIN st : st[i].call = st[j].call => i = j
  <2>1. \A i \in DOMAIN completed : st[i].call # d
    BY <1>2 DEF Cached
  <2>. HIDE DEF st
  <2>2. \A i \in DOMAIN st : i \in DOMAIN completed \/ i = Len(st)
    BY <1>2
  <2>3. st[Len(st)].call = d
    BY <1>2
  <2>. QED  BY <1>2, <2>1, <2>2, <2>3 DEF CacheKeys
<1>4. \A i \in DOMAIN st : st[i] = new \/ \E j \in DOMAIN completed : completed[j] = st[i]
  <2>. HIDE DEF st
  <2>1. \A i \in DOMAIN st : i \in DOMAIN completed \/ i = Len(st)
    BY <1>2
  <2>. QED  BY <1>2, <2>1
<1>5. completed' = Trimmed(st)
  BY DEF Remember, Stored
<1>. HIDE DEF st
<1>6. CASE Len(st) > Capacity
  <2>1. st # <<>>
    BY <1>2
  <2>2. Len(Tail(st)) = Len(st) - 1 /\ \A k \in 1..Len(Tail(st)) : Tail(st)[k] = st[k + 1]
        /\ Tail(st) \in Seq(Result)
    BY <1>2, <2>1, HeadTailProperties
  <2>3. DOMAIN Tail(st) = 1..Len(Tail(st))
    BY <2>2, LenProperties
  <2>4. completed' = Tail(st)
    BY <1>5, <1>6 DEF Trimmed
  <2>5. \A k \in DOMAIN completed' : k + 1 \in DOMAIN st /\ completed'[k] = st[k + 1] /\ k \in Nat
    BY <1>2, <2>2, <2>3, <2>4
  <2>6. ASSUME NEW i \in DOMAIN completed', NEW j \in DOMAIN completed',
               completed'[i].call = completed'[j].call
        PROVE  i = j
    <3>1. i + 1 = j + 1
      BY <1>3, <2>5, <2>6
    <3>. QED  BY <2>5, <3>1
  <2>. QED  BY <1>4, <2>5, <2>6 DEF CacheKeys
<1>7. CASE ~(Len(st) > Capacity)
  BY <1>3, <1>4, <1>5, <1>7 DEF Trimmed, CacheKeys
<1>. QED  BY <1>6, <1>7

\* The cache keeps one entry per callId.
LEMMA CacheKeysStep == RunnerInv /\ CacheKeys /\ [RunnerNext]_vars => CacheKeys'
<1>. SUFFICES ASSUME RunnerInv, CacheKeys, [RunnerNext]_vars PROVE CacheKeys'
  OBVIOUS
<1>1. CASE completed' \in {completed, <<>>}
  BY <1>1 DEF CacheKeys
<1>2. CASE \E d \in CallIds, u \in Status : ~Cached(d) /\ Remember(d, u) /\ sent'.call = d
  BY <1>2, RememberNew DEF RunnerInv
<1>3. CASE UNCHANGED vars
  BY <1>3 DEF vars, records, CacheKeys
<1>. QED  BY <1>1, <1>2, <1>3, NextCacheStep DEF CacheStep

\* An entry of the cache is what the cache answers.
LEMMA CachedEntry ==
  ASSUME CacheKeys, NEW i \in DOMAIN completed
  PROVE  Cached(completed[i].call) /\ CachedStatus(completed[i].call) = completed[i].status
BY DEF CacheKeys, Cached, CachedStatus

\* While the cache holds a verdict no step replaces it or delivers another one.
LEMMA VerdictStands ==
  ASSUME RunnerInv, CacheKeys, CacheKeys', CacheStep,
         NEW c \in CallIds, NEW s \in Status, NEW t \in Status, Answered(c, s), s # t
  PROVE  /\ ~Answered(c, t)'
         /\ ~(sent' # None /\ sent'.call = c /\ sent'.status = t)
<1>1. Cached(c) /\ CachedStatus(c) = s
  BY DEF Answered
<1>2. \A i \in DOMAIN completed : completed[i].call = c => completed[i].status = s
  BY <1>1, CachedEntry
<1>3. ASSUME \A k \in DOMAIN completed' :
               completed'[k].call = c => \E i \in DOMAIN completed : completed[i] = completed'[k]
      PROVE  ~Answered(c, t)'
  <2>. SUFFICES ASSUME Answered(c, t)' PROVE FALSE
    OBVIOUS
  <2>1. \E k \in DOMAIN completed' : completed'[k].call = c
    BY DEF Answered, Cached
  <2>2. completed'[CHOOSE k \in DOMAIN completed' : completed'[k].call = c].status = t
    BY DEF Answered, CachedStatus
  <2>3. PICK k \in DOMAIN completed' : completed'[k].call = c /\ completed'[k].status = t
    BY <2>1, <2>2
  <2>. QED  BY <1>2, <1>3, <2>3
<1>4. CASE /\ completed' \in {completed, <<>>}
           /\ sent' # None => Cached(sent'.call) /\ sent'.status = CachedStatus(sent'.call)
  <2>1. \A k \in DOMAIN completed' : \E i \in DOMAIN completed : completed[i] = completed'[k]
    BY <1>4
  <2>. HIDE DEF Cached, CachedStatus
  <2>. QED  BY <1>1, <1>3, <1>4, <2>1
<1>5. ASSUME NEW d \in CallIds, NEW u \in Status, ~Cached(d), Remember(d, u), sent'.call = d
      PROVE  /\ ~Answered(c, t)'
             /\ ~(sent' # None /\ sent'.call = c /\ sent'.status = t)
  <2>1. d # c
    BY <1>1, <1>5
  <2>2. \A k \in DOMAIN completed' :
          completed'[k].call = d \/ \E i \in DOMAIN completed : completed[i] = completed'[k]
    BY <1>5, RememberNew DEF RunnerInv
  <2>. QED  BY <1>3, <1>5, <2>1, <2>2
<1>. QED  BY <1>4, <1>5 DEF CacheStep

\* Every result frame of a callId carries the verdict the cache holds, whatever answer,
\* timer, cancel or outdated revision comes later (RemoteNodeCallRunner.submit, settle).
THEOREM ResultIsTerminal == RunnerSpec => OneTerminalResult
<1>1. RunnerInit => CacheKeys
  BY DEF RunnerInit, CacheKeys
<1>2. RunnerSpec => []CacheKeys
  BY <1>1, CacheKeysStep, RunnerInvariant, PTL DEF RunnerSpec
<1>3. RunnerInv /\ CacheKeys /\ CacheKeys' /\ [RunnerNext]_vars =>
        [\A c \in CallIds, s, t \in Status :
           Answered(c, s) /\ s # t =>
             /\ ~Answered(c, t)'
             /\ ~(sent' # None /\ sent'.call = c /\ sent'.status = t)]_vars
  BY NextCacheStep, VerdictStands
<1>. QED  BY <1>2, <1>3, RunnerInvariant, PTL DEF RunnerSpec, OneTerminalResult

-----------------------------------------------------------------------------
(* The link: the inductive invariant, part by part. *)

Began(c) == \E r \in Runs : owner[r] = c /\ Invoked(r)
Decided(c) == Cached(c) \/ c \in lost
Known(c) == Decided(c) \/ \E r \in Runs : owner[r] = c

\* What the node has returned, or will return from its cache.
Reported ==
  {f \in [type : {"result"}, call : CallIds, status : Status] :
     Decided(f.call) /\ (f.status \in {"success", "denied"} => Began(f.call))}

\* Every variable keeps its type; epochs and restarts stay in step.
LinkTypes ==
  /\ LinkTypeOK
  /\ up = [n \in Conns |-> up[n]] /\ down = [n \in Conns |-> down[n]]
  /\ epoch <= restarts + 1
  /\ stopped => restarts < MaxRestarts
  /\ session # NoSession => session.epoch <= epoch

\* The phases of a connection on the node, its transport, and what the client thinks.
ConnInv ==
  /\ \A n \in Conns :
       /\ n > dialed => wire[n] = "none"
       /\ wire[n] \in {"none", "dialing"} => phase[n] = "none"
       /\ phase[n] = "none" => wire[n] \in {"none", "dialing", "cut"}
       /\ ready = n <=> phase[n] = "ready"
       /\ stopped => phase[n] \in {"none", "closed"} /\ wire[n] \in {"none", "dialing", "cut"}
       /\ cstate = "ready" /\ sock = n => phase[n] \in {"ready", "closed"}
  /\ exited => stopped
  /\ cstate = "ready" => sock # None /\ session # NoSession
  /\ cstate = "stopped" => sock = None

\* What may be on its way to the node in a phase, when the calls of a set have been on the wire.
UpFrames(ph, out) ==
  CASE ph = "hello" -> {Hello, Close("transient")}
    [] ph = "authenticate" -> {Authenticate, Close("transient")}
    [] ph = "ready" -> {Authenticate, Close("transient")}
                         \cup [type : {"invoke"}, call : out, revision : 1..MaxRevision]
                         \cup [type : {"cancel"}, call : CallIds]
    [] OTHER -> {}

Out == {c \in CallIds : dispatched[c]}

UpInv ==
  \A n \in Conns :
    /\ up[n] \in Seq(UpFrames(phase[n], Out))
    /\ phase[n] = "hello" => \A i \in DOMAIN up[n] : up[n][i] = Hello => i = 1

\* The epochs a ready frame on connection n may carry, and what may be on its way to the client.
Epochs(n) == IF wire[n] = "cut" THEN 1..epoch ELSE {epoch}

DownFrames(ph, epochs, reported) ==
  CASE ph = "authenticate" -> {Challenge}
    [] ph \in {"ready", "closed"} ->
         {Challenge, Close("transient"), Close("replaced")}
           \cup [type : {"manifest_changed"}, revision : 1..MaxRevision]
           \cup [type : {"ready"}, epoch : epochs, revision : 1..MaxRevision]
           \cup reported
    [] OTHER -> {}

DownInv == \A n \in Conns : down[n] \in Seq(DownFrames(phase[n], Epochs(n), Reported))

\* The client's ledger and what the node knows of its calls.
LedgerInv ==
  \A c \in CallIds :
    /\ Pending(c) => outcome[c] = None
    /\ dispatched[c] => Pending(c) \/ outcome[c] # None
    /\ dispatched[c] /\ Pending(c) => session # NoSession
    /\ outcome[c] = "unsent" => ~dispatched[c]
    /\ outcome[c] \in {"success", "denied", "failed"} => Decided(c)
    /\ outcome[c] \in {"success", "denied"} => Began(c)
    /\ Known(c) => dispatched[c]

\* A success or a denial in the cache is the answer of an invocation.
AnswersInv ==
  \A i \in DOMAIN completed, c \in CallIds :
    completed[i].call = c /\ completed[i].status \in {"success", "denied"} => Began(c)

\* A pending call on a live connection: still to be read, in the book, or answered.
Holds(q, type, c) == \E i \in DOMAIN q : q[i].type = type /\ q[i].call = c
Asked(c, n) == Holds(up[n], "invoke", c)
Replied(c, n) == Holds(down[n], "result", c)

TracedInv ==
  \A n \in Conns, c \in CallIds \ Oversize :
    cstate = "ready" /\ sock = n /\ ready = n /\ wire[n] = "open" /\ Pending(c)
      => Asked(c, n) \/ calls[c] # None \/ Replied(c, n)

LinkInv ==
  /\ RunnerInv /\ CacheKeys /\ AnswersInv /\ LinkTypes /\ ConnInv /\ UpInv /\ DownInv /\ LedgerInv /\ TracedInv

\* What a run rests on in which the server is never stopped and started again in one
\* process: a call whose outcome is lost has died with its process, no frame of it is
\* under way, and its client will learn so from the epoch before it writes again.
LostInv ==
  /\ stopped => exited
  /\ \A c \in CallIds : c \in lost =>
       /\ calls[c] = None /\ ~Cached(c)
       /\ \A n \in Conns : ~Asked(c, n)
       /\ Pending(c) => exited \/ session.epoch # epoch

OneRun == \A r, q \in Runs : owner[r] # None /\ owner[r] = owner[q] => r = q

-----------------------------------------------------------------------------
(* What a step of the runner means to the link. *)

\* The call objects a step adds or sets to work: one at most is new, for the call that
\* was submitted, and whoever begins to execute is not settled.
BookMoves(c) ==
  /\ \A r \in Runs : owner[r] # None => owner'[r] = owner[r]
  /\ \A r \in Runs : owner'[r] \in {owner[r], c}
  /\ \A r \in Runs : Invoked(r) => Invoked(r)'
  /\ \A r \in Runs : Invoked(r)' /\ ~Invoked(r) => stage'[r] # "unused" /\ ~settled'[r]

\* The same, as the link sees it.
Moves(c) ==
  /\ \A d \in CallIds : /\ Decided(d) => Decided(d)'
                        /\ Known(d) => Known(d)'
                        /\ Known(d)' => Known(d) \/ d = c
                        /\ Began(d) => Began(d)'
                        /\ Began(d)' => Began(d) \/ calls'[d] # None
  /\ AnswersInv'
  /\ sent' # None => [type |-> "result", call |-> sent'.call, status |-> sent'.status] \in Reported'

\* A call leaves the book with its verdict.
KeepsCalls == \A d \in CallIds : calls[d] # None => calls'[d] # None \/ (sent' # None /\ sent'.call = d)

\* Invocations as the link counts them.
LEMMA BookBegins ==
  ASSUME RunnerInv, RunnerInv', NEW c, BookMoves(c)
  PROVE  \A d \in CallIds : /\ Began(d) => Began(d)'
                            /\ Began(d)' => Began(d) \/ calls'[d] # None
                            /\ (\E r \in Runs : owner[r] = d) => \E r \in Runs : owner'[r] = d
                            /\ (\E r \in Runs : owner'[r] = d) => d = c \/ \E r \in Runs : owner[r] = d
<1>. TAKE d \in CallIds
<1>0. None \notin CallIds /\ None \notin Runs
  BY RunnerAssumption DEF RunnerAssumption
<1>1. /\ (\E r \in Runs : owner[r] = d) => \E r \in Runs : owner'[r] = d
      /\ (\E r \in Runs : owner'[r] = d) => d = c \/ \E r \in Runs : owner[r] = d
  BY <1>0 DEF BookMoves
<1>2. Began(d) => Began(d)'
  <2>. HIDE DEF Invoked
  <2>. QED  BY <1>0 DEF BookMoves, Began
<1>3. ASSUME Began(d)' PROVE Began(d) \/ calls'[d] # None
  <2>1. PICK r \in Runs : owner'[r] = d /\ Invoked(r)'
    BY <1>3 DEF Began
  <2>2. CASE Invoked(r)
    <3>1. owner[r] # None
      BY <1>0, <2>2 DEF RunnerInv, BookConsistent, Invoked
    <3>. QED  BY <2>1, <2>2, <3>1 DEF BookMoves, Began
  <2>3. CASE ~Invoked(r)
    <3>1. stage'[r] # "unused" /\ ~settled'[r]
      BY <2>1, <2>3 DEF BookMoves
    <3>2. calls'[d] = r
      BY <2>1, <3>1 DEF RunnerInv, BookConsistent
    <3>. QED  BY <1>0, <3>2
  <2>. QED  BY <2>2, <2>3
<1>. QED  BY <1>1, <1>2, <1>3

\* A step that leaves the cache as it is and hands over, if anything, what is in it.
LEMMA RepeatMoves ==
  ASSUME RunnerInv, RunnerInv', AnswersInv, NEW c, BookMoves(c),
         completed' = completed, lost' = lost,
         sent' # None => \E i \in DOMAIN completed : /\ sent'.call = completed[i].call
                                                    /\ sent'.status = completed[i].status
  PROVE  Moves(c)
<1>1. \A d \in CallIds : /\ Began(d) => Began(d)'
                         /\ Began(d)' => Began(d) \/ calls'[d] # None
                         /\ (\E r \in Runs : owner[r] = d) => \E r \in Runs : owner'[r] = d
                         /\ (\E r \in Runs : owner'[r] = d) => d = c \/ \E r \in Runs : owner[r] = d
  BY BookBegins
<1>2. \A d : Decided(d) <=> Decided(d)'
  BY DEF Decided, Cached
<1>3. completed \in Seq(Result)
  BY DEF RunnerInv, RunnerTypeOK
<1>4. \A i \in DOMAIN completed : completed[i] \in Result /\ completed[i].call \in CallIds /\ completed[i].status \in Status
  <2>1. \A i \in DOMAIN completed : completed[i] \in Result
    BY <1>3, LenProperties, ElementOfSeq
  <2>. QED  BY <2>1 DEF Result
<1>. HIDE DEF Began
<1>5. AnswersInv'
  BY <1>1, <1>4 DEF AnswersInv
<1>6. ASSUME sent' # None
      PROVE  [type |-> "result", call |-> sent'.call, status |-> sent'.status] \in Reported'
  <2>1. PICK i \in DOMAIN completed : /\ sent'.call = completed[i].call
                                     /\ sent'.status = completed[i].status
    BY <1>6
  <2>2. PICK e \in CallIds : e = completed[i].call
    BY <1>4
  <2>3. Decided(e)'
    BY <1>2, <2>2 DEF Decided, Cached
  <2>4. sent'.status \in {"success", "denied"} => Began(e)'
    BY <1>1, <1>4, <2>1, <2>2 DEF AnswersInv
  <2>5. ASSUME NEW t \in Status, t = sent'.status
        PROVE  [type |-> "result", call |-> e, status |-> t] \in Reported'
    <3>. HIDE DEF Decided
    <3>. QED  BY <2>3, <2>4, <2>5 DEF Reported
  <2>. QED  BY <1>4, <2>1, <2>2, <2>5
<1>. HIDE DEF Decided
<1>7. \A d \in CallIds : /\ Known(d) => Known(d)'
                         /\ Known(d)' => Known(d) \/ d = c
  BY <1>1, <1>2 DEF Known
<1>. QED  BY <1>1, <1>2, <1>5, <1>6, <1>7 DEF Moves

\* A step that writes a verdict to the cache and hands it over.
LEMMA WriteMoves ==
  ASSUME RunnerInv, RunnerInv', CacheKeys, AnswersInv, NEW c, BookMoves(c),
         NEW d \in CallIds, Known(d) \/ d = c, NEW s \in Status, ~Cached(d), Remember(d, s),
         s \in {"success", "denied"} => Began(d)',
         sent'.call = d, sent'.status = s
  PROVE  Moves(c)
<1>1. \A e \in CallIds : /\ Began(e) => Began(e)'
                         /\ Began(e)' => Began(e) \/ calls'[e] # None
                         /\ (\E r \in Runs : owner[r] = e) => \E r \in Runs : owner'[r] = e
                         /\ (\E r \in Runs : owner'[r] = e) => e = c \/ \E r \in Runs : owner[r] = e
  BY BookBegins
<1>t. RunnerTypeOK
  BY DEF RunnerInv
<1>2. /\ \A e \in CallIds : Cached(e) \/ e = d => Cached(e)' \/ e \in lost'
      /\ \A e \in CallIds : Cached(e)' => Cached(e) \/ e = d
      /\ lost \subseteq lost'
  BY <1>t, RememberKeeps
<1>3. \A e \in CallIds : e \in lost' => Known(e) \/ e = c
  <2>1. Evicted(Stored(d, s)) \subseteq {e \in CallIds : Cached(e) \/ e = d}
    <3>1. Stored(d, s) = Append(completed, [call |-> d, status |-> s])
      BY DEF Stored
    <3>2. completed \in Seq(Result) /\ [call |-> d, status |-> s] \in Result
      BY <1>t DEF RunnerTypeOK, Result
    <3>3. PICK q : q = Stored(d, s)
      OBVIOUS
    <3>4. PICK x \in Result : x = [call |-> d, status |-> s]
      BY <3>2
    <3>5. /\ q \in Seq(Result) /\ Len(q) = Len(completed) + 1 /\ Len(completed) \in Nat
          /\ \A i \in 1..Len(completed) : q[i] = completed[i]
          /\ q[Len(completed) + 1] = x
          /\ DOMAIN completed = 1..Len(completed)
      BY <3>1, <3>2, <3>3, <3>4, AppendProperties, LenProperties
    <3>6. q # <<>> /\ Head(q) = q[1] /\ q[1] \in Result
      BY <3>5, EmptySeq, HeadTailProperties
    <3>7. q[1] = x \/ \E i \in DOMAIN completed : completed[i] = q[1]
      BY <3>5
    <3>8. Head(q).call \in CallIds /\ (Cached(Head(q).call) \/ Head(q).call = d)
      BY <3>4, <3>6, <3>7 DEF Cached, Result
    <3>. HIDE DEF Cached
    <3>. QED  BY <3>3, <3>8 DEF Evicted
  <2>2. lost' = lost \cup Evicted(Stored(d, s))
    BY DEF Remember
  <2>. HIDE DEF Cached
  <2>. QED  BY <2>1, <2>2 DEF Known, Decided
<1>4. \A k \in DOMAIN completed' :
              completed'[k] = [call |-> d, status |-> s] \/ \E i \in DOMAIN completed : completed[i] = completed'[k]
  BY <1>t, RememberNew
<1>5. completed \in Seq(Result)
  BY <1>t DEF RunnerTypeOK
<1>6. \A i \in DOMAIN completed : completed[i] \in Result /\ completed[i].call \in CallIds
  <2>1. \A i \in DOMAIN completed : completed[i] \in Result
    BY <1>5, LenProperties, ElementOfSeq
  <2>. QED  BY <2>1 DEF Result
<1>. HIDE DEF Began, Cached
<1>7. AnswersInv'
  <2>. SUFFICES ASSUME NEW k \in DOMAIN completed', NEW e \in CallIds, completed'[k].call = e,
                       completed'[k].status \in {"success", "denied"}
                PROVE  Began(e)'
    BY DEF AnswersInv
  <2>1. CASE completed'[k] = [call |-> d, status |-> s]
    <3>1. e = d /\ completed'[k].status = s
      BY <2>1
    <3>. QED  BY <3>1
  <2>2. CASE \E i \in DOMAIN completed : completed[i] = completed'[k]
    <3>1. PICK i \in DOMAIN completed : completed[i] = completed'[k]
      BY <2>2
    <3>. QED  BY <1>1, <3>1 DEF AnswersInv
  <2>. QED  BY <1>4, <2>1, <2>2
<1>8. Decided(d)'
  BY <1>2 DEF Decided
<1>9. [type |-> "result", call |-> sent'.call, status |-> sent'.status] \in Reported'
  <2>1. [type |-> "result", call |-> d, status |-> s] \in Reported'
    <3>. HIDE DEF Decided
    <3>. QED  BY <1>8 DEF Reported
  <2>. QED  BY <2>1
<1>10. \A e \in CallIds : /\ Decided(e) => Decided(e)'
                          /\ Known(e) => Known(e)'
                          /\ Known(e)' => Known(e) \/ e = c
  BY <1>1, <1>2, <1>3 DEF Known, Decided
<1>. HIDE DEF Known, Decided
<1>. QED  BY <1>1, <1>7, <1>9, <1>10 DEF Moves

\* A step that forgets outcomes, and hands nothing over.
LEMMA ForgetMoves ==
  ASSUME RunnerInv, RunnerInv', AnswersInv, NEW c, BookMoves(c),
         completed' \in {completed, <<>>}, sent' = None,
         \A d \in CallIds : Decided(d) => Decided(d)',
         \A d \in CallIds : d \in lost' => Known(d)
  PROVE  Moves(c)
<1>1. \A d \in CallIds : /\ Began(d) => Began(d)'
                         /\ Began(d)' => Began(d) \/ calls'[d] # None
                         /\ (\E r \in Runs : owner[r] = d) => \E r \in Runs : owner'[r] = d
                         /\ (\E r \in Runs : owner'[r] = d) => d = c \/ \E r \in Runs : owner[r] = d
  BY BookBegins
<1>2. \A d \in CallIds : Cached(d)' => Cached(d)
  BY DEF Cached
<1>. HIDE DEF Began
<1>3. AnswersInv'
  BY <1>1 DEF AnswersInv
<1>. HIDE DEF Cached
<1>4. \A d \in CallIds : Decided(d)' => Known(d)
  BY <1>2 DEF Known, Decided
<1>. HIDE DEF Decided
<1>5. \A d \in CallIds : /\ Known(d) => Known(d)'
                         /\ Known(d)' => Known(d) \/ d = c
  BY <1>1, <1>4 DEF Known
<1>. QED  BY <1>1, <1>3, <1>5 DEF Moves

\* settle: the verdict of a call in flight is written and handed over, a late one is not.
LEMMA SettleMoves ==
  ASSUME RunnerInv, RunnerInv', CacheKeys, AnswersInv, NEW c, BookMoves(c),
         NEW r \in Runs, stage[r] # "unused", NEW s \in Status, Settle(r, s),
         s \in {"success", "denied"} => Invoked(r)'
  PROVE  Moves(c) /\ KeepsCalls
<1>1. CASE settled[r]
  <2>1. sent' = None /\ completed' = completed /\ lost' = lost /\ calls' = calls
    BY <1>1 DEF Settle, book, records
  <2>. QED  BY <2>1, RepeatMoves DEF KeepsCalls
<1>2. CASE ~settled[r]
  <2>1. PICK d \in CallIds : d = owner[r] /\ calls[d] = r
    BY <1>2 DEF RunnerInv, BookConsistent
  <2>2. r # None /\ d # None
    BY RunnerAssumption DEF RunnerAssumption
  <2>3. ~Cached(d)
    BY <2>1, <2>2 DEF RunnerInv, MemoryConsistent
  <2>4. /\ Remember(d, s) /\ sent' = [to |-> client[r], call |-> d, status |-> s]
        /\ calls' = [calls EXCEPT ![d] = None] /\ owner' = owner
    BY <1>2, <2>1 DEF Settle, Deliver
  <2>5. Known(d)
    BY <2>1 DEF Known
  <2>6. s \in {"success", "denied"} => Began(d)'
    BY <2>1, <2>4 DEF Began
  <2>7. Moves(c)
    BY <2>3, <2>4, <2>5, <2>6, WriteMoves
  <2>8. sent' # None
    <3>1. sent' = [to |-> client[r], call |-> d, status |-> s] /\ client[r] \in Clients
      BY <2>4 DEF RunnerInv, BookConsistent
    <3>. QED  BY <3>1, LinkAssumption DEF LinkAssumption, Sent
  <2>9. KeepsCalls
    BY <2>4, <2>8 DEF KeepsCalls, RunnerInv, RunnerTypeOK
  <2>. QED  BY <2>7, <2>9
<1>. QED  BY <1>1, <1>2

\* Nothing begins, no call object appears.
LEMMA BookStays ==
  ASSUME RunnerInv, UNCHANGED <<owner, stage>>, NEW c
  PROVE  BookMoves(c)
BY DEF BookMoves, Invoked

LEMMA SubmitMoves ==
  ASSUME RunnerInv, CacheKeys, AnswersInv, NEW c \in CallIds, NEW cl \in Clients, NEW fresh \in BOOLEAN,
         Submit(c, cl, fresh)
  PROVE  /\ Moves(c) /\ KeepsCalls /\ stopped' = stopped
         /\ calls'[c] # None \/ (sent' # None /\ sent'.call = c)
<1>0. RunnerInv'
  BY SubmitInv
<1>n. None \notin Runs /\ RunnerTypeOK
  BY RunnerAssumption DEF RunnerAssumption, RunnerInv
<1>1. CASE Replay(c, cl)
  <2>1. /\ completed' = completed /\ lost' = lost /\ owner' = owner /\ stage' = stage /\ calls' = calls
        /\ stopped' = stopped /\ Cached(c)
        /\ sent' = [to |-> cl, call |-> c, status |-> CachedStatus(c)]
    BY <1>1 DEF Replay, Deliver, book, pool, records
  <2>2. PICK i \in DOMAIN completed : completed[i].call = c /\ CachedStatus(c) = completed[i].status
    BY <2>1 DEF Cached, CachedStatus
  <2>3. Moves(c)
    BY <1>0, <2>1, <2>2, BookStays, RepeatMoves
  <2>4. sent' # None
    <3>1. CachedStatus(c) \in Status
      <4>1. completed \in Seq(Result)
        BY <1>n DEF RunnerTypeOK
      <4>2. completed[i] \in Result
        BY <2>2, <4>1, LenProperties, ElementOfSeq
      <4>. QED  BY <2>2, <4>2 DEF Result
    <3>. QED  BY <2>1, <3>1, LinkAssumption DEF LinkAssumption, Sent
  <2>. QED  BY <2>1, <2>3, <2>4 DEF KeepsCalls
<1>2. CASE Duplicate(c)
  <2>1. /\ completed' = completed /\ lost' = lost /\ owner' = owner /\ stage' = stage /\ calls' = calls
        /\ stopped' = stopped /\ sent' = None /\ calls[c] # None
    BY <1>2 DEF Duplicate, book, pool, records
  <2>2. Moves(c)
    BY <1>0, <2>1, BookStays, RepeatMoves
  <2>. QED  BY <2>1, <2>2 DEF KeepsCalls
<1>3. CASE RejectStale(c, cl)
  <2>1. /\ Remember(c, "stale") /\ ~Cached(c) /\ owner' = owner /\ stage' = stage /\ calls' = calls
        /\ stopped' = stopped /\ sent' = [to |-> cl, call |-> c, status |-> "stale"]
    BY <1>3 DEF RejectStale, Deliver, book, pool
  <2>2. Moves(c)
    BY <1>0, <2>1, BookStays, WriteMoves DEF Status
  <2>3. sent' # None
    BY <2>1, LinkAssumption DEF LinkAssumption, Sent, Status
  <2>. QED  BY <2>1, <2>2, <2>3 DEF KeepsCalls
<1>4. CASE Accept(c, cl)
  <2>1. PICK r \in Runs :
          /\ stage[r] = "unused"
          /\ calls' = [calls EXCEPT ![c] = r]
          /\ owner' = [owner EXCEPT ![r] = c]
          /\ Enter(r)
    BY <1>4 DEF Accept
  <2>2. /\ completed' = completed /\ lost' = lost /\ settled' = settled /\ sent' = None /\ stopped' = stopped
    BY <1>4 DEF Accept
  <2>3. /\ stage'[r] \in {"waiting", "executing"}
        /\ \A q \in Runs : q # r => stage'[q] = stage[q]
    BY <2>1, EnterEffect
  <2>4. owner[r] = None /\ ~settled[r]
    BY <2>1 DEF RunnerInv, BookConsistent
  <2>5. BookMoves(c)
    BY <1>n, <2>1, <2>2, <2>3, <2>4 DEF BookMoves, Invoked, RunnerTypeOK
  <2>6. Moves(c)
    BY <1>0, <2>2, <2>5, RepeatMoves
  <2>7. KeepsCalls /\ calls'[c] # None
    BY <1>n, <2>1 DEF KeepsCalls, RunnerTypeOK
  <2>. QED  BY <2>2, <2>6, <2>7
<1>. QED  BY <1>1, <1>2, <1>3, <1>4 DEF Submit

LEMMA CancelMoves ==
  ASSUME RunnerInv, CacheKeys, AnswersInv, NEW c \in CallIds, Cancel(c)
  PROVE  Moves(None) /\ KeepsCalls /\ stopped' = stopped
<1>0. RunnerInv'
  BY CancelInv
<1>1. stage' = stage /\ owner' = owner /\ stopped' = stopped
  BY DEF Cancel, Settle, pool, book
<1>2. CASE calls[c] = None
  <2>1. sent' = None /\ completed' = completed /\ lost' = lost /\ calls' = calls
    BY <1>2 DEF Cancel, book, records
  <2>. QED  BY <1>0, <1>1, <2>1, BookStays, RepeatMoves DEF KeepsCalls
<1>3. CASE calls[c] # None
  <2>1. calls[c] \in Runs /\ stage[calls[c]] # "unused"
    <3>1. calls \in [CallIds -> Runs \cup {None}]
      BY DEF RunnerInv, RunnerTypeOK
    <3>2. stage[calls[c]] \in {"waiting", "executing"}
      BY <1>3 DEF RunnerInv, BookConsistent
    <3>. QED  BY <1>3, <3>1, <3>2
  <2>2. Settle(calls[c], "cancelled") /\ "cancelled" \in Status
    BY <1>3 DEF Cancel, Status
  <2>. QED  BY <1>0, <1>1, <2>1, <2>2, BookStays, SettleMoves
<1>. QED  BY <1>2, <1>3

LEMMA DeadlineMoves ==
  ASSUME RunnerInv, CacheKeys, AnswersInv, NEW r \in Runs, Deadline(r)
  PROVE  Moves(None) /\ KeepsCalls /\ stopped' = stopped
<1>0. RunnerInv'
  BY DeadlineInv
<1>1. stage' = stage /\ owner' = owner /\ stopped' = stopped
  BY DEF Deadline, Settle, pool, book
<1>2. stage[r] # "unused" /\ Settle(r, "deadline") /\ "deadline" \in Status
  BY DEF Deadline, Status
<1>. QED  BY <1>0, <1>1, <1>2, BookStays, SettleMoves

LEMMA FinishMoves ==
  ASSUME RunnerInv, CacheKeys, AnswersInv, NEW r \in Runs, NEW s \in Outcome, Finish(r, s)
  PROVE  Moves(None) /\ KeepsCalls /\ stopped' = stopped
<1>0. RunnerInv' /\ s \in Status
  BY FinishInv DEF Status
<1>1. stage[r] = "executing" /\ Settle(r, s) /\ Leave(r) /\ stopped' = stopped
  BY DEF Finish
<1>2. /\ stage'[r] = "over"
      /\ \A q \in Runs : q # r =>
              \/ stage'[q] = stage[q]
              \/ stage[q] = "waiting" /\ stage'[q] = "executing"
              \/ stage[q] = "waiting" /\ stage'[q] = "skipped" /\ settled[q]
  BY <1>1, LeaveEffect
<1>3. owner' = owner
  BY <1>1 DEF Settle, book
<1>4. \A q \in Runs : stage[q] = "waiting" /\ stage'[q] = "executing" => ~settled'[q]
  <2>. SUFFICES ASSUME NEW q \in Runs, stage[q] = "waiting", stage'[q] = "executing", settled'[q]
                PROVE  FALSE
    OBVIOUS
  <2>1. settled[q]
    <3>1. q # r
      BY <1>1
    <3>. QED  BY <1>1, <3>1 DEF Settle, book, RunnerInv, RunnerTypeOK
  <2>2. \A i \in DOMAIN waiting : waiting[i] = q => i \notin Live
    BY <2>1 DEF Live
  <2>. QED  BY <1>1, <2>2 DEF Leave, Live
<1>5. BookMoves(None)
  BY <1>1, <1>2, <1>3, <1>4 DEF BookMoves, Invoked
<1>. QED  BY <1>0, <1>1, <1>2, <1>5, SettleMoves DEF Invoked

LEMMA FinishDetachedMoves ==
  ASSUME RunnerInv, CacheKeys, AnswersInv, NEW r \in Runs, FinishDetached(r)
  PROVE  Moves(None) /\ KeepsCalls /\ stopped' = stopped
<1>0. RunnerInv'
  BY FinishDetachedInv
<1>1. /\ stage' = [stage EXCEPT ![r] = "over"] /\ stage[r] = "detached"
      /\ sent' = None /\ completed' = completed /\ lost' = lost /\ owner' = owner /\ calls' = calls
      /\ stopped' = stopped
  BY DEF FinishDetached, book, records
<1>2. BookMoves(None)
  BY <1>1 DEF BookMoves, Invoked, RunnerInv, RunnerTypeOK
<1>. QED  BY <1>0, <1>1, <1>2, RepeatMoves DEF KeepsCalls

LEMMA AbortAllMoves ==
  ASSUME RunnerInv, AnswersInv, AbortAll
  PROVE  Moves(None) /\ stopped'
<1>0. RunnerInv'
  BY AbortAllInv
<1>1. /\ stage' = stage /\ owner' = owner /\ completed' = completed /\ sent' = None /\ stopped'
      /\ lost' = lost \cup {c \in CallIds : calls[c] # None}
  BY DEF AbortAll, pool
<1>2. BookMoves(None)
  BY <1>1, BookStays
<1>3. \A d \in CallIds : Decided(d) => Decided(d)'
  BY <1>1 DEF Decided, Cached
<1>4. \A d \in CallIds : d \in lost' => Known(d)
  BY <1>1 DEF Known, Decided, RunnerInv, RunnerTypeOK, BookConsistent
<1>. QED  BY <1>0, <1>1, <1>2, <1>3, <1>4, ForgetMoves

LEMMA NewRunnerMoves ==
  ASSUME RunnerInv, AnswersInv, NewRunner
  PROVE  Moves(None)
<1>0. RunnerInv'
  BY NewRunnerInv
<1>1. /\ owner' = owner /\ completed' = <<>> /\ sent' = None
      /\ lost' = lost \cup {c \in CallIds : Cached(c)}
      /\ stage' = [r \in Runs |-> CASE stage[r] = "executing" -> "detached"
                                [] stage[r] = "waiting" -> "skipped"
                                [] OTHER -> stage[r]]
  BY DEF NewRunner, book
<1>2. BookMoves(None)
  BY <1>1 DEF BookMoves, Invoked
<1>. HIDE DEF Cached
<1>3. \A d \in CallIds : Decided(d) => Decided(d)'
  BY <1>1 DEF Decided
<1>4. \A d \in CallIds : d \in lost' => Known(d)
  BY <1>1 DEF Known, Decided
<1>. QED  BY <1>0, <1>1, <1>2, <1>3, <1>4, ForgetMoves

LEMMA ProcessExitMoves ==
  ASSUME RunnerInv, AnswersInv, ProcessExit
  PROVE  Moves(None) /\ stopped'
<1>0. RunnerInv'
  BY ProcessExitInv
<1>1. /\ owner' = owner /\ completed' = <<>> /\ sent' = None /\ stopped'
      /\ lost' = lost \cup {c \in CallIds : calls[c] # None \/ Cached(c)}
      /\ stage' = [r \in Runs |-> CASE stage[r] \in {"executing", "detached"} -> "over"
                                [] stage[r] = "waiting" -> "skipped"
                                [] OTHER -> stage[r]]
  BY DEF ProcessExit
<1>2. BookMoves(None)
  BY <1>1 DEF BookMoves, Invoked
<1>. HIDE DEF Cached
<1>3. \A d \in CallIds : Decided(d) => Decided(d)'
  BY <1>1 DEF Decided
<1>4. \A d \in CallIds : d \in lost' => Known(d)
  BY <1>1 DEF Known, Decided, RunnerInv, RunnerTypeOK, BookConsistent
<1>. QED  BY <1>0, <1>1, <1>2, <1>3, <1>4, ForgetMoves

-----------------------------------------------------------------------------
(* The frames under way. *)

LEMMA SeqWider ==
  ASSUME NEW S, NEW T, S \subseteq T, NEW q \in Seq(S)
  PROVE  q \in Seq(T)
<1>1. q \in [1..Len(q) -> S] /\ Len(q) \in Nat
  BY LenProperties
<1>2. q \in [1..Len(q) -> T]
  BY <1>1
<1>. QED  BY <1>1, <1>2, SeqDef

LEMMA AppendAll ==
  ASSUME NEW S, NEW T, S \subseteq T, NEW q \in Seq(S), NEW f \in T
  PROVE  Append(q, f) \in Seq(T)
BY SeqWider, AppendProperties

LEMMA ConcatAll ==
  ASSUME NEW S, NEW T, S \subseteq T, NEW q \in Seq(S), NEW p \in Seq(T)
  PROVE  q \o p \in Seq(T)
BY SeqWider, ConcatProperties

LEMMA TailAll ==
  ASSUME NEW S, NEW T, S \subseteq T, NEW q \in Seq(S), q # <<>>
  PROVE  Tail(q) \in Seq(T) /\ Head(q) \in S
BY SeqWider, HeadTailProperties

LEMMA NothingIn ==
  ASSUME NEW q \in Seq({})
  PROVE  q = <<>>
<1>1. q # <<>> => Head(q) \in {}
  BY HeadTailProperties
<1>. QED  BY <1>1

LEMMA UpFramesGrow ==
  ASSUME NEW ph, NEW out, NEW more, out \subseteq more
  PROVE  UpFrames(ph, out) \subseteq UpFrames(ph, more)
BY DEF UpFrames

\* The client writes an invoke frame for a call that never was on the wire, or again for one
\* that was on the wire of the process its connection now leads to.
Writable(c) == ~dispatched[c] \/ (Pending(c) /\ session.epoch = epoch)

\* What one step may do to the frames on their way to the node on a connection.
UpStep(n) ==
  \/ phase'[n] = phase[n] /\ up'[n] = up[n]
  \/ phase'[n] \in {"none", "closed"} /\ up'[n] = <<>>
  \/ phase'[n] = "hello" /\ up'[n] = <<Hello>>
  \/ up[n] # <<>> /\ up'[n] = Tail(up[n]) /\ phase[n] = "hello" /\ phase'[n] = "authenticate"
  \/ up[n] # <<>> /\ up'[n] = Tail(up[n]) /\ phase[n] \in {"authenticate", "ready"} /\ phase'[n] = "ready"
  \/ phase'[n] = phase[n] /\ phase[n] \notin {"none", "closed"} /\ up'[n] = Append(up[n], Close("transient"))
  \/ phase'[n] = phase[n] /\ phase[n] \in {"authenticate", "ready"} /\ up'[n] = up[n] \o <<Authenticate>>
  \/ phase'[n] = phase[n] /\ phase[n] = "ready"
     /\ \E q \in Seq(UpFrames("ready", Out')) :
          up'[n] = up[n] \o q /\ \A c \in CallIds : Holds(q, "invoke", c) => Writable(c)

LEMMA UpKept ==
  ASSUME UpInv, Out \subseteq Out', \A n \in Conns : phase[n] \in Phase, \A n \in Conns : UpStep(n)
  PROVE  UpInv'
<1>. SUFFICES ASSUME NEW n \in Conns
     PROVE /\ up'[n] \in Seq(UpFrames(phase'[n], Out'))
           /\ phase'[n] = "hello" => \A i \in DOMAIN up'[n] : up'[n][i] = Hello => i = 1
  BY DEF UpInv, Hello
<1>a. /\ up[n] \in Seq(UpFrames(phase[n], Out))
      /\ phase[n] = "hello" => \A i \in DOMAIN up[n] : up[n][i] = Hello => i = 1
  BY DEF UpInv
<1>b. /\ UpFrames("hello", Out) = {Hello, Close("transient")}
      /\ UpFrames("hello", Out') = {Hello, Close("transient")}
      /\ UpFrames("authenticate", Out') = {Authenticate, Close("transient")}
      /\ UpFrames("authenticate", Out) = {Authenticate, Close("transient")}
      /\ {Authenticate, Close("transient")} \subseteq UpFrames("ready", Out')
      /\ {Authenticate, Close("transient")} \subseteq UpFrames("ready", Out)
      /\ \A ph : UpFrames(ph, Out) \subseteq UpFrames(ph, Out')
  BY UpFramesGrow DEF UpFrames
<1>c. Hello # Close("transient")
  <2>1. Hello.type # Close("transient").type
    BY DEF Hello, Close
  <2>. QED  BY <2>1
<1>1. CASE phase'[n] = phase[n] /\ up'[n] = up[n]
  BY <1>1, <1>a, <1>b, SeqWider
<1>2. CASE phase'[n] \in {"none", "closed"} /\ up'[n] = <<>>
  BY <1>2, EmptySeq
<1>3. CASE phase'[n] = "hello" /\ up'[n] = <<Hello>>
  <2>1. PICK h \in UpFrames("hello", Out') : h = Hello
    BY <1>b
  <2>2. <<h>> \in Seq(UpFrames("hello", Out')) /\ DOMAIN <<h>> = 1..1
    OBVIOUS
  <2>. QED  BY <1>3, <2>1, <2>2
<1>4. CASE up[n] # <<>> /\ up'[n] = Tail(up[n]) /\ phase[n] = "hello" /\ phase'[n] = "authenticate"
  <2>1. up[n] \in Seq({Hello, Close("transient")}) /\ \A i \in DOMAIN up[n] : up[n][i] = Hello => i = 1
    BY <1>4, <1>a, <1>b
  <2>2. PICK q \in Seq({Hello, Close("transient")}) : q = up[n] /\ q # <<>>
    BY <1>4, <2>1
  <2>3. PICK t \in Seq({Hello, Close("transient")}) : t = Tail(q)
    BY <2>2, HeadTailProperties
  <2>4. /\ Len(t) = Len(q) - 1 /\ \A i \in 1..Len(t) : t[i] = q[i + 1]
        /\ Len(q) \in Nat /\ DOMAIN q = 1..Len(q) /\ Len(t) \in Nat /\ t \in [1..Len(t) -> {Hello, Close("transient")}]
    BY <2>2, <2>3, HeadTailProperties, LenProperties
  <2>5. \A i \in 1..Len(t) : i + 1 \in DOMAIN q /\ i + 1 # 1
    BY <2>4
  <2>6. \A i \in 1..Len(t) : t[i] = Close("transient")
    BY <2>1, <2>2, <2>4, <2>5
  <2>7. t \in [1..Len(t) -> {Authenticate, Close("transient")}]
    BY <2>4, <2>6
  <2>8. t \in Seq({Authenticate, Close("transient")})
    BY <2>4, <2>7, SeqDef
  <2>. QED  BY <1>4, <1>b, <2>2, <2>3, <2>8
<1>5. CASE up[n] # <<>> /\ up'[n] = Tail(up[n]) /\ phase[n] \in {"authenticate", "ready"} /\ phase'[n] = "ready"
  <2>1. UpFrames(phase[n], Out) \subseteq UpFrames("ready", Out')
    BY <1>b, <1>5
  <2>2. up[n] \in Seq(UpFrames(phase[n], Out))
    BY <1>5, <1>a
  <2>3. up'[n] \in Seq(UpFrames("ready", Out'))
    BY <1>5, <2>1, <2>2, TailAll
  <2>. QED  BY <1>5, <2>3
<1>6. CASE phase'[n] = phase[n] /\ phase[n] \notin {"none", "closed"} /\ up'[n] = Append(up[n], Close("transient"))
  <2>1. Close("transient") \in UpFrames(phase[n], Out')
    BY <1>b, <1>6 DEF Phase
  <2>2. up'[n] \in Seq(UpFrames(phase[n], Out'))
    BY <1>6, <1>a, <1>b, <2>1, AppendAll
  <2>3. ASSUME phase[n] = "hello", NEW i \in DOMAIN up'[n], up'[n][i] = Hello PROVE i = 1
    <3>1. PICK q \in Seq(UpFrames(phase[n], Out)) : q = up[n]
      BY <1>a
    <3>2. PICK x : x = Close("transient")
      OBVIOUS
    <3>3. PICK T : T = UpFrames(phase[n], Out) \cup {x}
      OBVIOUS
    <3>4. q \in Seq(T) /\ x \in T
      BY <3>1, <3>3, SeqWider
    <3>5. /\ Len(Append(q, x)) = Len(q) + 1 /\ Len(q) \in Nat /\ DOMAIN q = 1..Len(q)
          /\ DOMAIN Append(q, x) = 1..(Len(q) + 1)
          /\ \A k \in 1..Len(q) : Append(q, x)[k] = q[k]
          /\ Append(q, x)[Len(q) + 1] = x
      BY <3>4, AppendProperties, LenProperties
    <3>6. up'[n] = Append(q, x)
      BY <1>6, <3>1, <3>2
    <3>7. i \in DOMAIN q /\ q[i] = Hello
      BY <1>c, <2>3, <3>2, <3>5, <3>6
    <3>. QED  BY <1>a, <2>3, <3>1, <3>7
  <2>. QED  BY <1>6, <2>2, <2>3
<1>7. CASE phase'[n] = phase[n] /\ phase[n] \in {"authenticate", "ready"} /\ up'[n] = up[n] \o <<Authenticate>>
  <2>1. <<Authenticate>> \in Seq(UpFrames(phase[n], Out'))
    <3>1. PICK a \in UpFrames(phase[n], Out') : a = Authenticate
      BY <1>b, <1>7
    <3>2. <<a>> \in Seq(UpFrames(phase[n], Out'))
      OBVIOUS
    <3>. QED  BY <3>1, <3>2
  <2>2. up[n] \in Seq(UpFrames(phase[n], Out))
    BY <1>a, <1>7
  <2>3. up'[n] \in Seq(UpFrames(phase[n], Out'))
    BY <1>7, <1>b, <2>1, <2>2, ConcatAll
  <2>. QED  BY <1>7, <2>3
<1>8. CASE phase'[n] = phase[n] /\ phase[n] = "ready"
           /\ \E q \in Seq(UpFrames("ready", Out')) : up'[n] = up[n] \o q
  <2>1. PICK q \in Seq(UpFrames("ready", Out')) : up'[n] = up[n] \o q
    BY <1>8
  <2>2. up[n] \in Seq(UpFrames("ready", Out))
    BY <1>a, <1>8
  <2>3. up'[n] \in Seq(UpFrames("ready", Out'))
    BY <1>b, <2>1, <2>2, ConcatAll
  <2>. QED  BY <1>8, <2>3
<1>. QED  BY <1>1, <1>2, <1>3, <1>4, <1>5, <1>6, <1>7, <1>8 DEF UpStep

\* What one step may do to the frames on their way to the client on a connection.
DownStep(n) ==
  \/ down'[n] = <<>>
  \/ /\ phase'[n] = phase[n] \/ phase[n] \in {"none", "hello"} \/ phase'[n] \in {"ready", "closed"}
     /\ Epochs(n) \subseteq Epochs(n)'
     /\ \/ down'[n] = down[n]
        \/ down[n] # <<>> /\ down'[n] = Tail(down[n])
        \/ \E q \in Seq(DownFrames(phase'[n], Epochs(n)', Reported')) : down'[n] = down[n] \o q

LEMMA DownKept ==
  ASSUME DownInv, Reported \subseteq Reported', \A n \in Conns : phase[n] \in Phase, \A n \in Conns : DownStep(n)
  PROVE  DownInv'
<1>. SUFFICES ASSUME NEW n \in Conns
              PROVE  down'[n] \in Seq(DownFrames(phase'[n], Epochs(n)', Reported'))
  BY DEF DownInv
<1>. DEFINE S == DownFrames(phase[n], Epochs(n), Reported)
            T == DownFrames(phase'[n], Epochs(n)', Reported')
<1>1. down[n] \in Seq(S)
  BY DEF DownInv
<1>2. CASE down'[n] = <<>>
  BY <1>2, EmptySeq
<1>3. CASE /\ phase'[n] = phase[n] \/ phase[n] \in {"none", "hello"} \/ phase'[n] \in {"ready", "closed"}
           /\ Epochs(n) \subseteq Epochs(n)'
           /\ \/ down'[n] = down[n]
              \/ down[n] # <<>> /\ down'[n] = Tail(down[n])
              \/ \E q \in Seq(T) : down'[n] = down[n] \o q
  <2>1. S \subseteq T
    BY <1>3 DEF DownFrames, Phase
  <2>. HIDE DEF S, T
  <2>2. CASE down'[n] = down[n]
    BY <1>1, <2>1, <2>2, SeqWider DEF T
  <2>3. CASE down[n] # <<>> /\ down'[n] = Tail(down[n])
    BY <1>1, <2>1, <2>3, TailAll DEF T
  <2>4. CASE \E q \in Seq(T) : down'[n] = down[n] \o q
    BY <1>1, <2>1, <2>4, ConcatAll DEF T
  <2>. QED  BY <1>3, <2>2, <2>3, <2>4
<1>. QED  BY <1>2, <1>3 DEF DownStep

LEMMA HoldsConcat ==
  ASSUME NEW S, NEW T, NEW q \in Seq(S), NEW p \in Seq(T), NEW t, NEW c
  PROVE  Holds(q \o p, t, c) <=> Holds(q, t, c) \/ Holds(p, t, c)
<1>1. q \in Seq(S \cup T) /\ p \in Seq(S \cup T)
  BY SeqWider
<1>2. PICK s : s = q \o p
  OBVIOUS
<1>3. /\ Len(s) = Len(q) + Len(p) /\ Len(q) \in Nat /\ Len(p) \in Nat
      /\ \A i \in 1..Len(s) : s[i] = IF i <= Len(q) THEN q[i] ELSE p[i - Len(q)]
      /\ DOMAIN s = 1..Len(s) /\ DOMAIN q = 1..Len(q) /\ DOMAIN p = 1..Len(p)
  BY <1>1, <1>2, ConcatProperties, LenProperties
<1>4. \A i \in DOMAIN q : i \in DOMAIN s /\ s[i] = q[i]
  BY <1>3
<1>5. \A i \in DOMAIN p : i + Len(q) \in DOMAIN s /\ s[i + Len(q)] = p[i]
  BY <1>3
<1>6. \A i \in DOMAIN s : (i \in DOMAIN q /\ s[i] = q[i]) \/ (i - Len(q) \in DOMAIN p /\ s[i] = p[i - Len(q)])
  BY <1>3
<1>7. ASSUME Holds(s, t, c) PROVE Holds(q, t, c) \/ Holds(p, t, c)
  <2>1. PICK i \in DOMAIN s : s[i].type = t /\ s[i].call = c
    BY <1>7 DEF Holds
  <2>2. CASE i \in DOMAIN q /\ s[i] = q[i]
    BY <2>1, <2>2 DEF Holds
  <2>3. CASE i - Len(q) \in DOMAIN p /\ s[i] = p[i - Len(q)]
    BY <2>1, <2>3 DEF Holds
  <2>. QED  BY <1>6, <2>2, <2>3
<1>8. Holds(q, t, c) => Holds(s, t, c)
  BY <1>4 DEF Holds
<1>9. ASSUME Holds(p, t, c) PROVE Holds(s, t, c)
  <2>1. PICK i \in DOMAIN p : p[i].type = t /\ p[i].call = c
    BY <1>9 DEF Holds
  <2>. QED  BY <1>5, <2>1 DEF Holds
<1>. QED  BY <1>2, <1>7, <1>8, <1>9

LEMMA HoldsTail ==
  ASSUME NEW S, NEW q \in Seq(S), q # <<>>, NEW t, NEW c
  PROVE  Holds(q, t, c) <=> Holds(Tail(q), t, c) \/ (Head(q).type = t /\ Head(q).call = c)
<1>1. PICK s : s = Tail(q)
  OBVIOUS
<1>2. /\ Len(s) = Len(q) - 1 /\ Len(q) \in Nat /\ Len(q) # 0
      /\ \A i \in 1..Len(s) : s[i] = q[i + 1]
      /\ Head(q) = q[1]
      /\ DOMAIN s = 1..Len(s) /\ DOMAIN q = 1..Len(q)
  BY <1>1, HeadTailProperties, LenProperties, EmptySeq
<1>3. \A i \in DOMAIN s : i + 1 \in DOMAIN q /\ s[i] = q[i + 1]
  BY <1>2
<1>4. \A i \in DOMAIN q : i = 1 \/ (i - 1 \in DOMAIN s /\ s[i - 1] = q[i])
  BY <1>2
<1>5. 1 \in DOMAIN q
  BY <1>2
<1>6. ASSUME Holds(q, t, c) PROVE Holds(s, t, c) \/ (q[1].type = t /\ q[1].call = c)
  <2>1. PICK i \in DOMAIN q : q[i].type = t /\ q[i].call = c
    BY <1>6 DEF Holds
  <2>2. CASE i = 1
    BY <2>1, <2>2
  <2>3. CASE i - 1 \in DOMAIN s /\ s[i - 1] = q[i]
    BY <2>1, <2>3 DEF Holds
  <2>. QED  BY <1>4, <2>2, <2>3
<1>7. ASSUME Holds(s, t, c) PROVE Holds(q, t, c)
  <2>1. PICK i \in DOMAIN s : s[i].type = t /\ s[i].call = c
    BY <1>7 DEF Holds
  <2>. QED  BY <1>3, <2>1 DEF Holds
<1>8. q[1].type = t /\ q[1].call = c => Holds(q, t, c)
  BY <1>5 DEF Holds
<1>. QED  BY <1>1, <1>2, <1>6, <1>7, <1>8

LEMMA HoldsNone == \A t, c : ~Holds(<<>>, t, c)
BY DEF Holds

LEMMA HoldsOne ==
  ASSUME NEW f, NEW t, NEW c
  PROVE  Holds(<<f>>, t, c) <=> f.type = t /\ f.call = c
<1>1. DOMAIN <<f>> = {1} /\ <<f>>[1] = f
  OBVIOUS
<1>. QED  BY <1>1 DEF Holds

\* Writing frames appends them on that connection, or nowhere.
LEMMA UploadWrites ==
  ASSUME LinkTypes, NEW n, NEW q, up' = Upload(n, q)
  PROVE  /\ up' = [m \in Conns |-> up'[m]]
         /\ \A m \in Conns : up'[m] = IF m = n /\ ClientCanWrite(n) THEN up[m] \o q ELSE up[m]
<1>1. up = [m \in Conns |-> up[m]]
  BY DEF LinkTypes
<1>. QED  BY <1>1 DEF Upload

LEMMA DownloadWrites ==
  ASSUME LinkTypes, NEW n, NEW q, down' = Download(n, q)
  PROVE  /\ down' = [m \in Conns |-> down'[m]]
         /\ \A m \in Conns : down'[m] = IF m = n /\ NodeCanWrite(n) THEN down[m] \o q ELSE down[m]
<1>1. down = [m \in Conns |-> down[m]]
  BY DEF LinkTypes
<1>. QED  BY <1>1 DEF Download

\* deliver: the result is appended on the connection that is ready, unless it cannot be
\* written.
LEMMA ForwardWrites ==
  ASSUME LinkTypes, Forward
  PROVE  /\ down' = [m \in Conns |-> down'[m]]
         /\ \A m \in Conns :
              down'[m] = IF /\ sent' # None /\ ready # None /\ m = ready /\ NodeCanWrite(m)
                            /\ ~(sent'.call \in Oversize /\ sent'.status = "success")
                         THEN down[m] \o <<ResultFrame(sent')>> ELSE down[m]
<1>1. down = [m \in Conns |-> down[m]]
  BY DEF LinkTypes
<1>2. CASE sent' # None /\ ready # None /\ ~(sent'.call \in Oversize /\ sent'.status = "success")
  <2>1. down' = Download(ready, <<ResultFrame(sent')>>)
    BY <1>2 DEF Forward
  <2>2. PICK q : q = <<ResultFrame(sent')>>
    OBVIOUS
  <2>3. down' = Download(ready, q)
    BY <2>1, <2>2
  <2>4. /\ down' = [m \in Conns |-> down'[m]]
        /\ \A m \in Conns : down'[m] = IF m = ready /\ NodeCanWrite(ready) THEN down[m] \o q ELSE down[m]
    BY <2>3, DownloadWrites
  <2>. QED  BY <1>2, <2>2, <2>4
<1>3. CASE ~(sent' # None /\ ready # None /\ ~(sent'.call \in Oversize /\ sent'.status = "success"))
  <2>1. down' = down
    BY <1>3 DEF Forward
  <2>. QED  BY <1>1, <1>3, <2>1
<1>. QED  BY <1>2, <1>3

\* The frame at the head of a queue.
LEMMA NodeReads ==
  ASSUME UpInv, NEW n \in Conns, NEW t, NodeTakes(n, t)
  PROVE  /\ up[n] # <<>> /\ Head(up[n]) \in UpFrames(phase[n], Out)
         /\ t = "hello" => phase[n] = "hello"
         /\ t = "authenticate" => phase[n] \in {"authenticate", "ready"}
         /\ t \in {"invoke", "cancel"} => phase[n] = "ready" /\ Head(up[n]).call \in CallIds
         /\ t = "invoke" => dispatched[Head(up[n]).call] /\ Head(up[n]).revision \in 1..MaxRevision
<1>1. up[n] # <<>> /\ Head(up[n]).type = t /\ phase[n] \notin {"none", "closed"}
  BY DEF NodeTakes
<1>2. up[n] \in Seq(UpFrames(phase[n], Out))
  BY DEF UpInv
<1>3. Head(up[n]) \in UpFrames(phase[n], Out)
  BY <1>1, <1>2, HeadTailProperties
<1>4. PICK f : f = Head(up[n])
  OBVIOUS
<1>5. f.type = t /\ f \in UpFrames(phase[n], Out)
  BY <1>1, <1>3, <1>4
<1>6. /\ t = "hello" => phase[n] = "hello"
      /\ t = "authenticate" => phase[n] \in {"authenticate", "ready"}
      /\ t \in {"invoke", "cancel"} => phase[n] = "ready" /\ f.call \in CallIds
      /\ t = "invoke" => dispatched[f.call] /\ f.revision \in 1..MaxRevision
  BY <1>5 DEF UpFrames, Hello, Authenticate, Close, Out
<1>. QED  BY <1>1, <1>3, <1>4, <1>6

LEMMA ClientReads ==
  ASSUME DownInv, NEW n \in Conns, NEW t, ClientTakes(n, t)
  PROVE  /\ down[n] # <<>> /\ phase[n] \notin {"none", "hello"}
         /\ t # "challenge" => phase[n] \in {"ready", "closed"}
         /\ t = "ready" => Head(down[n]).epoch \in Epochs(n) /\ Head(down[n]).revision \in 1..MaxRevision
         /\ t = "manifest_changed" => Head(down[n]).revision \in 1..MaxRevision
         /\ t = "result" => Head(down[n]) \in Reported
<1>1. down[n] # <<>> /\ Head(down[n]).type = t
  BY DEF ClientTakes
<1>2. down[n] \in Seq(DownFrames(phase[n], Epochs(n), Reported))
  BY DEF DownInv
<1>3. Head(down[n]) \in DownFrames(phase[n], Epochs(n), Reported)
  BY <1>1, <1>2, HeadTailProperties
<1>4. PICK f : f = Head(down[n])
  OBVIOUS
<1>5. f.type = t /\ f \in DownFrames(phase[n], Epochs(n), Reported)
  BY <1>1, <1>3, <1>4
<1>6. \A g \in Reported : g.type = "result"
  BY DEF Reported
<1>. HIDE DEF Reported, Epochs
<1>7. /\ phase[n] \notin {"none", "hello"}
      /\ t # "challenge" => phase[n] \in {"ready", "closed"}
      /\ t = "ready" => f.epoch \in Epochs(n) /\ f.revision \in 1..MaxRevision
      /\ t = "manifest_changed" => f.revision \in 1..MaxRevision
      /\ t = "result" => f \in Reported
  BY <1>5, <1>6 DEF DownFrames, Challenge, Close
<1>. QED  BY <1>1, <1>4, <1>7

-----------------------------------------------------------------------------
(* The ledger. *)

LEMMA PendingDropped ==
  ASSUME entries \in Seq(CallIds), NEW gone, Drop(gone)
  PROVE  entries' \in Seq(CallIds) /\ \A c \in CallIds : Pending(c)' <=> Pending(c) /\ c \notin gone
<1>1. entries' = Kept(entries, CallIds \ gone)
  BY DEF Drop
<1>2. /\ entries' \in Seq(CallIds)
      /\ \A c \in CallIds : (\E i \in DOMAIN entries' : entries'[i] = c)
                              <=> c \in CallIds \ gone /\ \E i \in DOMAIN entries : entries[i] = c
  <2>1. PICK P : P = CallIds \ gone
    OBVIOUS
  <2>. QED  BY <1>1, <2>1, KeptElements
<1>. QED  BY <1>2 DEF Pending

LEMMA PendingAdded ==
  ASSUME entries \in Seq(CallIds), NEW d \in CallIds, entries' = Append(entries, d)
  PROVE  entries' \in Seq(CallIds) /\ \A c \in CallIds : Pending(c)' <=> Pending(c) \/ c = d
<1>1. /\ entries' \in Seq(CallIds) /\ Len(entries') = Len(entries) + 1 /\ Len(entries) \in Nat
      /\ \A i \in 1..Len(entries) : entries'[i] = entries[i]
      /\ entries'[Len(entries) + 1] = d
      /\ DOMAIN entries' = 1..Len(entries') /\ DOMAIN entries = 1..Len(entries)
  BY AppendProperties, LenProperties
<1>2. \A i \in DOMAIN entries : i \in DOMAIN entries' /\ entries'[i] = entries[i]
  BY <1>1
<1>3. \A i \in DOMAIN entries' : (i \in DOMAIN entries /\ entries'[i] = entries[i]) \/ entries'[i] = d
  BY <1>1
<1>4. Len(entries) + 1 \in DOMAIN entries'
  BY <1>1
<1>. QED  BY <1>1, <1>2, <1>3, <1>4 DEF Pending

LEMMA LedgerSettles ==
  ASSUME LinkTypeOK, NEW c \in CallIds, NEW a \in Answer, SettleCall(c, a)
  PROVE  /\ entries' \in Seq(CallIds) /\ outcome' \in [CallIds -> Answer \cup {None}]
         /\ dispatched' = dispatched /\ frameRev' = frameRev
         /\ \A d \in CallIds : /\ Pending(d)' <=> Pending(d) /\ d # c
                               /\ outcome'[d] = IF d = c THEN a ELSE outcome[d]
<1>1. Drop({c}) /\ outcome' = [outcome EXCEPT ![c] = a] /\ dispatched' = dispatched /\ frameRev' = frameRev
  BY DEF SettleCall
<1>2. entries \in Seq(CallIds) /\ outcome \in [CallIds -> Answer \cup {None}]
  BY DEF LinkTypeOK
<1>3. entries' \in Seq(CallIds) /\ \A d \in CallIds : Pending(d)' <=> Pending(d) /\ d \notin {c}
  BY <1>1, <1>2, PendingDropped
<1>. QED  BY <1>1, <1>2, <1>3

LEMMA LedgerFails ==
  ASSUME LinkTypeOK, FailAll
  PROVE  /\ entries' \in Seq(CallIds) /\ outcome' \in [CallIds -> Answer \cup {None}]
         /\ dispatched' = dispatched /\ frameRev' = frameRev
         /\ \A d \in CallIds : /\ ~Pending(d)'
                               /\ outcome'[d] = IF ~Pending(d) THEN outcome[d]
                                                ELSE IF dispatched[d] THEN "unknown" ELSE "unsent"
<1>1. entries' = <<>>
  BY DEF FailAll
<1>2. entries' \in Seq(CallIds)
  BY <1>1, EmptySeq
<1>3. \A d \in CallIds : ~Pending(d)'
  BY <1>1 DEF Pending
<1>. HIDE DEF Pending
<1>. QED  BY <1>2, <1>3 DEF FailAll, LinkTypeOK, Answer

\* flush: the calls of another epoch that were on the wire are lost, the others are written.
LEMMA LedgerFlushes ==
  ASSUME LinkTypes, NEW new \in [epoch : 1..(MaxRestarts + 1), revision : 1..MaxRevision], Flush(new)
  PROVE  /\ entries' \in Seq(CallIds) /\ outcome' \in [CallIds -> Answer \cup {None}]
         /\ dispatched' \in [CallIds -> BOOLEAN] /\ frameRev' \in [CallIds -> 1..MaxRevision \cup {None}]
         /\ \A c \in CallIds :
              LET failed == Pending(c) /\ dispatched[c] /\ session # NoSession /\ session.epoch # new.epoch
              IN /\ Pending(c)' <=> Pending(c) /\ ~failed
                 /\ outcome'[c] = IF failed THEN "unknown" ELSE outcome[c]
                 /\ dispatched'[c] <=> dispatched[c] \/ Pending(c)
         /\ \E q \in Seq(UpFrames("ready", Out')) :
              up' = Upload(sock, q) /\ \A c \in CallIds : Holds(q, "invoke", c) <=> Pending(c)'
<1>. DEFINE restarted == session # NoSession /\ session.epoch # new.epoch
            failed == {c \in CallIds : Pending(c) /\ restarted /\ dispatched[c]}
            kept == Kept(entries, CallIds \ failed)
            rev == [c \in CallIds |->
                IF c \in failed \/ ~Pending(c) THEN frameRev[c]
                ELSE IF frameRev[c] = None \/ restarted THEN new.revision
                ELSE frameRev[c]]
            q == [i \in DOMAIN kept |-> Invoke(kept[i], rev[kept[i]])]
<1>t. /\ entries \in Seq(CallIds) /\ outcome \in [CallIds -> Answer \cup {None}]
      /\ dispatched \in [CallIds -> BOOLEAN] /\ frameRev \in [CallIds -> 1..MaxRevision \cup {None}]
  BY DEF LinkTypes, LinkTypeOK
<1>1. /\ entries' = kept
      /\ outcome' = [c \in CallIds |-> IF c \in failed THEN "unknown" ELSE outcome[c]]
      /\ frameRev' = rev
      /\ dispatched' = [c \in CallIds |-> dispatched[c] \/ (Pending(c) /\ c \notin failed)]
      /\ up' = Upload(sock, q)
  BY DEF Flush
<1>2. Drop(failed)
  BY <1>1 DEF Drop
<1>3. entries' \in Seq(CallIds) /\ \A c \in CallIds : Pending(c)' <=> Pending(c) /\ c \notin failed
  <2>. HIDE DEF failed
  <2>. QED  BY <1>t, <1>2, PendingDropped
<1>. HIDE DEF Pending
<1>4. \A c \in CallIds : /\ outcome'[c] = IF c \in failed THEN "unknown" ELSE outcome[c]
                         /\ dispatched'[c] <=> dispatched[c] \/ Pending(c)
  BY <1>1
<1>5. \A c \in CallIds : rev[c] \in 1..MaxRevision \cup {None} /\ (Pending(c)' => rev[c] \in 1..MaxRevision)
  BY <1>t, <1>3
<1>6. frameRev' \in [CallIds -> 1..MaxRevision \cup {None}]
  BY <1>1, <1>5
<1>7. dispatched' \in [CallIds -> BOOLEAN] /\ outcome' \in [CallIds -> Answer \cup {None}]
  BY <1>t, <1>1 DEF Answer
<1>8. \A i \in DOMAIN kept : /\ kept[i] \in CallIds /\ kept[i] \in Out' /\ rev[kept[i]] \in 1..MaxRevision
  <2>. SUFFICES ASSUME NEW i \in DOMAIN kept
                PROVE  kept[i] \in CallIds /\ kept[i] \in Out' /\ rev[kept[i]] \in 1..MaxRevision
    OBVIOUS
  <2>1. PICK c \in CallIds : c = kept[i]
    BY <1>1, <1>3, LenProperties, ElementOfSeq
  <2>2. Pending(c)'
    BY <1>1, <2>1 DEF Pending
  <2>3. Pending(c) /\ dispatched'[c]
    BY <1>3, <1>4, <2>2
  <2>4. c \in Out'
    BY <2>3 DEF Out
  <2>5. rev[c] \in 1..MaxRevision
    BY <1>5, <2>2
  <2>. QED  BY <2>1, <2>4, <2>5
<1>. HIDE DEF rev, failed
<1>9. q \in Seq(UpFrames("ready", Out'))
  <2>1. kept \in Seq(CallIds)
    BY <1>1, <1>3
  <2>2. DOMAIN kept = 1..Len(kept) /\ Len(kept) \in Nat
    BY <2>1, LenProperties
  <2>3. \A i \in DOMAIN kept : Invoke(kept[i], rev[kept[i]]) \in UpFrames("ready", Out')
    BY <1>8 DEF UpFrames, Invoke
  <2>4. PICK F : F = UpFrames("ready", Out')
    OBVIOUS
  <2>5. q \in [1..Len(kept) -> F]
    BY <2>2, <2>3, <2>4
  <2>6. q \in Seq(F)
    <3>1. PICK k \in Nat : k = Len(kept)
      BY <2>2
    <3>2. q \in [1..k -> F]
      BY <2>5, <3>1
    <3>. HIDE DEF q
    <3>. QED  BY <3>2, SeqDef
  <2>. QED  BY <2>4, <2>6
<1>10. ASSUME NEW c \in CallIds PROVE Holds(q, "invoke", c) <=> Pending(c)'
  <2>1. Pending(c)' <=> \E i \in DOMAIN kept : kept[i] = c
    BY <1>1 DEF Pending
  <2>2. \A i \in DOMAIN kept : q[i].type = "invoke" /\ q[i].call = kept[i]
    BY DEF Invoke
  <2>3. DOMAIN q = DOMAIN kept
    OBVIOUS
  <2>. HIDE DEF q, kept
  <2>. QED  BY <2>1, <2>2, <2>3 DEF Holds
<1>11. \A c \in CallIds : c \in failed <=> Pending(c) /\ dispatched[c] /\ session # NoSession /\ session.epoch # new.epoch
  BY DEF failed
<1>. HIDE DEF kept, q
<1>12. \E p \in Seq(UpFrames("ready", Out')) :
          up' = Upload(sock, p) /\ \A c \in CallIds : Holds(p, "invoke", c) <=> Pending(c)'
  BY <1>1, <1>9, <1>10
<1>. QED  BY <1>3, <1>4, <1>6, <1>7, <1>11, <1>12

-----------------------------------------------------------------------------
(* What every step does to the runner. *)

RunnerPart ==
  /\ RunnerInv' /\ CacheKeys' /\ AnswersInv'
  /\ Reported \subseteq Reported'
  /\ \A c \in CallIds : /\ Decided(c) => Decided(c)'
                        /\ Known(c) => Known(c)'
                        /\ Known(c)' => dispatched[c]
                        /\ Began(c) => Began(c)'
                        /\ Began(c)' => Began(c) \/ calls'[c] # None

LEMMA ReportedGrows ==
  ASSUME \A c \in CallIds : (Decided(c) => Decided(c)') /\ (Began(c) => Began(c)')
  PROVE  Reported \subseteq Reported'
<1>. HIDE DEF Decided, Began
<1>. QED  BY DEF Reported

LEMMA RunnerKept ==
  ASSUME LinkInv, [LinkNext]_linkVars
  PROVE  RunnerPart
<1>0. /\ RunnerInv /\ CacheKeys /\ AnswersInv /\ UpInv
      /\ \A c \in CallIds : Known(c) => dispatched[c]
  BY DEF LinkInv, LedgerInv
<1>p. Peer \in Clients /\ None \notin CallIds
  BY LinkAssumption, RunnerAssumption DEF LinkAssumption, RunnerAssumption
<1>m. ASSUME NEW d, Moves(d), RunnerNext, d \in CallIds => dispatched[d] PROVE RunnerPart
  <2>1. RunnerInv' /\ CacheKeys'
    BY <1>0, <1>m, NextInv, CacheKeysStep
  <2>2. \A c \in CallIds : (Decided(c) => Decided(c)') /\ (Began(c) => Began(c)')
    BY <1>m DEF Moves
  <2>. HIDE DEF Decided, Began, Known, Reported, AnswersInv
  <2>3. Reported \subseteq Reported'
    BY <2>2, ReportedGrows
  <2>4. AnswersInv'
    BY <1>m DEF Moves
  <2>. QED  BY <1>0, <1>m, <2>1, <2>3, <2>4 DEF Moves, RunnerPart
<1>q. ASSUME UNCHANGED vars PROVE RunnerPart
  <2>1. RunnerInv' /\ CacheKeys'
    BY <1>0, <1>q, NextInv, CacheKeysStep
  <2>2. UNCHANGED <<calls, owner, stage, completed, lost>>
    BY <1>q DEF vars, book, pool, records
  <2>3. \A c \in CallIds : /\ Decided(c) <=> Decided(c)'
                           /\ Known(c) <=> Known(c)'
                           /\ Began(c) <=> Began(c)'
    BY <2>2 DEF Decided, Known, Began, Cached, Invoked
  <2>4. AnswersInv'
    <3>. HIDE DEF Began
    <3>. QED  BY <1>0, <2>2, <2>3 DEF AnswersInv
  <2>. HIDE DEF Decided, Began, Known, Reported, AnswersInv
  <2>5. Reported \subseteq Reported'
    BY <2>3, ReportedGrows
  <2>. QED  BY <1>0, <2>1, <2>3, <2>4, <2>5 DEF RunnerPart
<1>. HIDE DEF RunnerPart
<1>1. ASSUME OpenSocket PROVE RunnerPart
  BY <1>1, <1>q DEF OpenSocket
<1>2. ASSUME NEW c \in CallIds, Track(c) PROVE RunnerPart
  BY <1>2, <1>q DEF Track
<1>3. ASSUME NEW c \in CallIds, Abort(c) PROVE RunnerPart
  BY <1>3, <1>q DEF Abort, Withdraw
<1>4. ASSUME NEW c \in CallIds, Timeout(c) PROVE RunnerPart
  BY <1>4, <1>q DEF Timeout, Withdraw
<1>5. ASSUME Dispose PROVE RunnerPart
  BY <1>5, <1>q DEF Dispose
<1>6. ASSUME NEW n \in Conns, HandleOpen(n) PROVE RunnerPart
  BY <1>6, <1>q DEF HandleOpen
<1>7. ASSUME NEW n \in Conns, HandleChallenge(n) PROVE RunnerPart
  BY <1>7, <1>q DEF HandleChallenge
<1>8. ASSUME NEW n \in Conns, HandleReady(n) PROVE RunnerPart
  BY <1>8, <1>q DEF HandleReady
<1>9. ASSUME NEW n \in Conns, ApplyManifest(n) PROVE RunnerPart
  BY <1>9, <1>q DEF ApplyManifest
<1>10. ASSUME NEW n \in Conns, SettleResult(n) PROVE RunnerPart
  BY <1>10, <1>q DEF SettleResult
<1>11. ASSUME NEW n \in Conns, HandleCloseReconnect(n) PROVE RunnerPart
  BY <1>11, <1>q DEF HandleCloseReconnect
<1>12. ASSUME NEW n \in Conns, HandleCloseStop(n) PROVE RunnerPart
  BY <1>12, <1>q DEF HandleCloseStop
<1>13. ASSUME NEW n \in Conns, HandleHello(n) PROVE RunnerPart
  BY <1>13, <1>q DEF HandleHello
<1>14. ASSUME NEW n \in Conns, HandleAuthenticate(n) PROVE RunnerPart
  BY <1>14, <1>q DEF HandleAuthenticate
<1>15. ASSUME NEW n \in Conns, ReceiveInvoke(n) PROVE RunnerPart
  <2>1. NodeTakes(n, "invoke")
    BY <1>15 DEF ReceiveInvoke
  <2>2. PICK d \in CallIds : d = Head(up[n]).call /\ dispatched[d]
    BY <1>0, <2>1, NodeReads
  <2>3. PICK fresh \in BOOLEAN : fresh = (Head(up[n]).revision = revision)
    OBVIOUS
  <2>4. Submit(d, Peer, fresh)
    BY <1>15, <2>2, <2>3 DEF ReceiveInvoke
  <2>5. Moves(d) /\ RunnerNext
    BY <1>0, <1>p, <2>4, SubmitMoves DEF RunnerNext
  <2>. QED  BY <1>m, <2>2, <2>5
<1>16. ASSUME NEW n \in Conns, ReceiveCancel(n) PROVE RunnerPart
  <2>1. NodeTakes(n, "cancel")
    BY <1>16 DEF ReceiveCancel
  <2>2. PICK d \in CallIds : d = Head(up[n]).call
    BY <1>0, <2>1, NodeReads
  <2>3. Cancel(d)
    BY <1>16, <2>2 DEF ReceiveCancel
  <2>4. Moves(None) /\ RunnerNext
    BY <1>0, <2>3, CancelMoves DEF RunnerNext
  <2>. QED  BY <1>m, <1>p, <2>4
<1>17. ASSUME NEW n \in Conns, SocketClosed(n) PROVE RunnerPart
  BY <1>17, <1>q DEF SocketClosed
<1>18. ASSUME NEW n \in Conns, DropSilent(n) PROVE RunnerPart
  BY <1>18, <1>q DEF DropSilent
<1>19. ASSUME NEW n \in Conns, IdleTimeout(n) PROVE RunnerPart
  BY <1>19, <1>q DEF IdleTimeout
<1>20. ASSUME NEW n \in Conns, Cut(n) PROVE RunnerPart
  BY <1>20, <1>q DEF Cut
<1>21. ASSUME NEW r \in Runs, RunnerStep(r) PROVE RunnerPart
  <2>1. CASE \E s \in Outcome : Finish(r, s)
    <3>1. Moves(None) /\ RunnerNext
      BY <1>0, <2>1, FinishMoves DEF RunnerNext
    <3>. QED  BY <1>m, <1>p, <3>1
  <2>2. CASE FinishDetached(r)
    <3>1. Moves(None) /\ RunnerNext
      BY <1>0, <2>2, FinishDetachedMoves DEF RunnerNext
    <3>. QED  BY <1>m, <1>p, <3>1
  <2>. QED  BY <1>21, <2>1, <2>2 DEF RunnerStep
<1>22. ASSUME NEW r \in Runs, DeadlineStep(r) PROVE RunnerPart
  <2>1. Deadline(r)
    BY <1>22 DEF DeadlineStep
  <2>2. Moves(None) /\ RunnerNext
    BY <1>0, <2>1, DeadlineMoves DEF RunnerNext
  <2>. QED  BY <1>m, <1>p, <2>2
<1>23. ASSUME ManifestChange PROVE RunnerPart
  BY <1>23, <1>q DEF ManifestChange
<1>24. ASSUME Stop PROVE RunnerPart
  <2>1. AbortAll
    BY <1>24 DEF Stop
  <2>2. Moves(None) /\ RunnerNext
    BY <1>0, <2>1, AbortAllMoves DEF RunnerNext
  <2>. QED  BY <1>m, <1>p, <2>2
<1>25. ASSUME Start PROVE RunnerPart
  <2>1. NewRunner
    BY <1>25 DEF Start
  <2>2. Moves(None) /\ RunnerNext
    BY <1>0, <2>1, NewRunnerMoves DEF RunnerNext
  <2>. QED  BY <1>m, <1>p, <2>2
<1>26. ASSUME Crash PROVE RunnerPart
  <2>1. ProcessExit
    BY <1>26 DEF Crash
  <2>2. Moves(None) /\ RunnerNext
    BY <1>0, <2>1, ProcessExitMoves DEF RunnerNext
  <2>. QED  BY <1>m, <1>p, <2>2
<1>27. ASSUME NewProcess PROVE RunnerPart
  <2>1. NewRunner
    BY <1>27 DEF NewProcess
  <2>2. Moves(None) /\ RunnerNext
    BY <1>0, <2>1, NewRunnerMoves DEF RunnerNext
  <2>. QED  BY <1>m, <1>p, <2>2
<1>28. ASSUME UNCHANGED linkVars PROVE RunnerPart
  BY <1>28, <1>q DEF linkVars
<1>. QED BY <1>1, <1>2, <1>3, <1>4, <1>5, <1>6, <1>7, <1>8, <1>9, <1>10, <1>11, <1>12, <1>13, <1>14, <1>15, <1>16, <1>17, <1>18, <1>19, <1>20, <1>21, <1>22, <1>23, <1>24, <1>25, <1>26, <1>27, <1>28 DEF LinkNext, ClientStep, NodeStep

-----------------------------------------------------------------------------
(* Connections. *)

LEMMA ConnKept ==
  ASSUME LinkInv, [LinkNext]_linkVars
  PROVE  ConnInv'
<1>0. /\ ConnInv /\ UpInv /\ DownInv
      /\ cstate \in ClientState /\ sock \in Conns \cup {None} /\ phase \in [Conns -> Phase]
      /\ ready \in Conns \cup {None} /\ wire \in [Conns -> Wire] /\ dialed \in 0..MaxConns
      /\ stopped \in BOOLEAN /\ exited \in BOOLEAN /\ epoch \in 1..(MaxRestarts + 1)
      /\ session \in {NoSession} \cup [epoch : 1..(MaxRestarts + 1), revision : 1..MaxRevision]
  BY DEF LinkInv, LinkTypes, LinkTypeOK, RunnerInv, RunnerTypeOK
<1>n. None \notin Conns /\ MaxConns \in Nat /\ MaxRevision \in Nat
  BY LinkAssumption DEF LinkAssumption
<1>1. ASSUME OpenSocket PROVE ConnInv'
  BY <1>1, <1>0, <1>n DEF OpenSocket, ConnInv, clientVars, nodeVars, netVars, vars, Conns, Phase, Wire, ClientState
<1>2. ASSUME NEW c \in CallIds, Track(c) PROVE ConnInv'
  BY <1>2, <1>0, <1>n DEF Track, ConnInv, clientVars, nodeVars, netVars, vars, Conns, Phase, Wire, ClientState
<1>3. ASSUME NEW c \in CallIds, Abort(c) PROVE ConnInv'
  BY <1>3, <1>0, <1>n DEF Abort, Withdraw, ConnInv, clientVars, nodeVars, netVars, vars, Conns, Phase, Wire, ClientState
<1>4. ASSUME NEW c \in CallIds, Timeout(c) PROVE ConnInv'
  BY <1>4, <1>0, <1>n DEF Timeout, Withdraw, ConnInv, clientVars, nodeVars, netVars, vars, Conns, Phase, Wire, ClientState
<1>5. ASSUME Dispose PROVE ConnInv'
  BY <1>5, <1>0, <1>n DEF Dispose, LetGo, ConnInv, clientVars, nodeVars, netVars, vars, Conns, Phase, Wire, ClientState
<1>6. ASSUME NEW n \in Conns, HandleOpen(n) PROVE ConnInv'
  BY <1>6, <1>0, <1>n DEF HandleOpen, ConnInv, clientVars, nodeVars, netVars, vars, Conns, Phase, Wire, ClientState
<1>7. ASSUME NEW n \in Conns, HandleChallenge(n) PROVE ConnInv'
  BY <1>7, <1>0, <1>n DEF HandleChallenge, ClientTakes, ConnInv, clientVars, nodeVars, netVars, vars, Conns, Phase, Wire, ClientState
<1>8. ASSUME NEW n \in Conns, HandleReady(n) PROVE ConnInv'
  <2>1. ClientTakes(n, "ready")
    BY <1>8 DEF HandleReady
  <2>2. PICK f : f = Head(down[n])
    OBVIOUS
  <2>3. phase[n] \in {"ready", "closed"} /\ f.epoch \in Epochs(n)
    BY <1>0, <2>1, <2>2, ClientReads
  <2>4. f.epoch # 0
    BY <1>0, <2>3 DEF Epochs
  <2>5. session' = [epoch |-> f.epoch, revision |-> f.revision]
    BY <1>8, <2>2 DEF HandleReady
  <2>6. session'.epoch = f.epoch
    BY <2>5
  <2>7. session' # NoSession
    BY <2>4, <2>6 DEF NoSession
  <2>. QED  BY <1>8, <1>0, <1>n, <2>1, <2>3, <2>7 DEF HandleReady, ClientTakes, ConnInv, nodeVars, vars
<1>9. ASSUME NEW n \in Conns, ApplyManifest(n) PROVE ConnInv'
  <2>1. ClientTakes(n, "manifest_changed")
    BY <1>9 DEF ApplyManifest
  <2>2. PICK v \in 1..MaxRevision : v = Head(down[n]).revision
    BY <1>0, <2>1, ClientReads
  <2>3. session # NoSession => session' # NoSession
    <3>1. ASSUME session # NoSession PROVE session'.revision = v
      BY <1>9, <1>0, <2>2, <3>1 DEF ApplyManifest
    <3>2. NoSession.revision # v
      BY <1>n DEF NoSession
    <3>. QED  BY <3>1, <3>2
  <2>. QED  BY <1>9, <1>0, <1>n, <2>1, <2>3 DEF ApplyManifest, ClientTakes, ConnInv, nodeVars, vars
<1>10. ASSUME NEW n \in Conns, SettleResult(n) PROVE ConnInv'
  BY <1>10, <1>0, <1>n DEF SettleResult, ClientTakes, ConnInv, clientVars, nodeVars, netVars, vars, Conns, Phase, Wire, ClientState
<1>11. ASSUME NEW n \in Conns, HandleCloseReconnect(n) PROVE ConnInv'
  BY <1>11, <1>0, <1>n DEF HandleCloseReconnect, LetGo, ConnInv, clientVars, nodeVars, netVars, vars, Conns, Phase, Wire, ClientState
<1>12. ASSUME NEW n \in Conns, HandleCloseStop(n) PROVE ConnInv'
  BY <1>12, <1>0, <1>n DEF HandleCloseStop, LetGo, ConnInv, clientVars, nodeVars, netVars, vars, Conns, Phase, Wire, ClientState
<1>13. ASSUME NEW n \in Conns, HandleHello(n) PROVE ConnInv'
  BY <1>13, <1>0, <1>n DEF HandleHello, NodeTakes, ConnInv, clientVars, nodeVars, netVars, vars, Conns, Phase, Wire, ClientState
<1>14. ASSUME NEW n \in Conns, HandleAuthenticate(n) PROVE ConnInv'
  BY <1>14, <1>0, <1>n DEF HandleAuthenticate, NodeTakes, ConnInv, clientVars, nodeVars, netVars, vars, Conns, Phase, Wire, ClientState
<1>15. ASSUME NEW n \in Conns, ReceiveInvoke(n) PROVE ConnInv'
  BY <1>15, <1>0, <1>n DEF ReceiveInvoke, NodeTakes, Submit, Replay, Duplicate, RejectStale, Accept, ConnInv, clientVars, nodeVars, netVars, vars, Conns, Phase, Wire, ClientState
<1>16. ASSUME NEW n \in Conns, ReceiveCancel(n) PROVE ConnInv'
  BY <1>16, <1>0, <1>n DEF ReceiveCancel, NodeTakes, Cancel, ConnInv, clientVars, nodeVars, netVars, vars, Conns, Phase, Wire, ClientState
<1>17. ASSUME NEW n \in Conns, SocketClosed(n) PROVE ConnInv'
  BY <1>17, <1>0, <1>n DEF SocketClosed, NodeTakes, ConnInv, clientVars, nodeVars, netVars, vars, Conns, Phase, Wire, ClientState
<1>18. ASSUME NEW n \in Conns, DropSilent(n) PROVE ConnInv'
  BY <1>18, <1>0, <1>n DEF DropSilent, ConnInv, clientVars, nodeVars, netVars, vars, Conns, Phase, Wire, ClientState
<1>19. ASSUME NEW n \in Conns, IdleTimeout(n) PROVE ConnInv'
  BY <1>19, <1>0, <1>n DEF IdleTimeout, CloseConnection, ConnInv, clientVars, nodeVars, netVars, vars, Conns, Phase, Wire, ClientState
<1>20. ASSUME NEW n \in Conns, Cut(n) PROVE ConnInv'
  BY <1>20, <1>0, <1>n DEF Cut, ConnInv, clientVars, nodeVars, netVars, vars, Conns, Phase, Wire, ClientState
<1>21. ASSUME NEW r \in Runs, RunnerStep(r) PROVE ConnInv'
  BY <1>21, <1>0, <1>n DEF RunnerStep, Finish, FinishDetached, ConnInv, clientVars, nodeVars, netVars, vars, Conns, Phase, Wire, ClientState
<1>22. ASSUME NEW r \in Runs, DeadlineStep(r) PROVE ConnInv'
  BY <1>22, <1>0, <1>n DEF DeadlineStep, Deadline, ConnInv, clientVars, nodeVars, netVars, vars, Conns, Phase, Wire, ClientState
<1>23. ASSUME ManifestChange PROVE ConnInv'
  BY <1>23, <1>0, <1>n DEF ManifestChange, ConnInv, clientVars, nodeVars, netVars, vars, Conns, Phase, Wire, ClientState
<1>24. ASSUME Stop PROVE ConnInv'
  BY <1>24, <1>0, <1>n DEF Stop, CutAll, AbortAll, ConnInv, clientVars, nodeVars, netVars, vars, Conns, Phase, Wire, ClientState
<1>25. ASSUME Start PROVE ConnInv'
  BY <1>25, <1>0, <1>n DEF Start, NewRunner, ConnInv, clientVars, nodeVars, netVars, vars, Conns, Phase, Wire, ClientState
<1>26. ASSUME Crash PROVE ConnInv'
  BY <1>26, <1>0, <1>n DEF Crash, CutAll, ProcessExit, ConnInv, clientVars, nodeVars, netVars, vars, Conns, Phase, Wire, ClientState
<1>27. ASSUME NewProcess PROVE ConnInv'
  BY <1>27, <1>0, <1>n DEF NewProcess, NewRunner, ConnInv, clientVars, nodeVars, netVars, vars, Conns, Phase, Wire, ClientState
<1>28. ASSUME UNCHANGED linkVars PROVE ConnInv'
  BY <1>28, <1>0, <1>n DEF linkVars, clientVars, ledger, nodeVars, netVars, ConnInv, vars, Conns, Phase, Wire, ClientState
<1>. QED BY <1>1, <1>2, <1>3, <1>4, <1>5, <1>6, <1>7, <1>8, <1>9, <1>10, <1>11, <1>12, <1>13, <1>14, <1>15, <1>16, <1>17, <1>18, <1>19, <1>20, <1>21, <1>22, <1>23, <1>24, <1>25, <1>26, <1>27, <1>28 DEF LinkNext, ClientStep, NodeStep

-----------------------------------------------------------------------------
(* Types. *)

StateTypes ==
  /\ cstate \in ClientState /\ reason \in {None, "disposed", "superseded"}
  /\ sock \in Conns \cup {None} /\ phase \in [Conns -> Phase]
  /\ ready \in Conns \cup {None} /\ wire \in [Conns -> Wire] /\ dialed \in 0..MaxConns
  /\ stopped \in BOOLEAN /\ exited \in BOOLEAN
  /\ epoch \in 1..(MaxRestarts + 1) /\ revision \in 1..MaxRevision /\ restarts \in 0..MaxRestarts
  /\ session \in {NoSession} \cup [epoch : 1..(MaxRestarts + 1), revision : 1..MaxRevision]
  /\ epoch <= restarts + 1
  /\ stopped => restarts < MaxRestarts
  /\ session # NoSession => session.epoch <= epoch

LEMMA StateTyped ==
  ASSUME LinkInv, [LinkNext]_linkVars
  PROVE  StateTypes'
<1>0. StateTypes /\ UpInv /\ DownInv
  BY DEF LinkInv, LinkTypes, LinkTypeOK, StateTypes, RunnerInv, RunnerTypeOK
<1>n. None \notin Conns /\ MaxConns \in Nat /\ MaxRevision \in Nat /\ MaxRestarts \in Nat
  BY LinkAssumption DEF LinkAssumption
<1>1. ASSUME OpenSocket PROVE StateTypes'
  BY <1>1, <1>0, <1>n DEF OpenSocket, StateTypes, clientVars, nodeVars, netVars, vars, Conns, Phase, Wire, ClientState, NoSession
<1>2. ASSUME NEW c \in CallIds, Track(c) PROVE StateTypes'
  BY <1>2, <1>0, <1>n DEF Track, StateTypes, clientVars, nodeVars, netVars, vars, Conns, Phase, Wire, ClientState, NoSession
<1>3. ASSUME NEW c \in CallIds, Abort(c) PROVE StateTypes'
  BY <1>3, <1>0, <1>n DEF Abort, Withdraw, StateTypes, clientVars, nodeVars, netVars, vars, Conns, Phase, Wire, ClientState, NoSession
<1>4. ASSUME NEW c \in CallIds, Timeout(c) PROVE StateTypes'
  BY <1>4, <1>0, <1>n DEF Timeout, Withdraw, StateTypes, clientVars, nodeVars, netVars, vars, Conns, Phase, Wire, ClientState, NoSession
<1>5. ASSUME Dispose PROVE StateTypes'
  BY <1>5, <1>0, <1>n DEF Dispose, LetGo, StateTypes, clientVars, nodeVars, netVars, vars, Conns, Phase, Wire, ClientState, NoSession
<1>6. ASSUME NEW n \in Conns, HandleOpen(n) PROVE StateTypes'
  BY <1>6, <1>0, <1>n DEF HandleOpen, StateTypes, clientVars, nodeVars, netVars, vars, Conns, Phase, Wire, ClientState, NoSession
<1>7. ASSUME NEW n \in Conns, HandleChallenge(n) PROVE StateTypes'
  BY <1>7, <1>0, <1>n DEF HandleChallenge, ClientTakes, StateTypes, clientVars, nodeVars, netVars, vars, Conns, Phase, Wire, ClientState, NoSession
<1>8. ASSUME NEW n \in Conns, HandleReady(n) PROVE StateTypes'
  <2>1. ClientTakes(n, "ready")
    BY <1>8 DEF HandleReady
  <2>2. PICK f : f = Head(down[n])
    OBVIOUS
  <2>3. f.epoch \in Epochs(n) /\ f.revision \in 1..MaxRevision
    BY <1>0, <2>1, <2>2, ClientReads
  <2>a. epoch \in 1..(MaxRestarts + 1)
    BY <1>0 DEF StateTypes
  <2>4. f.epoch \in 1..epoch
    BY <2>3, <2>a DEF Epochs
  <2>5. session' = [epoch |-> f.epoch, revision |-> f.revision]
    BY <1>8, <2>2 DEF HandleReady
  <2>6. f.epoch \in 1..(MaxRestarts + 1)
    BY <1>n, <2>4, <2>a
  <2>. QED  BY <1>8, <1>0, <1>n, <2>3, <2>4, <2>5, <2>6, <2>a DEF HandleReady, nodeVars, vars, StateTypes, ClientState
<1>9. ASSUME NEW n \in Conns, ApplyManifest(n) PROVE StateTypes'
  <2>1. ClientTakes(n, "manifest_changed")
    BY <1>9 DEF ApplyManifest
  <2>2. PICK v \in 1..MaxRevision : v = Head(down[n]).revision
    BY <1>0, <2>1, ClientReads
  <2>3. session' = IF session = NoSession THEN session ELSE [session EXCEPT !.revision = v]
    BY <1>9, <2>2 DEF ApplyManifest
  <2>4. session \in [epoch : 1..(MaxRestarts + 1), revision : 1..MaxRevision] =>
          /\ [session EXCEPT !.revision = v] \in [epoch : 1..(MaxRestarts + 1), revision : 1..MaxRevision]
          /\ [session EXCEPT !.revision = v].epoch = session.epoch
    OBVIOUS
  <2>. QED  BY <1>9, <1>0, <1>n, <2>3, <2>4 DEF ApplyManifest, nodeVars, vars, StateTypes
<1>10. ASSUME NEW n \in Conns, SettleResult(n) PROVE StateTypes'
  BY <1>10, <1>0, <1>n DEF SettleResult, ClientTakes, StateTypes, clientVars, nodeVars, netVars, vars, Conns, Phase, Wire, ClientState, NoSession
<1>11. ASSUME NEW n \in Conns, HandleCloseReconnect(n) PROVE StateTypes'
  BY <1>11, <1>0, <1>n DEF HandleCloseReconnect, LetGo, StateTypes, clientVars, nodeVars, netVars, vars, Conns, Phase, Wire, ClientState, NoSession
<1>12. ASSUME NEW n \in Conns, HandleCloseStop(n) PROVE StateTypes'
  BY <1>12, <1>0, <1>n DEF HandleCloseStop, LetGo, StateTypes, clientVars, nodeVars, netVars, vars, Conns, Phase, Wire, ClientState, NoSession
<1>13. ASSUME NEW n \in Conns, HandleHello(n) PROVE StateTypes'
  BY <1>13, <1>0, <1>n DEF HandleHello, NodeTakes, StateTypes, clientVars, nodeVars, netVars, vars, Conns, Phase, Wire, ClientState, NoSession
<1>14. ASSUME NEW n \in Conns, HandleAuthenticate(n) PROVE StateTypes'
  BY <1>14, <1>0, <1>n DEF HandleAuthenticate, NodeTakes, StateTypes, clientVars, nodeVars, netVars, vars, Conns, Phase, Wire, ClientState, NoSession
<1>15. ASSUME NEW n \in Conns, ReceiveInvoke(n) PROVE StateTypes'
  BY <1>15, <1>0, <1>n DEF ReceiveInvoke, NodeTakes, Submit, Replay, Duplicate, RejectStale, Accept, StateTypes, clientVars, nodeVars, netVars, vars, Conns, Phase, Wire, ClientState, NoSession
<1>16. ASSUME NEW n \in Conns, ReceiveCancel(n) PROVE StateTypes'
  BY <1>16, <1>0, <1>n DEF ReceiveCancel, NodeTakes, Cancel, StateTypes, clientVars, nodeVars, netVars, vars, Conns, Phase, Wire, ClientState, NoSession
<1>17. ASSUME NEW n \in Conns, SocketClosed(n) PROVE StateTypes'
  BY <1>17, <1>0, <1>n DEF SocketClosed, NodeTakes, StateTypes, clientVars, nodeVars, netVars, vars, Conns, Phase, Wire, ClientState, NoSession
<1>18. ASSUME NEW n \in Conns, DropSilent(n) PROVE StateTypes'
  BY <1>18, <1>0, <1>n DEF DropSilent, StateTypes, clientVars, nodeVars, netVars, vars, Conns, Phase, Wire, ClientState, NoSession
<1>19. ASSUME NEW n \in Conns, IdleTimeout(n) PROVE StateTypes'
  BY <1>19, <1>0, <1>n DEF IdleTimeout, CloseConnection, StateTypes, clientVars, nodeVars, netVars, vars, Conns, Phase, Wire, ClientState, NoSession
<1>20. ASSUME NEW n \in Conns, Cut(n) PROVE StateTypes'
  BY <1>20, <1>0, <1>n DEF Cut, StateTypes, clientVars, nodeVars, netVars, vars, Conns, Phase, Wire, ClientState, NoSession
<1>21. ASSUME NEW r \in Runs, RunnerStep(r) PROVE StateTypes'
  BY <1>21, <1>0, <1>n DEF RunnerStep, Finish, FinishDetached, StateTypes, clientVars, nodeVars, netVars, vars, Conns, Phase, Wire, ClientState, NoSession
<1>22. ASSUME NEW r \in Runs, DeadlineStep(r) PROVE StateTypes'
  BY <1>22, <1>0, <1>n DEF DeadlineStep, Deadline, StateTypes, clientVars, nodeVars, netVars, vars, Conns, Phase, Wire, ClientState, NoSession
<1>23. ASSUME ManifestChange PROVE StateTypes'
  BY <1>23, <1>0, <1>n DEF ManifestChange, StateTypes, clientVars, nodeVars, netVars, vars, Conns, Phase, Wire, ClientState, NoSession
<1>24. ASSUME Stop PROVE StateTypes'
  BY <1>24, <1>0, <1>n DEF Stop, CutAll, AbortAll, StateTypes, clientVars, nodeVars, netVars, vars, Conns, Phase, Wire, ClientState, NoSession
<1>25. ASSUME Start PROVE StateTypes'
  <2>1. /\ epoch \in 1..(MaxRestarts + 1) /\ restarts \in 0..MaxRestarts /\ epoch <= restarts + 1 /\ restarts < MaxRestarts
        /\ session \in {NoSession} \cup [epoch : 1..(MaxRestarts + 1), revision : 1..MaxRevision]
        /\ session # NoSession => session.epoch <= epoch
    BY <1>25, <1>0 DEF Start, NewRunner, StateTypes
  <2>2. /\ epoch + 1 \in 1..(MaxRestarts + 1) /\ restarts + 1 \in 0..MaxRestarts
        /\ epoch + 1 <= restarts + 1 + 1 /\ epoch <= restarts + 1 + 1
        /\ session # NoSession => session.epoch <= epoch + 1
    <3>1. session # NoSession => session.epoch \in 1..(MaxRestarts + 1)
      BY <2>1
    <3>. QED  BY <1>n, <2>1, <3>1
  <2>. QED  BY <1>25, <1>0, <2>2 DEF Start, NewRunner, StateTypes, clientVars, nodeVars, netVars
<1>26. ASSUME Crash PROVE StateTypes'
  BY <1>26, <1>0, <1>n DEF Crash, CutAll, ProcessExit, StateTypes, clientVars, nodeVars, netVars, vars, Conns, Phase, Wire, ClientState, NoSession
<1>27. ASSUME NewProcess PROVE StateTypes'
  <2>1. /\ epoch \in 1..(MaxRestarts + 1) /\ restarts \in 0..MaxRestarts /\ epoch <= restarts + 1 /\ restarts < MaxRestarts
        /\ session \in {NoSession} \cup [epoch : 1..(MaxRestarts + 1), revision : 1..MaxRevision]
        /\ session # NoSession => session.epoch <= epoch
    BY <1>27, <1>0 DEF NewProcess, NewRunner, StateTypes
  <2>2. /\ epoch + 1 \in 1..(MaxRestarts + 1) /\ restarts + 1 \in 0..MaxRestarts
        /\ epoch + 1 <= restarts + 1 + 1 /\ epoch <= restarts + 1 + 1
        /\ session # NoSession => session.epoch <= epoch + 1
    <3>1. session # NoSession => session.epoch \in 1..(MaxRestarts + 1)
      BY <2>1
    <3>. QED  BY <1>n, <2>1, <3>1
  <2>. QED  BY <1>27, <1>0, <2>2 DEF NewProcess, NewRunner, StateTypes, clientVars, nodeVars, netVars
<1>28. ASSUME UNCHANGED linkVars PROVE StateTypes'
  BY <1>28, <1>0, <1>n DEF linkVars, clientVars, ledger, nodeVars, netVars, StateTypes, vars, Conns, Phase, Wire, ClientState, NoSession
<1>. QED BY <1>1, <1>2, <1>3, <1>4, <1>5, <1>6, <1>7, <1>8, <1>9, <1>10, <1>11, <1>12, <1>13, <1>14, <1>15, <1>16, <1>17, <1>18, <1>19, <1>20, <1>21, <1>22, <1>23, <1>24, <1>25, <1>26, <1>27, <1>28 DEF LinkNext, ClientStep, NodeStep

\* The session a ready frame grants.
LEMMA ReadyFrame ==
  ASSUME LinkTypes, DownInv, NEW n \in Conns, ClientTakes(n, "ready")
  PROVE  /\ Head(down[n]).epoch \in 1..(MaxRestarts + 1) /\ Head(down[n]).epoch <= epoch
         /\ wire[n] # "cut" => Head(down[n]).epoch = epoch
         /\ Head(down[n]).revision \in 1..MaxRevision
<1>1. PICK f : f = Head(down[n])
  OBVIOUS
<1>2. f.epoch \in Epochs(n) /\ f.revision \in 1..MaxRevision
  BY <1>1, ClientReads
<1>3. epoch \in 1..(MaxRestarts + 1) /\ MaxRestarts \in Nat
  BY LinkAssumption DEF LinkAssumption, LinkTypes, LinkTypeOK
<1>. QED  BY <1>1, <1>2, <1>3 DEF Epochs

LedgerTypes ==
  /\ entries \in Seq(CallIds) /\ outcome \in [CallIds -> Answer \cup {None}]
  /\ dispatched \in [CallIds -> BOOLEAN] /\ frameRev \in [CallIds -> 1..MaxRevision \cup {None}]
  /\ up = [n \in Conns |-> up[n]] /\ down = [n \in Conns |-> down[n]]

LEMMA LedgerTyped ==
  ASSUME LinkInv, [LinkNext]_linkVars
  PROVE  LedgerTypes'
<1>0. LedgerTypes /\ LinkTypes /\ ConnInv /\ UpInv /\ DownInv
  BY DEF LinkInv, LinkTypes, LinkTypeOK, LedgerTypes
<1>1. ASSUME OpenSocket PROVE LedgerTypes'
  BY <1>1, <1>0 DEF OpenSocket, LedgerTypes, ledger, netVars
<1>2. ASSUME NEW c \in CallIds, Track(c) PROVE LedgerTypes'
  <2>1. entries' \in Seq(CallIds)
    <3>1. entries' = Append(entries, c)
      BY <1>2 DEF Track
    <3>. QED  BY <1>0, <3>1, PendingAdded DEF LedgerTypes
  <2>2. CASE cstate = "ready"
    <3>1. /\ frameRev' = [frameRev EXCEPT ![c] = session.revision]
          /\ dispatched' = [dispatched EXCEPT ![c] = TRUE] /\ outcome' = outcome /\ down' = down
          /\ up' = Upload(sock, <<Invoke(c, session.revision)>>)
      BY <1>2, <2>2 DEF Track
    <3>2. session.revision \in 1..MaxRevision
      BY <1>0, <2>2 DEF ConnInv, LinkTypes, LinkTypeOK
    <3>3. up' = [m \in Conns |-> up'[m]]
      <4>1. PICK q : q = <<Invoke(c, session.revision)>>
        OBVIOUS
      <4>. QED  BY <1>0, <3>1, <4>1, UploadWrites
    <3>. QED  BY <1>0, <2>1, <3>1, <3>2, <3>3 DEF LedgerTypes
  <2>3. CASE cstate # "ready"
    BY <1>2, <1>0, <2>1, <2>3 DEF Track, LedgerTypes
  <2>. QED  BY <2>2, <2>3
<1>3. ASSUME NEW c \in CallIds, Abort(c) PROVE LedgerTypes'
  <2>1. PICK a \in Answer : Withdraw(c, a)
    BY <1>3 DEF Abort, Answer
  <2>2. SettleCall(c, a) /\ down' = down /\ up' = IF cstate = "ready" THEN Upload(sock, <<CancelFrame(c)>>) ELSE up
    BY <2>1 DEF Withdraw
  <2>3. /\ entries' \in Seq(CallIds) /\ outcome' \in [CallIds -> Answer \cup {None}]
        /\ dispatched' = dispatched /\ frameRev' = frameRev
    BY <1>0, <2>2, LedgerSettles DEF LinkTypes
  <2>4. up' = [m \in Conns |-> up'[m]]
    <3>1. CASE cstate = "ready"
      BY <1>0, <2>2, <3>1, UploadWrites
    <3>. QED  BY <1>0, <2>2, <3>1 DEF LedgerTypes
  <2>. QED  BY <1>0, <2>2, <2>3, <2>4 DEF LedgerTypes
<1>4. ASSUME NEW c \in CallIds, Timeout(c) PROVE LedgerTypes'
  <2>1. PICK a \in Answer : Withdraw(c, a)
    BY <1>4 DEF Timeout, Answer
  <2>2. SettleCall(c, a) /\ down' = down /\ up' = IF cstate = "ready" THEN Upload(sock, <<CancelFrame(c)>>) ELSE up
    BY <2>1 DEF Withdraw
  <2>3. /\ entries' \in Seq(CallIds) /\ outcome' \in [CallIds -> Answer \cup {None}]
        /\ dispatched' = dispatched /\ frameRev' = frameRev
    BY <1>0, <2>2, LedgerSettles DEF LinkTypes
  <2>4. up' = [m \in Conns |-> up'[m]]
    <3>1. CASE cstate = "ready"
      BY <1>0, <2>2, <3>1, UploadWrites
    <3>. QED  BY <1>0, <2>2, <3>1 DEF LedgerTypes
  <2>. QED  BY <1>0, <2>2, <2>3, <2>4 DEF LedgerTypes
<1>5. ASSUME Dispose PROVE LedgerTypes'
  <2>1. FailAll
    BY <1>5 DEF Dispose
  <2>2. /\ entries' \in Seq(CallIds) /\ outcome' \in [CallIds -> Answer \cup {None}]
        /\ dispatched' = dispatched /\ frameRev' = frameRev
    BY <1>0, <2>1, LedgerFails DEF LinkTypes
  <2>. QED  BY <1>5, <1>0, <2>2 DEF Dispose, LetGo, LedgerTypes
<1>6. ASSUME NEW n \in Conns, HandleOpen(n) PROVE LedgerTypes'
  BY <1>6, <1>0 DEF HandleOpen, LedgerTypes, ledger, netVars
<1>7. ASSUME NEW n \in Conns, HandleChallenge(n) PROVE LedgerTypes'
  <2>1. up' = [m \in Conns |-> up'[m]]
    BY <1>7, <1>0, UploadWrites DEF HandleChallenge
  <2>. QED  BY <1>7, <1>0, <2>1 DEF HandleChallenge, ClientTakes, LedgerTypes, ledger
<1>8. ASSUME NEW n \in Conns, HandleReady(n) PROVE LedgerTypes'
  <2>1. ClientTakes(n, "ready")
    BY <1>8 DEF HandleReady
  <2>2. PICK new \in [epoch : 1..(MaxRestarts + 1), revision : 1..MaxRevision] :
          new = [epoch |-> Head(down[n]).epoch, revision |-> Head(down[n]).revision]
    <3>1. Head(down[n]).epoch \in 1..(MaxRestarts + 1) /\ Head(down[n]).revision \in 1..MaxRevision
      BY <1>0, <2>1, ReadyFrame
    <3>. QED  BY <3>1
  <2>3. Flush(new)
    BY <1>8, <2>2 DEF HandleReady
  <2>4. /\ entries' \in Seq(CallIds) /\ outcome' \in [CallIds -> Answer \cup {None}]
        /\ dispatched' \in [CallIds -> BOOLEAN] /\ frameRev' \in [CallIds -> 1..MaxRevision \cup {None}]
        /\ \E q : up' = Upload(sock, q)
    BY <1>0, <2>3, LedgerFlushes
  <2>5. up' = [m \in Conns |-> up'[m]]
    BY <1>0, <2>4, UploadWrites
  <2>. QED  BY <1>0, <2>1, <2>4, <2>5 DEF ClientTakes, LedgerTypes
<1>9. ASSUME NEW n \in Conns, ApplyManifest(n) PROVE LedgerTypes'
  BY <1>9, <1>0 DEF ApplyManifest, ClientTakes, LedgerTypes, ledger, netVars
<1>10. ASSUME NEW n \in Conns, SettleResult(n) PROVE LedgerTypes'
  <2>1. PICK m : m = Head(down[n])
    OBVIOUS
  <2>2. m \in Reported
    BY <1>10, <1>0, <2>1, ClientReads DEF SettleResult
  <2>3. m.call \in CallIds
    BY <2>2 DEF Reported
  <2>4. CASE Pending(m.call)
    <3>1. SettleCall(m.call, Verdict(m.status)) /\ Verdict(m.status) \in Answer
      BY <1>10, <2>1, <2>4 DEF SettleResult, Verdict, Answer
    <3>2. /\ entries' \in Seq(CallIds) /\ outcome' \in [CallIds -> Answer \cup {None}]
          /\ dispatched' = dispatched /\ frameRev' = frameRev
      BY <1>0, <2>3, <3>1, LedgerSettles DEF LinkTypes
    <3>. QED  BY <1>10, <1>0, <3>2 DEF SettleResult, ClientTakes, LedgerTypes
  <2>5. CASE ~Pending(m.call)
    BY <1>10, <1>0, <2>1, <2>5 DEF SettleResult, ClientTakes, LedgerTypes, ledger
  <2>. QED  BY <2>4, <2>5
<1>11. ASSUME NEW n \in Conns, HandleCloseReconnect(n) PROVE LedgerTypes'
  BY <1>11, <1>0 DEF HandleCloseReconnect, LetGo, LedgerTypes, ledger, netVars
<1>12. ASSUME NEW n \in Conns, HandleCloseStop(n) PROVE LedgerTypes'
  <2>1. FailAll
    BY <1>12 DEF HandleCloseStop
  <2>2. /\ entries' \in Seq(CallIds) /\ outcome' \in [CallIds -> Answer \cup {None}]
        /\ dispatched' = dispatched /\ frameRev' = frameRev
    BY <1>0, <2>1, LedgerFails DEF LinkTypes
  <2>. QED  BY <1>12, <1>0, <2>2 DEF HandleCloseStop, LetGo, LedgerTypes
<1>13. ASSUME NEW n \in Conns, HandleHello(n) PROVE LedgerTypes'
  <2>1. down' = [m \in Conns |-> down'[m]]
    BY <1>13, <1>0, DownloadWrites DEF HandleHello
  <2>. QED  BY <1>13, <1>0, <2>1 DEF HandleHello, LedgerTypes, ledger
<1>14. ASSUME NEW n \in Conns, HandleAuthenticate(n) PROVE LedgerTypes'
  BY <1>14, <1>0 DEF HandleAuthenticate, NodeTakes, LedgerTypes, ledger, netVars
<1>15. ASSUME NEW n \in Conns, ReceiveInvoke(n) PROVE LedgerTypes'
  <2>1. down' = [m \in Conns |-> down'[m]]
    BY <1>15, <1>0, ForwardWrites DEF ReceiveInvoke
  <2>. QED  BY <1>15, <1>0, <2>1 DEF ReceiveInvoke, LedgerTypes, ledger
<1>16. ASSUME NEW n \in Conns, ReceiveCancel(n) PROVE LedgerTypes'
  <2>1. down' = [m \in Conns |-> down'[m]]
    BY <1>16, <1>0, ForwardWrites DEF ReceiveCancel
  <2>. QED  BY <1>16, <1>0, <2>1 DEF ReceiveCancel, LedgerTypes, ledger
<1>17. ASSUME NEW n \in Conns, SocketClosed(n) PROVE LedgerTypes'
  BY <1>17, <1>0 DEF SocketClosed, NodeTakes, LedgerTypes, ledger, netVars
<1>18. ASSUME NEW n \in Conns, DropSilent(n) PROVE LedgerTypes'
  BY <1>18, <1>0 DEF DropSilent, LedgerTypes, ledger, netVars
<1>19. ASSUME NEW n \in Conns, IdleTimeout(n) PROVE LedgerTypes'
  BY <1>19, <1>0 DEF IdleTimeout, CloseConnection, Closing, LedgerTypes, ledger, netVars
<1>20. ASSUME NEW n \in Conns, Cut(n) PROVE LedgerTypes'
  BY <1>20, <1>0 DEF Cut, LedgerTypes, ledger, netVars
<1>21. ASSUME NEW r \in Runs, RunnerStep(r) PROVE LedgerTypes'
  <2>1. down' = [m \in Conns |-> down'[m]]
    BY <1>21, <1>0, ForwardWrites DEF RunnerStep
  <2>. QED  BY <1>21, <1>0, <2>1 DEF RunnerStep, LedgerTypes, ledger
<1>22. ASSUME NEW r \in Runs, DeadlineStep(r) PROVE LedgerTypes'
  <2>1. down' = [m \in Conns |-> down'[m]]
    BY <1>22, <1>0, ForwardWrites DEF DeadlineStep
  <2>. QED  BY <1>22, <1>0, <2>1 DEF DeadlineStep, LedgerTypes, ledger
<1>23. ASSUME ManifestChange PROVE LedgerTypes'
  <2>1. down' = [m \in Conns |-> down'[m]]
    <3>1. CASE ready = None
      BY <1>23, <1>0, <3>1 DEF ManifestChange, LedgerTypes
    <3>2. CASE ready # None
      BY <1>23, <1>0, <3>2, DownloadWrites DEF ManifestChange
    <3>. QED  BY <3>1, <3>2
  <2>. QED  BY <1>23, <1>0, <2>1 DEF ManifestChange, LedgerTypes, ledger
<1>24. ASSUME Stop PROVE LedgerTypes'
  BY <1>24, <1>0 DEF Stop, CutAll, LedgerTypes, ledger, netVars
<1>25. ASSUME Start PROVE LedgerTypes'
  BY <1>25, <1>0 DEF Start, LedgerTypes, ledger, netVars
<1>26. ASSUME Crash PROVE LedgerTypes'
  BY <1>26, <1>0 DEF Crash, CutAll, LedgerTypes, ledger, netVars
<1>27. ASSUME NewProcess PROVE LedgerTypes'
  BY <1>27, <1>0 DEF NewProcess, LedgerTypes, ledger, netVars
<1>28. ASSUME UNCHANGED linkVars PROVE LedgerTypes'
  BY <1>28, <1>0 DEF linkVars, clientVars, ledger, nodeVars, netVars, LedgerTypes
<1>. QED BY <1>1, <1>2, <1>3, <1>4, <1>5, <1>6, <1>7, <1>8, <1>9, <1>10, <1>11, <1>12, <1>13, <1>14, <1>15, <1>16, <1>17, <1>18, <1>19, <1>20, <1>21, <1>22, <1>23, <1>24, <1>25, <1>26, <1>27, <1>28 DEF LinkNext, ClientStep, NodeStep

LEMMA TypesKept ==
  ASSUME LinkInv, [LinkNext]_linkVars
  PROVE  LinkTypes'
<1>1. StateTypes' /\ LedgerTypes'
  BY StateTyped, LedgerTyped
<1>. QED  BY <1>1 DEF StateTypes, LedgerTypes, LinkTypes, LinkTypeOK

-----------------------------------------------------------------------------
(* What every step does to the frames under way. *)

UpSteps == Out \subseteq Out' /\ \A m \in Conns : UpStep(m)

LEMMA UpStepped ==
  ASSUME LinkInv, [LinkNext]_linkVars
  PROVE  UpSteps
<1>0. /\ LinkTypes /\ LinkTypeOK /\ ConnInv /\ UpInv /\ DownInv /\ LedgerInv
  BY DEF LinkInv, LinkTypes
<1>1. ASSUME OpenSocket PROVE UpSteps
  BY <1>1, <1>0 DEF OpenSocket, UpSteps, UpStep, Out, LinkTypeOK, LinkTypes, ledger, nodeVars, netVars
<1>2. ASSUME NEW c \in CallIds, Track(c) PROVE UpSteps
  <2>1. CASE cstate = "ready"
    <3>1. PICK v \in 1..MaxRevision : v = session.revision
      BY <1>0, <2>1 DEF ConnInv, LinkTypeOK
    <3>2. PICK q : q = <<Invoke(c, v)>>
      OBVIOUS
    <3>3. dispatched' = [dispatched EXCEPT ![c] = TRUE] /\ up' = Upload(sock, q) /\ phase' = phase
      BY <1>2, <2>1, <3>1, <3>2 DEF Track, nodeVars
    <3>4. \A m \in Conns : up'[m] = IF m = sock /\ ClientCanWrite(sock) THEN up[m] \o q ELSE up[m]
      BY <1>0, <3>3, UploadWrites
    <3>5. Out \subseteq Out' /\ c \in Out'
      BY <1>0, <3>3 DEF Out, LinkTypeOK
    <3>6. q \in Seq(UpFrames("ready", Out'))
      <4>1. PICK f \in UpFrames("ready", Out') : f = Invoke(c, v)
        BY <3>5 DEF UpFrames, Invoke
      <4>2. <<f>> \in Seq(UpFrames("ready", Out'))
        OBVIOUS
      <4>. QED  BY <3>2, <4>1, <4>2
    <3>7. ClientCanWrite(sock) /\ sock \in Conns => phase[sock] = "ready"
      BY <1>0, <2>1 DEF ConnInv, ClientCanWrite
    <3>8. \A d \in CallIds : Holds(q, "invoke", d) => Writable(d)
      <4>1. PICK f : f = Invoke(c, v)
        OBVIOUS
      <4>2. \A d \in CallIds : Holds(q, "invoke", d) => d = c
        BY <3>2, <4>1, HoldsOne DEF Invoke
      <4>3. ~dispatched[c]
        BY <1>2, <1>0 DEF Track, LedgerInv
      <4>. QED  BY <4>2, <4>3 DEF Writable
    <3>. HIDE DEF Out
    <3>. QED  BY <3>3, <3>4, <3>5, <3>6, <3>7, <3>8 DEF UpSteps, UpStep
  <2>2. CASE cstate # "ready"
    BY <1>2, <2>2 DEF Track, nodeVars, UpSteps, UpStep, Out
  <2>. QED  BY <2>1, <2>2
<1>3. ASSUME NEW c \in CallIds, Abort(c) PROVE UpSteps
  <2>1. PICK a \in Answer : Withdraw(c, a)
    BY <1>3 DEF Abort, Answer
  <2>2. SettleCall(c, a) /\ phase' = phase /\ up' = IF cstate = "ready" THEN Upload(sock, <<CancelFrame(c)>>) ELSE up
    BY <2>1 DEF Withdraw, nodeVars
  <2>3. Out \subseteq Out'
    BY <2>2 DEF SettleCall, Out
  <2>4. CASE cstate = "ready"
    <3>1. PICK q : q = <<CancelFrame(c)>>
      OBVIOUS
    <3>2. \A m \in Conns : up'[m] = IF m = sock /\ ClientCanWrite(sock) THEN up[m] \o q ELSE up[m]
      BY <1>0, <2>2, <2>4, <3>1, UploadWrites
    <3>3. q \in Seq(UpFrames("ready", Out'))
      <4>1. PICK f \in UpFrames("ready", Out') : f = CancelFrame(c)
        BY DEF UpFrames, CancelFrame
      <4>2. <<f>> \in Seq(UpFrames("ready", Out'))
        OBVIOUS
      <4>. QED  BY <3>1, <4>1, <4>2
    <3>4. ClientCanWrite(sock) /\ sock \in Conns => phase[sock] = "ready"
      BY <1>0, <2>4 DEF ConnInv, ClientCanWrite
    <3>5. \A d \in CallIds : ~Holds(q, "invoke", d)
      <4>1. PICK f : f = CancelFrame(c)
        OBVIOUS
      <4>. QED  BY <3>1, <4>1, HoldsOne DEF CancelFrame
    <3>. HIDE DEF Out
    <3>. QED  BY <2>2, <2>3, <3>2, <3>3, <3>4, <3>5 DEF UpSteps, UpStep
  <2>5. CASE cstate # "ready"
    BY <2>2, <2>3, <2>5 DEF UpSteps, UpStep
  <2>. QED  BY <2>4, <2>5
<1>4. ASSUME NEW c \in CallIds, Timeout(c) PROVE UpSteps
  <2>1. PICK a \in Answer : Withdraw(c, a)
    BY <1>4 DEF Timeout, Answer
  <2>2. SettleCall(c, a) /\ phase' = phase /\ up' = IF cstate = "ready" THEN Upload(sock, <<CancelFrame(c)>>) ELSE up
    BY <2>1 DEF Withdraw, nodeVars
  <2>3. Out \subseteq Out'
    BY <2>2 DEF SettleCall, Out
  <2>4. CASE cstate = "ready"
    <3>1. PICK q : q = <<CancelFrame(c)>>
      OBVIOUS
    <3>2. \A m \in Conns : up'[m] = IF m = sock /\ ClientCanWrite(sock) THEN up[m] \o q ELSE up[m]
      BY <1>0, <2>2, <2>4, <3>1, UploadWrites
    <3>3. q \in Seq(UpFrames("ready", Out'))
      <4>1. PICK f \in UpFrames("ready", Out') : f = CancelFrame(c)
        BY DEF UpFrames, CancelFrame
      <4>2. <<f>> \in Seq(UpFrames("ready", Out'))
        OBVIOUS
      <4>. QED  BY <3>1, <4>1, <4>2
    <3>4. ClientCanWrite(sock) /\ sock \in Conns => phase[sock] = "ready"
      BY <1>0, <2>4 DEF ConnInv, ClientCanWrite
    <3>5. \A d \in CallIds : ~Holds(q, "invoke", d)
      <4>1. PICK f : f = CancelFrame(c)
        OBVIOUS
      <4>. QED  BY <3>1, <4>1, HoldsOne DEF CancelFrame
    <3>. HIDE DEF Out
    <3>. QED  BY <2>2, <2>3, <3>2, <3>3, <3>4, <3>5 DEF UpSteps, UpStep
  <2>5. CASE cstate # "ready"
    BY <2>2, <2>3, <2>5 DEF UpSteps, UpStep
  <2>. QED  BY <2>4, <2>5
<1>5. ASSUME Dispose PROVE UpSteps
  <2>1. /\ phase' = phase /\ Out \subseteq Out'
        /\ \A m \in Conns : up'[m] = IF m = sock /\ ClientCanWrite(m) THEN Append(up[m], Close("transient")) ELSE up[m]
    <3>0. None \notin Conns
      BY LinkAssumption DEF LinkAssumption
    <3>1. phase' = phase /\ Out \subseteq Out'
      BY <1>5 DEF Dispose, FailAll, Out, nodeVars
    <3>2. CASE sock = None
      BY <1>5, <3>0, <3>1, <3>2 DEF Dispose
    <3>3. CASE sock # None
      <4>1. LetGo(sock)
        BY <1>5, <3>3 DEF Dispose
      <4>. QED  BY <1>0, <3>1, <4>1 DEF LetGo, ClientCanWrite, LinkTypes
    <3>. QED  BY <3>2, <3>3
  <2>2. \A m \in Conns : ClientCanWrite(m) => phase[m] \notin {"none", "closed"}
    BY <1>0 DEF ConnInv, ClientCanWrite
  <2>. QED  BY <2>1, <2>2 DEF UpSteps, UpStep
<1>6. ASSUME NEW n \in Conns, HandleOpen(n) PROVE UpSteps
  BY <1>6, <1>0 DEF HandleOpen, UpSteps, UpStep, Out, LinkTypeOK, LinkTypes, ledger, nodeVars, netVars
<1>7. ASSUME NEW n \in Conns, HandleChallenge(n) PROVE UpSteps
  <2>1. phase' = phase /\ Out \subseteq Out' /\ up' = Upload(n, <<Authenticate>>) /\ ClientTakes(n, "challenge")
    BY <1>7 DEF HandleChallenge, Out, nodeVars, ledger
  <2>2. PICK q : q = <<Authenticate>>
    OBVIOUS
  <2>3. \A m \in Conns : up'[m] = IF m = n /\ ClientCanWrite(n) THEN up[m] \o q ELSE up[m]
    BY <1>0, <2>1, <2>2, UploadWrites
  <2>4. phase[n] \notin {"none", "hello"} /\ phase[n] \in Phase
    BY <1>0, <2>1, ClientReads DEF LinkTypeOK
  <2>5. ClientCanWrite(n) => phase[n] \in {"authenticate", "ready"}
    BY <2>4 DEF ClientCanWrite, Phase
  <2>. QED  BY <2>1, <2>2, <2>3, <2>5 DEF UpSteps, UpStep
<1>8. ASSUME NEW n \in Conns, HandleReady(n) PROVE UpSteps
  <2>1. ClientTakes(n, "ready") /\ phase' = phase /\ sock = n
    BY <1>8 DEF HandleReady, ClientTakes, nodeVars
  <2>2. PICK new \in [epoch : 1..(MaxRestarts + 1), revision : 1..MaxRevision] :
          new = [epoch |-> Head(down[n]).epoch, revision |-> Head(down[n]).revision]
    <3>1. Head(down[n]).epoch \in 1..(MaxRestarts + 1) /\ Head(down[n]).revision \in 1..MaxRevision
      BY <1>0, <2>1, ReadyFrame
    <3>. QED  BY <3>1
  <2>3. Flush(new)
    BY <1>8, <2>2 DEF HandleReady
  <2>4. /\ \A c \in CallIds : dispatched'[c] <=> dispatched[c] \/ Pending(c)
        /\ \E q \in Seq(UpFrames("ready", Out')) :
             up' = Upload(sock, q) /\ \A c \in CallIds : Holds(q, "invoke", c) <=> Pending(c)'
        /\ \A c \in CallIds : Pending(c)' => Pending(c) /\ ~(dispatched[c] /\ session # NoSession /\ session.epoch # new.epoch)
    BY <1>0, <2>3, LedgerFlushes
  <2>5. Out \subseteq Out'
    BY <2>4 DEF Out
  <2>. HIDE DEF Out
  <2>6. PICK q \in Seq(UpFrames("ready", Out')) :
          up' = Upload(sock, q) /\ \A c \in CallIds : Holds(q, "invoke", c) <=> Pending(c)'
    BY <2>4
  <2>7. \A m \in Conns : up'[m] = IF m = n /\ ClientCanWrite(n) THEN up[m] \o q ELSE up[m]
    BY <1>0, <2>1, <2>6, UploadWrites
  <2>8. ClientCanWrite(n) => phase[n] = "ready" /\ new.epoch = epoch
    BY <1>0, <2>1, <2>2, ClientReads, ReadyFrame DEF ClientCanWrite
  <2>9. ClientCanWrite(n) => \A c \in CallIds : Holds(q, "invoke", c) => Writable(c)
    BY <1>0, <2>4, <2>6, <2>8 DEF Writable, LedgerInv
  <2>. QED  BY <2>1, <2>5, <2>6, <2>7, <2>8, <2>9 DEF UpSteps, UpStep
<1>9. ASSUME NEW n \in Conns, ApplyManifest(n) PROVE UpSteps
  BY <1>9, <1>0 DEF ApplyManifest, ClientTakes, UpSteps, UpStep, Out, LinkTypeOK, LinkTypes, ledger, nodeVars, netVars
<1>10. ASSUME NEW n \in Conns, SettleResult(n) PROVE UpSteps
  <2>1. Out \subseteq Out' /\ phase' = phase /\ up' = up
    BY <1>10 DEF SettleResult, SettleCall, Out, nodeVars, ledger
  <2>. QED  BY <2>1 DEF UpSteps, UpStep
<1>11. ASSUME NEW n \in Conns, HandleCloseReconnect(n) PROVE UpSteps
  <2>1. /\ phase' = phase /\ Out \subseteq Out'
        /\ \A m \in Conns : up'[m] = IF m = n /\ ClientCanWrite(m) THEN Append(up[m], Close("transient")) ELSE up[m]
    BY <1>11, <1>0 DEF HandleCloseReconnect, LetGo, ClientCanWrite, FailAll, Out, nodeVars, ledger, LinkTypes
  <2>2. \A m \in Conns : ClientCanWrite(m) => phase[m] \notin {"none", "closed"}
    BY <1>0 DEF ConnInv, ClientCanWrite
  <2>. QED  BY <2>1, <2>2 DEF UpSteps, UpStep
<1>12. ASSUME NEW n \in Conns, HandleCloseStop(n) PROVE UpSteps
  <2>1. /\ phase' = phase /\ Out \subseteq Out'
        /\ \A m \in Conns : up'[m] = IF m = n /\ ClientCanWrite(m) THEN Append(up[m], Close("transient")) ELSE up[m]
    BY <1>12, <1>0 DEF HandleCloseStop, LetGo, ClientCanWrite, FailAll, Out, nodeVars, ledger, LinkTypes
  <2>2. \A m \in Conns : ClientCanWrite(m) => phase[m] \notin {"none", "closed"}
    BY <1>0 DEF ConnInv, ClientCanWrite
  <2>. QED  BY <2>1, <2>2 DEF UpSteps, UpStep
<1>13. ASSUME NEW n \in Conns, HandleHello(n) PROVE UpSteps
  <2>1. NodeTakes(n, "hello")
    BY <1>13 DEF HandleHello
  <2>2. up[n] # <<>>
    BY <2>1 DEF NodeTakes
  <2>. QED  BY <1>13, <1>0, <2>2 DEF HandleHello, UpSteps, UpStep, Out, LinkTypeOK, LinkTypes, ledger, nodeVars
<1>14. ASSUME NEW n \in Conns, HandleAuthenticate(n) PROVE UpSteps
  <2>1. NodeTakes(n, "authenticate")
    BY <1>14 DEF HandleAuthenticate
  <2>2. up[n] # <<>>
    BY <2>1 DEF NodeTakes
  <2>. QED  BY <1>14, <1>0, <2>2 DEF HandleAuthenticate, UpSteps, UpStep, Out, LinkTypeOK, LinkTypes, ledger, nodeVars
<1>15. ASSUME NEW n \in Conns, ReceiveInvoke(n) PROVE UpSteps
  <2>1. NodeTakes(n, "invoke")
    BY <1>15 DEF ReceiveInvoke
  <2>2. up[n] # <<>>
    BY <2>1 DEF NodeTakes
  <2>. QED  BY <1>15, <1>0, <2>2 DEF ReceiveInvoke, UpSteps, UpStep, Out, LinkTypeOK, LinkTypes, ledger, nodeVars
<1>16. ASSUME NEW n \in Conns, ReceiveCancel(n) PROVE UpSteps
  <2>1. NodeTakes(n, "cancel")
    BY <1>16 DEF ReceiveCancel
  <2>2. up[n] # <<>>
    BY <2>1 DEF NodeTakes
  <2>. QED  BY <1>16, <1>0, <2>2 DEF ReceiveCancel, UpSteps, UpStep, Out, LinkTypeOK, LinkTypes, ledger, nodeVars
<1>17. ASSUME NEW n \in Conns, SocketClosed(n) PROVE UpSteps
  BY <1>17, <1>0 DEF SocketClosed, NodeTakes, UpSteps, UpStep, Out, LinkTypeOK, LinkTypes, ledger, nodeVars, netVars
<1>18. ASSUME NEW n \in Conns, DropSilent(n) PROVE UpSteps
  <2>1. /\ phase' = phase /\ Out \subseteq Out' /\ wire[n] = "open"
        /\ \A m \in Conns : up'[m] = IF m = n /\ phase[n] # "closed" THEN Append(up[m], Close("transient")) ELSE up[m]
    BY <1>18, <1>0 DEF DropSilent, Out, nodeVars, ledger, LinkTypes
  <2>2. phase[n] # "none"
    BY <1>0, <2>1 DEF ConnInv
  <2>. QED  BY <2>1, <2>2 DEF UpSteps, UpStep
<1>19. ASSUME NEW n \in Conns, IdleTimeout(n) PROVE UpSteps
  BY <1>19, <1>0 DEF IdleTimeout, CloseConnection, UpSteps, UpStep, Out, LinkTypeOK, LinkTypes, ledger, nodeVars, netVars
<1>20. ASSUME NEW n \in Conns, Cut(n) PROVE UpSteps
  BY <1>20, <1>0 DEF Cut, UpSteps, UpStep, Out, LinkTypeOK, LinkTypes, ledger, nodeVars, netVars
<1>21. ASSUME NEW r \in Runs, RunnerStep(r) PROVE UpSteps
  BY <1>21, <1>0 DEF RunnerStep, UpSteps, UpStep, Out, LinkTypeOK, LinkTypes, ledger, nodeVars, netVars
<1>22. ASSUME NEW r \in Runs, DeadlineStep(r) PROVE UpSteps
  BY <1>22, <1>0 DEF DeadlineStep, UpSteps, UpStep, Out, LinkTypeOK, LinkTypes, ledger, nodeVars, netVars
<1>23. ASSUME ManifestChange PROVE UpSteps
  BY <1>23, <1>0 DEF ManifestChange, UpSteps, UpStep, Out, LinkTypeOK, LinkTypes, ledger, nodeVars, netVars
<1>24. ASSUME Stop PROVE UpSteps
  BY <1>24, <1>0 DEF Stop, CutAll, UpSteps, UpStep, Out, LinkTypeOK, LinkTypes, ledger, nodeVars, netVars
<1>25. ASSUME Start PROVE UpSteps
  BY <1>25, <1>0 DEF Start, UpSteps, UpStep, Out, LinkTypeOK, LinkTypes, ledger, nodeVars, netVars
<1>26. ASSUME Crash PROVE UpSteps
  BY <1>26, <1>0 DEF Crash, CutAll, UpSteps, UpStep, Out, LinkTypeOK, LinkTypes, ledger, nodeVars, netVars
<1>27. ASSUME NewProcess PROVE UpSteps
  BY <1>27, <1>0 DEF NewProcess, UpSteps, UpStep, Out, LinkTypeOK, LinkTypes, ledger, nodeVars, netVars
<1>28. ASSUME UNCHANGED linkVars PROVE UpSteps
  BY <1>28, <1>0 DEF linkVars, clientVars, ledger, nodeVars, netVars, UpSteps, UpStep, Out, LinkTypeOK, LinkTypes
<1>. QED BY <1>1, <1>2, <1>3, <1>4, <1>5, <1>6, <1>7, <1>8, <1>9, <1>10, <1>11, <1>12, <1>13, <1>14, <1>15, <1>16, <1>17, <1>18, <1>19, <1>20, <1>21, <1>22, <1>23, <1>24, <1>25, <1>26, <1>27, <1>28 DEF LinkNext, ClientStep, NodeStep

LEMMA UpInvKept ==
  ASSUME LinkInv, [LinkNext]_linkVars
  PROVE  UpInv'
<1>1. UpSteps
  BY UpStepped
<1>2. UpInv /\ \A n \in Conns : phase[n] \in Phase
  BY DEF LinkInv, LinkTypes, LinkTypeOK
<1>. HIDE DEF Out
<1>. QED  BY <1>1, <1>2, UpKept DEF UpSteps

\* deliver: what the runner hands over is a result, and the call has left the book with it.
Forwards == Forward /\ KeepsCalls /\ (sent' # None => ResultFrame(sent') \in Reported')

LEMMA ForwardSteps ==
  ASSUME LinkInv
  PROVE  /\ \A n \in Conns : ReceiveInvoke(n) \/ ReceiveCancel(n) => Forwards
         /\ \A r \in Runs : RunnerStep(r) \/ DeadlineStep(r) => Forwards
<1>0. RunnerInv /\ CacheKeys /\ AnswersInv /\ UpInv
  BY DEF LinkInv
<1>p. Peer \in Clients
  BY LinkAssumption DEF LinkAssumption
<1>m. ASSUME NEW d, Moves(d), KeepsCalls, Forward PROVE Forwards
  <2>. HIDE DEF Forward, KeepsCalls, Reported
  <2>. QED  BY <1>m DEF Moves, Forwards, ResultFrame
<1>. HIDE DEF Moves, KeepsCalls, Forwards, Forward
<1>1. ASSUME NEW n \in Conns, ReceiveInvoke(n) PROVE Forwards
  <2>1. NodeTakes(n, "invoke") /\ Forward
    BY <1>1 DEF ReceiveInvoke
  <2>2. PICK d \in CallIds : d = Head(up[n]).call
    BY <1>0, <2>1, NodeReads
  <2>3. PICK fresh \in BOOLEAN : fresh = (Head(up[n]).revision = revision)
    OBVIOUS
  <2>4. Submit(d, Peer, fresh)
    BY <1>1, <2>2, <2>3 DEF ReceiveInvoke
  <2>5. Moves(d) /\ KeepsCalls
    BY <1>0, <1>p, <2>4, SubmitMoves
  <2>. QED  BY <1>m, <2>1, <2>5
<1>2. ASSUME NEW n \in Conns, ReceiveCancel(n) PROVE Forwards
  <2>1. NodeTakes(n, "cancel") /\ Forward
    BY <1>2 DEF ReceiveCancel
  <2>2. PICK d \in CallIds : d = Head(up[n]).call
    BY <1>0, <2>1, NodeReads
  <2>3. Cancel(d)
    BY <1>2, <2>2 DEF ReceiveCancel
  <2>4. Moves(None) /\ KeepsCalls
    BY <1>0, <2>3, CancelMoves
  <2>. QED  BY <1>m, <2>1, <2>4
<1>3. ASSUME NEW r \in Runs, RunnerStep(r) PROVE Forwards
  <2>1. Moves(None) /\ KeepsCalls
    <3>1. CASE \E s \in Outcome : Finish(r, s)
      BY <1>0, <3>1, FinishMoves
    <3>2. CASE FinishDetached(r)
      BY <1>0, <3>2, FinishDetachedMoves
    <3>. QED  BY <1>3, <3>1, <3>2 DEF RunnerStep
  <2>2. Forward
    BY <1>3 DEF RunnerStep
  <2>. QED  BY <1>m, <2>1, <2>2
<1>4. ASSUME NEW r \in Runs, DeadlineStep(r) PROVE Forwards
  <2>1. Deadline(r) /\ Forward
    BY <1>4 DEF DeadlineStep
  <2>2. Moves(None) /\ KeepsCalls
    BY <1>0, <2>1, DeadlineMoves
  <2>. QED  BY <1>m, <2>1, <2>2
<1>. QED  BY <1>1, <1>2, <1>3, <1>4

DownSteps == \A m \in Conns : DownStep(m)

LEMMA ForwardDown ==
  ASSUME LinkTypes, LinkTypeOK, ConnInv, Forwards, UNCHANGED <<phase, wire, epoch>>
  PROVE  DownSteps
<1>1. \A m \in Conns :
        down'[m] = IF /\ sent' # None /\ ready # None /\ m = ready /\ NodeCanWrite(m)
                      /\ ~(sent'.call \in Oversize /\ sent'.status = "success")
                   THEN down[m] \o <<ResultFrame(sent')>> ELSE down[m]
  BY ForwardWrites DEF Forwards
<1>2. \A m \in Conns : Epochs(m)' = Epochs(m) /\ phase'[m] = phase[m]
  BY DEF Epochs
<1>. SUFFICES ASSUME NEW m \in Conns PROVE DownStep(m)
  BY DEF DownSteps
<1>3. CASE /\ sent' # None /\ ready # None /\ m = ready /\ NodeCanWrite(m)
           /\ ~(sent'.call \in Oversize /\ sent'.status = "success")
  <2>1. PICK f : f = ResultFrame(sent') /\ f \in Reported'
    BY <1>3 DEF Forwards
  <2>2. phase'[m] = "ready"
    BY <1>2, <1>3 DEF ConnInv
  <2>3. PICK T : T = DownFrames(phase'[m], Epochs(m)', Reported')
    OBVIOUS
  <2>4. f \in T
    <3>. HIDE DEF Reported, Epochs
    <3>. QED  BY <2>1, <2>2, <2>3 DEF DownFrames
  <2>5. PICK q : q = <<f>>
    OBVIOUS
  <2>6. q \in Seq(T)
    <3>1. <<f>> \in Seq(T)
      BY <2>4
    <3>. QED  BY <2>5, <3>1
  <2>7. down'[m] = down[m] \o q
    BY <1>1, <1>3, <2>1, <2>5
  <2>. QED  BY <1>2, <2>3, <2>6, <2>7 DEF DownStep
<1>4. CASE ~(/\ sent' # None /\ ready # None /\ m = ready /\ NodeCanWrite(m)
             /\ ~(sent'.call \in Oversize /\ sent'.status = "success"))
  <2>1. down'[m] = down[m]
    BY <1>1, <1>4
  <2>. QED  BY <1>2, <2>1 DEF DownStep
<1>. QED  BY <1>3, <1>4

\* A connection that is closed gets the close frame last, if anything.
LEMMA DownAppends ==
  ASSUME DownInv, NEW m \in Conns, NEW f,
         phase'[m] = phase[m] \/ phase'[m] \in {"ready", "closed"}, Epochs(m)' = Epochs(m),
         \/ down'[m] = down[m]
         \/ down'[m] = Append(down[m], f) /\ f \in DownFrames(phase'[m], Epochs(m)', Reported')
  PROVE  DownStep(m)
<1>1. CASE down'[m] = down[m]
  BY <1>1 DEF DownStep
<1>2. CASE down'[m] = Append(down[m], f) /\ f \in DownFrames(phase'[m], Epochs(m)', Reported')
  <2>1. PICK S : S = DownFrames(phase[m], Epochs(m), Reported)
    OBVIOUS
  <2>2. PICK T : T = DownFrames(phase'[m], Epochs(m)', Reported')
    OBVIOUS
  <2>3. PICK d \in Seq(S) : d = down[m]
    BY <2>1 DEF DownInv
  <2>4. d \in Seq(S \cup {f})
    BY SeqWider
  <2>5. Append(d, f) = d \o <<f>>
    BY <2>4, AppendIsConcat
  <2>6. PICK q : q = <<f>>
    OBVIOUS
  <2>7. q \in Seq(T)
    <3>1. <<f>> \in Seq(T)
      BY <1>2, <2>2
    <3>. QED  BY <2>6, <3>1
  <2>8. down'[m] = down[m] \o q
    BY <1>2, <2>3, <2>5, <2>6
  <2>. QED  BY <2>2, <2>7, <2>8 DEF DownStep
<1>. QED  BY <1>1, <1>2

LEMMA DownStepped ==
  ASSUME LinkInv, [LinkNext]_linkVars
  PROVE  DownSteps
<1>0. /\ LinkTypes /\ LinkTypeOK /\ ConnInv /\ UpInv /\ DownInv
  BY DEF LinkInv, LinkTypes
<1>n. None \notin Conns /\ MaxRevision \in Nat /\ MaxRestarts \in Nat
  BY LinkAssumption DEF LinkAssumption
<1>1. ASSUME OpenSocket PROVE DownSteps
  <2>1. down' = down /\ epoch' = epoch
    BY <1>1 DEF OpenSocket, nodeVars
  <2>2. \A m \in Conns : phase'[m] = phase[m] \/ phase[m] = "none"
    BY <1>1, <1>0 DEF OpenSocket, nodeVars, ConnInv, LinkTypeOK
  <2>3. \A m \in Conns : wire[m] = "cut" <=> wire'[m] = "cut"
    BY <1>1, <1>0, <1>n DEF OpenSocket, ConnInv, LinkTypeOK, Conns
  <2>4. \A m \in Conns : Epochs(m)' = Epochs(m)
    BY <2>1, <2>3 DEF Epochs
  <2>. HIDE DEF Epochs
  <2>. QED  BY <2>1, <2>2, <2>4 DEF DownSteps, DownStep
<1>2. ASSUME NEW c \in CallIds, Track(c) PROVE DownSteps
  BY <1>2, <1>0 DEF Track, DownSteps, DownStep, Epochs, LinkTypeOK, LinkTypes, ledger, nodeVars, netVars
<1>3. ASSUME NEW c \in CallIds, Abort(c) PROVE DownSteps
  BY <1>3, <1>0 DEF Abort, Withdraw, DownSteps, DownStep, Epochs, LinkTypeOK, LinkTypes, ledger, nodeVars, netVars
<1>4. ASSUME NEW c \in CallIds, Timeout(c) PROVE DownSteps
  BY <1>4, <1>0 DEF Timeout, Withdraw, DownSteps, DownStep, Epochs, LinkTypeOK, LinkTypes, ledger, nodeVars, netVars
<1>5. ASSUME Dispose PROVE DownSteps
  <2>1. phase' = phase /\ epoch' = epoch
    BY <1>5 DEF Dispose, nodeVars
  <2>2. CASE sock = None
    BY <1>5, <2>1, <2>2 DEF Dispose, DownSteps, DownStep, Epochs
  <2>3. CASE sock # None
    <3>1. LetGo(sock)
      BY <1>5, <2>3 DEF Dispose
    <3>2. \A m \in Conns : m # sock => Epochs(m)' = Epochs(m) /\ down'[m] = down[m]
      BY <1>0, <2>1, <3>1 DEF LetGo, LinkTypes, LinkTypeOK, Epochs
    <3>3. sock \in Conns => down'[sock] = <<>>
      BY <1>0, <3>1 DEF LetGo, LinkTypes
    <3>. QED  BY <2>1, <3>2, <3>3 DEF DownSteps, DownStep
  <2>. QED  BY <2>2, <2>3
<1>6. ASSUME NEW n \in Conns, HandleOpen(n) PROVE DownSteps
  <2>1. down' = down /\ epoch' = epoch
    BY <1>6 DEF HandleOpen, nodeVars
  <2>2. \A m \in Conns : phase'[m] = phase[m] \/ phase[m] = "none"
    BY <1>6, <1>0 DEF HandleOpen, nodeVars, ConnInv, LinkTypeOK
  <2>3. \A m \in Conns : wire[m] = "cut" <=> wire'[m] = "cut"
    BY <1>6, <1>0, <1>n DEF HandleOpen, ConnInv, LinkTypeOK, Conns
  <2>4. \A m \in Conns : Epochs(m)' = Epochs(m)
    BY <2>1, <2>3 DEF Epochs
  <2>. HIDE DEF Epochs
  <2>. QED  BY <2>1, <2>2, <2>4 DEF DownSteps, DownStep
<1>7. ASSUME NEW n \in Conns, HandleChallenge(n) PROVE DownSteps
  <2>1. down[n] # <<>> /\ down' = [down EXCEPT ![n] = Tail(down[n])] /\ phase' = phase /\ wire' = wire /\ epoch' = epoch
    BY <1>7 DEF HandleChallenge, ClientTakes, nodeVars
  <2>. QED  BY <1>0, <2>1 DEF LinkTypes, DownSteps, DownStep, Epochs
<1>8. ASSUME NEW n \in Conns, HandleReady(n) PROVE DownSteps
  <2>1. down[n] # <<>> /\ down' = [down EXCEPT ![n] = Tail(down[n])] /\ phase' = phase /\ wire' = wire /\ epoch' = epoch
    BY <1>8 DEF HandleReady, ClientTakes, nodeVars
  <2>. QED  BY <1>0, <2>1 DEF LinkTypes, DownSteps, DownStep, Epochs
<1>9. ASSUME NEW n \in Conns, ApplyManifest(n) PROVE DownSteps
  <2>1. down[n] # <<>> /\ down' = [down EXCEPT ![n] = Tail(down[n])] /\ phase' = phase /\ wire' = wire /\ epoch' = epoch
    BY <1>9 DEF ApplyManifest, ClientTakes, nodeVars
  <2>. QED  BY <1>0, <2>1 DEF LinkTypes, DownSteps, DownStep, Epochs
<1>10. ASSUME NEW n \in Conns, SettleResult(n) PROVE DownSteps
  <2>1. down[n] # <<>> /\ down' = [down EXCEPT ![n] = Tail(down[n])] /\ phase' = phase /\ wire' = wire /\ epoch' = epoch
    BY <1>10 DEF SettleResult, ClientTakes, nodeVars
  <2>. QED  BY <1>0, <2>1 DEF LinkTypes, DownSteps, DownStep, Epochs
<1>11. ASSUME NEW n \in Conns, HandleCloseReconnect(n) PROVE DownSteps
  <2>1. LetGo(n) /\ phase' = phase /\ epoch' = epoch
    BY <1>11 DEF HandleCloseReconnect, nodeVars
  <2>2. \A m \in Conns : m # n => Epochs(m)' = Epochs(m) /\ down'[m] = down[m]
    BY <1>0, <2>1 DEF LetGo, LinkTypes, LinkTypeOK, Epochs
  <2>3. down'[n] = <<>>
    BY <1>0, <2>1 DEF LetGo, LinkTypes
  <2>. QED  BY <2>1, <2>2, <2>3 DEF DownSteps, DownStep
<1>12. ASSUME NEW n \in Conns, HandleCloseStop(n) PROVE DownSteps
  <2>1. LetGo(n) /\ phase' = phase /\ epoch' = epoch
    BY <1>12 DEF HandleCloseStop, nodeVars
  <2>2. \A m \in Conns : m # n => Epochs(m)' = Epochs(m) /\ down'[m] = down[m]
    BY <1>0, <2>1 DEF LetGo, LinkTypes, LinkTypeOK, Epochs
  <2>3. down'[n] = <<>>
    BY <1>0, <2>1 DEF LetGo, LinkTypes
  <2>. QED  BY <2>1, <2>2, <2>3 DEF DownSteps, DownStep
<1>13. ASSUME NEW n \in Conns, HandleHello(n) PROVE DownSteps
  <2>1. /\ phase[n] = "hello" /\ phase' = [phase EXCEPT ![n] = "authenticate"] /\ wire' = wire /\ epoch' = epoch
        /\ down' = Download(n, <<Challenge>>)
    BY <1>13 DEF HandleHello
  <2>2. PICK q : q = <<Challenge>>
    OBVIOUS
  <2>3. \A m \in Conns : down'[m] = IF m = n /\ NodeCanWrite(n) THEN down[m] \o q ELSE down[m]
    BY <1>0, <2>1, <2>2, DownloadWrites
  <2>4. PICK T : T = DownFrames(phase'[n], Epochs(n)', Reported')
    OBVIOUS
  <2>5. q \in Seq(T)
    <3>1. phase'[n] = "authenticate"
      BY <1>0, <2>1 DEF LinkTypeOK
    <3>2. PICK f \in T : f = Challenge
      BY <2>4, <3>1 DEF DownFrames
    <3>3. <<f>> \in Seq(T)
      OBVIOUS
    <3>. QED  BY <2>2, <3>2, <3>3
  <2>6. \A m \in Conns : Epochs(m)' = Epochs(m) /\ (phase'[m] = phase[m] \/ phase[m] = "hello")
    BY <1>0, <2>1 DEF Epochs, LinkTypeOK
  <2>. QED  BY <2>3, <2>4, <2>5, <2>6 DEF DownSteps, DownStep
<1>14. ASSUME NEW n \in Conns, HandleAuthenticate(n) PROVE DownSteps
  <2>1. PICK previous : previous = {ready} \ {None, n}
    OBVIOUS
  <2>2. /\ phase' = [m \in Conns |-> IF m = n THEN "ready" ELSE IF m \in previous THEN "closed" ELSE phase[m]]
        /\ down' = [m \in Conns |-> IF m \in previous THEN Closing(previous, "replaced")[m]
                                  ELSE Download(n, <<Ready>>)[m]]
        /\ wire' = wire /\ epoch' = epoch /\ n \notin previous
    BY <1>14, <2>1 DEF HandleAuthenticate
  <2>3. \A m \in Conns : Epochs(m)' = Epochs(m) /\ (phase'[m] = phase[m] \/ phase'[m] \in {"ready", "closed"})
    BY <2>2 DEF Epochs
  <2>4. ASSUME NEW m \in Conns, m \in previous PROVE DownStep(m)
    <3>1. down'[m] = Closing(previous, "replaced")[m] /\ phase'[m] = "closed"
      BY <2>2, <2>4
    <3>2. PICK f : f = Close("replaced")
      OBVIOUS
    <3>3. down'[m] = IF NodeCanWrite(m) THEN Append(down[m], f) ELSE down[m]
      BY <2>4, <3>1, <3>2 DEF Closing
    <3>4. f \in DownFrames(phase'[m], Epochs(m)', Reported')
      BY <3>1, <3>2 DEF DownFrames
    <3>. QED  BY <1>0, <2>3, <3>1, <3>3, <3>4, DownAppends
  <2>5. ASSUME NEW m \in Conns, m \notin previous PROVE DownStep(m)
    <3>1. PICK q : q = <<Ready>>
      OBVIOUS
    <3>2. down'[m] = IF m = n /\ NodeCanWrite(n) THEN down[m] \o q ELSE down[m]
      BY <1>0, <2>2, <2>5, <3>1 DEF Download, LinkTypes
    <3>3. CASE m = n /\ NodeCanWrite(n)
      <4>1. phase'[m] = "ready"
        BY <2>2, <3>3
      <4>2. PICK T : T = DownFrames(phase'[m], Epochs(m)', Reported')
        OBVIOUS
      <4>3. epoch \in Epochs(m)' /\ revision \in 1..MaxRevision
        BY <1>0, <2>3, <3>3 DEF NodeCanWrite, Epochs, LinkTypeOK
      <4>4. Ready \in T
        <5>. HIDE DEF Epochs
        <5>. QED  BY <4>1, <4>2, <4>3 DEF DownFrames, Ready
      <4>5. PICK f \in T : f = Ready
        BY <4>4
      <4>6. <<f>> \in Seq(T)
        OBVIOUS
      <4>7. q \in Seq(T)
        BY <3>1, <4>5, <4>6
      <4>. QED  BY <2>3, <3>2, <3>3, <4>2, <4>7 DEF DownStep
    <3>4. CASE ~(m = n /\ NodeCanWrite(n))
      BY <2>3, <3>2, <3>4 DEF DownStep
    <3>. QED  BY <3>3, <3>4
  <2>. QED  BY <2>4, <2>5 DEF DownSteps
<1>15. ASSUME NEW n \in Conns, ReceiveInvoke(n) PROVE DownSteps
  <2>1. Forwards
    BY <1>15, ForwardSteps
  <2>2. phase' = phase /\ wire' = wire /\ epoch' = epoch
    BY <1>15 DEF ReceiveInvoke, nodeVars
  <2>. QED  BY <1>0, <2>1, <2>2, ForwardDown DEF DownSteps
<1>16. ASSUME NEW n \in Conns, ReceiveCancel(n) PROVE DownSteps
  <2>1. Forwards
    BY <1>16, ForwardSteps
  <2>2. phase' = phase /\ wire' = wire /\ epoch' = epoch
    BY <1>16 DEF ReceiveCancel, nodeVars
  <2>. QED  BY <1>0, <2>1, <2>2, ForwardDown DEF DownSteps
<1>17. ASSUME NEW n \in Conns, SocketClosed(n) PROVE DownSteps
  BY <1>17, <1>0 DEF SocketClosed, NodeTakes, DownSteps, DownStep, Epochs, LinkTypeOK, LinkTypes, ledger, nodeVars, netVars
<1>18. ASSUME NEW n \in Conns, DropSilent(n) PROVE DownSteps
  BY <1>18, <1>0 DEF DropSilent, DownSteps, DownStep, Epochs, LinkTypeOK, LinkTypes, ledger, nodeVars, netVars
<1>19. ASSUME NEW n \in Conns, IdleTimeout(n) PROVE DownSteps
  <2>1. /\ phase' = [phase EXCEPT ![n] = "closed"] /\ wire' = wire /\ epoch' = epoch
        /\ down' = Closing({n}, "transient")
    BY <1>19 DEF IdleTimeout, CloseConnection
  <2>2. phase'[n] = "closed" /\ \A m \in Conns : Epochs(m)' = Epochs(m) /\ (m = n \/ phase'[m] = phase[m])
    BY <1>0, <2>1 DEF LinkTypeOK, Epochs
  <2>3. PICK f : f = Close("transient")
    OBVIOUS
  <2>4. \A m \in Conns : down'[m] = IF m = n /\ NodeCanWrite(n) THEN Append(down[m], f) ELSE down[m]
    BY <2>1, <2>3 DEF Closing
  <2>5. f \in DownFrames(phase'[n], Epochs(n)', Reported')
    BY <2>2, <2>3 DEF DownFrames
  <2>. QED  BY <1>0, <2>2, <2>4, <2>5, DownAppends DEF DownSteps
<1>20. ASSUME NEW n \in Conns, Cut(n) PROVE DownSteps
  <2>1. wire' = [wire EXCEPT ![n] = "cut"] /\ wire[n] # "cut" /\ epoch' = epoch /\ down' = down /\ phase' = phase
    BY <1>20 DEF Cut, nodeVars
  <2>2. \A m \in Conns : Epochs(m) \subseteq Epochs(m)'
    BY <1>0, <1>n, <2>1 DEF LinkTypeOK, Epochs
  <2>. QED  BY <2>1, <2>2 DEF DownSteps, DownStep
<1>21. ASSUME NEW r \in Runs, RunnerStep(r) PROVE DownSteps
  <2>1. Forwards
    BY <1>21, ForwardSteps
  <2>2. phase' = phase /\ wire' = wire /\ epoch' = epoch
    BY <1>21 DEF RunnerStep, nodeVars
  <2>. QED  BY <1>0, <2>1, <2>2, ForwardDown DEF DownSteps
<1>22. ASSUME NEW r \in Runs, DeadlineStep(r) PROVE DownSteps
  <2>1. Forwards
    BY <1>22, ForwardSteps
  <2>2. phase' = phase /\ wire' = wire /\ epoch' = epoch
    BY <1>22 DEF DeadlineStep, nodeVars
  <2>. QED  BY <1>0, <2>1, <2>2, ForwardDown DEF DownSteps
<1>23. ASSUME ManifestChange PROVE DownSteps
  <2>1. phase' = phase /\ wire' = wire /\ epoch' = epoch /\ revision + 1 \in 1..MaxRevision
    BY <1>23, <1>0, <1>n DEF ManifestChange, LinkTypeOK
  <2>2. CASE ready = None
    BY <1>23, <2>1, <2>2 DEF ManifestChange, DownSteps, DownStep, Epochs
  <2>3. CASE ready # None
    <3>1. PICK v \in 1..MaxRevision : v = revision + 1
      BY <2>1
    <3>2. PICK q : q = <<ManifestChanged(v)>>
      OBVIOUS
    <3>3. down' = Download(ready, q)
      BY <1>23, <2>3, <3>1, <3>2 DEF ManifestChange
    <3>4. \A m \in Conns : down'[m] = IF m = ready /\ NodeCanWrite(ready) THEN down[m] \o q ELSE down[m]
      BY <1>0, <3>3, DownloadWrites
    <3>0. PICK n \in Conns : n = ready
      BY <1>0, <2>3 DEF LinkTypeOK
    <3>5. phase[n] = "ready"
      BY <1>0, <3>0 DEF ConnInv
    <3>6. PICK T : T = DownFrames(phase'[n], Epochs(n)', Reported')
      OBVIOUS
    <3>7. q \in Seq(T)
      <4>1. PICK f \in T : f = ManifestChanged(v)
        BY <2>1, <3>5, <3>6 DEF DownFrames, ManifestChanged
      <4>2. <<f>> \in Seq(T)
        OBVIOUS
      <4>. QED  BY <3>2, <4>1, <4>2
    <3>8. \A m \in Conns : Epochs(m)' = Epochs(m) /\ phase'[m] = phase[m]
      BY <2>1 DEF Epochs
    <3>9. ASSUME NEW m \in Conns PROVE DownStep(m)
      <4>1. CASE m = n
        <5>1. q \in Seq(DownFrames(phase'[m], Epochs(m)', Reported'))
          BY <3>6, <3>7, <4>1
        <5>. QED  BY <3>0, <3>4, <3>8, <4>1, <5>1 DEF DownStep
      <4>2. CASE m # n
        BY <3>0, <3>4, <3>8, <4>2 DEF DownStep
      <4>. QED  BY <4>1, <4>2
    <3>. QED  BY <3>9 DEF DownSteps
  <2>. QED  BY <2>2, <2>3
<1>24. ASSUME Stop PROVE DownSteps
  <2>1. CutAll /\ epoch' = epoch /\ down' = down
    BY <1>24 DEF Stop
  <2>2. \A m \in Conns : phase[m] \in {"none", "hello"} \/ phase'[m] = "closed"
    BY <1>0, <2>1 DEF CutAll, LinkTypeOK
  <2>3. \A m \in Conns : Epochs(m) \subseteq Epochs(m)' \/ (wire[m] = "cut" /\ wire'[m] # "cut")
    BY <1>0, <1>n, <2>1 DEF CutAll, LinkTypeOK, Epochs
  <2>4. \A m \in Conns : wire[m] = "cut" => wire'[m] = "cut"
    BY <1>0, <2>1 DEF CutAll
  <2>. QED  BY <2>1, <2>2, <2>3, <2>4 DEF DownSteps, DownStep
<1>25. ASSUME Start PROVE DownSteps
  BY <1>25, <1>0 DEF Start, DownSteps, DownStep, Epochs, LinkTypeOK, LinkTypes, ledger, nodeVars, netVars
<1>26. ASSUME Crash PROVE DownSteps
  <2>1. CutAll /\ epoch' = epoch /\ down' = down
    BY <1>26 DEF Crash
  <2>2. \A m \in Conns : phase[m] \in {"none", "hello"} \/ phase'[m] = "closed"
    BY <1>0, <2>1 DEF CutAll, LinkTypeOK
  <2>3. \A m \in Conns : Epochs(m) \subseteq Epochs(m)' \/ (wire[m] = "cut" /\ wire'[m] # "cut")
    BY <1>0, <1>n, <2>1 DEF CutAll, LinkTypeOK, Epochs
  <2>4. \A m \in Conns : wire[m] = "cut" => wire'[m] = "cut"
    BY <1>0, <2>1 DEF CutAll
  <2>. QED  BY <2>1, <2>2, <2>3, <2>4 DEF DownSteps, DownStep
<1>27. ASSUME NewProcess PROVE DownSteps
  <2>1. stopped /\ epoch' = epoch + 1 /\ down' = down /\ phase' = phase /\ wire' = wire
    BY <1>27 DEF NewProcess, NewRunner, netVars
  <2>2. ASSUME NEW m \in Conns PROVE DownStep(m)
    <3>1. CASE wire[m] = "cut"
      <4>1. Epochs(m) \subseteq Epochs(m)'
        BY <1>0, <1>n, <2>1, <3>1 DEF LinkTypeOK, Epochs
      <4>. QED  BY <2>1, <4>1 DEF DownStep
    <3>2. CASE wire[m] # "cut"
      <4>1. phase[m] = "none"
        BY <1>0, <2>1, <3>2 DEF ConnInv
      <4>2. down[m] \in Seq({})
        <5>1. down[m] \in Seq(DownFrames(phase[m], Epochs(m), Reported))
          BY <1>0 DEF DownInv
        <5>2. DownFrames(phase[m], Epochs(m), Reported) = {}
          BY <4>1 DEF DownFrames
        <5>. QED  BY <5>1, <5>2
      <4>3. down[m] = <<>>
        BY <4>2, NothingIn
      <4>. QED  BY <2>1, <4>3 DEF DownStep
    <3>. QED  BY <3>1, <3>2
  <2>. QED  BY <2>2 DEF DownSteps
<1>28. ASSUME UNCHANGED linkVars PROVE DownSteps
  BY <1>28, <1>0 DEF linkVars, clientVars, ledger, nodeVars, netVars, DownSteps, DownStep, Epochs, LinkTypeOK, LinkTypes
<1>. QED BY <1>1, <1>2, <1>3, <1>4, <1>5, <1>6, <1>7, <1>8, <1>9, <1>10, <1>11, <1>12, <1>13, <1>14, <1>15, <1>16, <1>17, <1>18, <1>19, <1>20, <1>21, <1>22, <1>23, <1>24, <1>25, <1>26, <1>27, <1>28 DEF LinkNext, ClientStep, NodeStep

LEMMA DownInvKept ==
  ASSUME LinkInv, [LinkNext]_linkVars
  PROVE  DownInv'
<1>1. DownSteps
  BY DownStepped
<1>2. DownInv /\ \A n \in Conns : phase[n] \in Phase
  BY DEF LinkInv, LinkTypes, LinkTypeOK
<1>3. Reported \subseteq Reported'
  BY RunnerKept DEF RunnerPart
<1>. HIDE DEF Reported
<1>. QED  BY <1>1, <1>2, <1>3, DownKept DEF DownSteps

-----------------------------------------------------------------------------
(* What every step does to the ledger. *)

LedgerMoves(c) ==
  /\ Pending(c)' => outcome'[c] = None
  /\ dispatched'[c] => Pending(c)' \/ outcome'[c] # None
  /\ dispatched'[c] /\ Pending(c)' => session' # NoSession
  /\ outcome'[c] = "unsent" => ~dispatched'[c]
  /\ outcome[c] # None => outcome'[c] = outcome[c]
  /\ outcome'[c] # outcome[c] => Pending(c)
  /\ Pending(c) => Pending(c)' \/ outcome'[c] # None
  /\ Pending(c)' => Pending(c) \/ ~dispatched[c]
  /\ \/ outcome'[c] = outcome[c]
     \/ outcome'[c] \notin {"success", "denied", "failed"}
     \/ Decided(c) /\ (outcome'[c] \in {"success", "denied"} => Began(c))

LEMMA LedgerMoved ==
  ASSUME LinkInv, [LinkNext]_linkVars
  PROVE  \A c \in CallIds : LedgerMoves(c)
<1>0. /\ LinkTypes /\ LinkTypeOK /\ ConnInv /\ UpInv /\ DownInv /\ LedgerInv
  BY DEF LinkInv, LinkTypes
<1>v. MaxRevision \in Nat
  BY LinkAssumption DEF LinkAssumption
<1>n. None \notin Answer /\ None \notin {"unsent", "unknown", "success", "denied", "failed"}
  BY LinkAssumption DEF LinkAssumption, Answer
<1>s. ASSUME UNCHANGED ledger, session # NoSession => session' # NoSession PROVE \A c \in CallIds : LedgerMoves(c)
  <2>1. \A c \in CallIds : Pending(c)' <=> Pending(c)
    BY <1>s DEF ledger, Pending
  <2>. HIDE DEF Decided, Began, Pending
  <2>. QED  BY <1>0, <1>s, <2>1 DEF ledger, LedgerInv, LedgerMoves
<1>1. ASSUME OpenSocket PROVE \A d \in CallIds : LedgerMoves(d)
  <2>1. UNCHANGED ledger /\ session' = session
    BY <1>1 DEF OpenSocket, clientVars
  <2>. QED  BY <2>1, <1>s
<1>2. ASSUME NEW c \in CallIds, Track(c) PROVE \A d \in CallIds : LedgerMoves(d)
  <2>1. entries' = Append(entries, c) /\ outcome' = outcome /\ session' = session /\ outcome[c] = None /\ ~Pending(c)
    BY <1>2 DEF Track, clientVars
  <2>2. \A d \in CallIds : Pending(d)' <=> Pending(d) \/ d = c
    BY <1>0, <2>1, PendingAdded DEF LinkTypeOK
  <2>3. \A d \in CallIds : dispatched'[d] <=> dispatched[d] \/ (d = c /\ cstate = "ready")
    BY <1>2, <1>0 DEF Track, LinkTypeOK
  <2>4. cstate = "ready" => session # NoSession
    BY <1>0 DEF ConnInv
  <2>. HIDE DEF Decided, Began, Pending
  <2>. QED  BY <1>0, <1>n, <2>1, <2>2, <2>3, <2>4 DEF LedgerInv, LedgerMoves, LinkTypeOK
<1>3. ASSUME NEW c \in CallIds, Abort(c) PROVE \A d \in CallIds : LedgerMoves(d)
  <2>1. PICK a \in Answer : /\ Withdraw(c, a)
                            /\ a \notin {"success", "denied", "failed"} /\ (a = "unsent" => ~dispatched[c])
                            /\ Pending(c)
    BY <1>3 DEF Abort, Withdraw, Answer
  <2>2. SettleCall(c, a) /\ session' = session
    BY <2>1 DEF Withdraw, clientVars
  <2>3. /\ dispatched' = dispatched
        /\ \A d \in CallIds : /\ Pending(d)' <=> Pending(d) /\ d # c
                              /\ outcome'[d] = IF d = c THEN a ELSE outcome[d]
    BY <1>0, <2>2, LedgerSettles
  <2>. HIDE DEF Decided, Began, Pending
  <2>. QED  BY <1>0, <1>n, <2>1, <2>2, <2>3 DEF LedgerInv, LedgerMoves
<1>4. ASSUME NEW c \in CallIds, Timeout(c) PROVE \A d \in CallIds : LedgerMoves(d)
  <2>1. PICK a \in Answer : /\ Withdraw(c, a)
                            /\ a \notin {"success", "denied", "failed"} /\ (a = "unsent" => ~dispatched[c])
                            /\ Pending(c)
    BY <1>4 DEF Timeout, Withdraw, Answer
  <2>2. SettleCall(c, a) /\ session' = session
    BY <2>1 DEF Withdraw, clientVars
  <2>3. /\ dispatched' = dispatched
        /\ \A d \in CallIds : /\ Pending(d)' <=> Pending(d) /\ d # c
                              /\ outcome'[d] = IF d = c THEN a ELSE outcome[d]
    BY <1>0, <2>2, LedgerSettles
  <2>. HIDE DEF Decided, Began, Pending
  <2>. QED  BY <1>0, <1>n, <2>1, <2>2, <2>3 DEF LedgerInv, LedgerMoves
<1>5. ASSUME Dispose PROVE \A d \in CallIds : LedgerMoves(d)
  <2>1. FailAll
    BY <1>5 DEF Dispose
  <2>2. /\ dispatched' = dispatched
        /\ \A d \in CallIds : /\ ~Pending(d)'
                              /\ outcome'[d] = IF ~Pending(d) THEN outcome[d]
                                               ELSE IF dispatched[d] THEN "unknown" ELSE "unsent"
    BY <1>0, <2>1, LedgerFails
  <2>. HIDE DEF Decided, Began, Pending
  <2>. QED  BY <1>0, <1>n, <2>2 DEF LedgerInv, LedgerMoves
<1>6. ASSUME NEW n \in Conns, HandleOpen(n) PROVE \A d \in CallIds : LedgerMoves(d)
  <2>1. UNCHANGED ledger /\ session' = session
    BY <1>6 DEF HandleOpen, clientVars
  <2>. QED  BY <2>1, <1>s
<1>7. ASSUME NEW n \in Conns, HandleChallenge(n) PROVE \A d \in CallIds : LedgerMoves(d)
  <2>1. UNCHANGED ledger /\ session' = session
    BY <1>7 DEF HandleChallenge, clientVars
  <2>. QED  BY <2>1, <1>s
<1>8. ASSUME NEW n \in Conns, HandleReady(n) PROVE \A d \in CallIds : LedgerMoves(d)
  <2>1. ClientTakes(n, "ready")
    BY <1>8 DEF HandleReady
  <2>2. PICK new \in [epoch : 1..(MaxRestarts + 1), revision : 1..MaxRevision] :
          new = [epoch |-> Head(down[n]).epoch, revision |-> Head(down[n]).revision]
    <3>1. Head(down[n]).epoch \in 1..(MaxRestarts + 1) /\ Head(down[n]).revision \in 1..MaxRevision
      BY <1>0, <2>1, ReadyFrame
    <3>. QED  BY <3>1
  <2>3. Flush(new) /\ session' = new
    BY <1>8, <2>2 DEF HandleReady
  <2>4. \A c \in CallIds :
          LET failed == Pending(c) /\ dispatched[c] /\ session # NoSession /\ session.epoch # new.epoch
          IN /\ Pending(c)' <=> Pending(c) /\ ~failed
             /\ outcome'[c] = IF failed THEN "unknown" ELSE outcome[c]
             /\ dispatched'[c] <=> dispatched[c] \/ Pending(c)
    BY <1>0, <2>3, LedgerFlushes
  <2>5. session' # NoSession
    <3>1. new.epoch # 0
      OBVIOUS
    <3>. QED  BY <2>3, <3>1 DEF NoSession
  <2>. HIDE DEF Decided, Began, Pending
  <2>. QED  BY <1>0, <1>n, <2>4, <2>5 DEF LedgerInv, LedgerMoves
<1>9. ASSUME NEW n \in Conns, ApplyManifest(n) PROVE \A d \in CallIds : LedgerMoves(d)
  <2>1. UNCHANGED ledger /\ ClientTakes(n, "manifest_changed")
    BY <1>9 DEF ApplyManifest
  <2>2. PICK v \in 1..MaxRevision : v = Head(down[n]).revision
    BY <1>0, <2>1, ClientReads
  <2>3. session # NoSession => session' # NoSession
    <3>1. ASSUME session # NoSession PROVE session'.revision = v
      BY <1>9, <1>0, <2>2, <3>1 DEF ApplyManifest, LinkTypeOK
    <3>2. NoSession.revision # v
      BY <1>v DEF NoSession
    <3>. QED  BY <3>1, <3>2
  <2>. QED  BY <1>s, <2>1, <2>3
<1>10. ASSUME NEW n \in Conns, SettleResult(n) PROVE \A d \in CallIds : LedgerMoves(d)
  <2>1. PICK m \in Reported : m = Head(down[n])
    BY <1>10, <1>0, ClientReads DEF SettleResult
  <2>2. PICK d \in CallIds : d = m.call
    BY DEF Reported
  <2>3. Decided(d) /\ (m.status \in {"success", "denied"} => Began(d))
    <3>. HIDE DEF Decided, Began
    <3>. QED  BY <2>2 DEF Reported
  <2>4. CASE Pending(d)
    <3>1. PICK a \in Answer : a = Verdict(m.status)
      BY DEF Verdict, Answer
    <3>2. SettleCall(d, a) /\ session' = session
      BY <1>10, <2>1, <2>2, <2>4, <3>1 DEF SettleResult, clientVars
    <3>3. /\ dispatched' = dispatched
          /\ \A c \in CallIds : /\ Pending(c)' <=> Pending(c) /\ c # d
                                /\ outcome'[c] = IF c = d THEN a ELSE outcome[c]
      BY <1>0, <3>2, LedgerSettles
    <3>4. a \in {"success", "denied", "failed"} /\ (a \in {"success", "denied"} => Began(d))
      BY <2>3, <3>1 DEF Verdict
    <3>. HIDE DEF Decided, Began, Pending
    <3>. QED  BY <1>0, <1>n, <2>3, <2>4, <3>2, <3>3, <3>4 DEF LedgerInv, LedgerMoves
  <2>5. CASE ~Pending(d)
    <3>1. UNCHANGED ledger /\ session' = session
      BY <1>10, <2>1, <2>2, <2>5 DEF SettleResult, clientVars
    <3>. QED  BY <1>s, <3>1
  <2>. QED  BY <2>4, <2>5
<1>11. ASSUME NEW n \in Conns, HandleCloseReconnect(n) PROVE \A d \in CallIds : LedgerMoves(d)
  <2>1. UNCHANGED ledger /\ session' = session
    BY <1>11 DEF HandleCloseReconnect, clientVars
  <2>. QED  BY <2>1, <1>s
<1>12. ASSUME NEW n \in Conns, HandleCloseStop(n) PROVE \A d \in CallIds : LedgerMoves(d)
  <2>1. FailAll
    BY <1>12 DEF HandleCloseStop
  <2>2. /\ dispatched' = dispatched
        /\ \A d \in CallIds : /\ ~Pending(d)'
                              /\ outcome'[d] = IF ~Pending(d) THEN outcome[d]
                                               ELSE IF dispatched[d] THEN "unknown" ELSE "unsent"
    BY <1>0, <2>1, LedgerFails
  <2>. HIDE DEF Decided, Began, Pending
  <2>. QED  BY <1>0, <1>n, <2>2 DEF LedgerInv, LedgerMoves
<1>13. ASSUME NEW n \in Conns, HandleHello(n) PROVE \A d \in CallIds : LedgerMoves(d)
  <2>1. UNCHANGED ledger /\ session' = session
    BY <1>13 DEF HandleHello, clientVars
  <2>. QED  BY <2>1, <1>s
<1>14. ASSUME NEW n \in Conns, HandleAuthenticate(n) PROVE \A d \in CallIds : LedgerMoves(d)
  <2>1. UNCHANGED ledger /\ session' = session
    BY <1>14 DEF HandleAuthenticate, clientVars
  <2>. QED  BY <2>1, <1>s
<1>15. ASSUME NEW n \in Conns, ReceiveInvoke(n) PROVE \A d \in CallIds : LedgerMoves(d)
  <2>1. UNCHANGED ledger /\ session' = session
    BY <1>15 DEF ReceiveInvoke, clientVars
  <2>. QED  BY <2>1, <1>s
<1>16. ASSUME NEW n \in Conns, ReceiveCancel(n) PROVE \A d \in CallIds : LedgerMoves(d)
  <2>1. UNCHANGED ledger /\ session' = session
    BY <1>16 DEF ReceiveCancel, clientVars
  <2>. QED  BY <2>1, <1>s
<1>17. ASSUME NEW n \in Conns, SocketClosed(n) PROVE \A d \in CallIds : LedgerMoves(d)
  <2>1. UNCHANGED ledger /\ session' = session
    BY <1>17 DEF SocketClosed, clientVars
  <2>. QED  BY <2>1, <1>s
<1>18. ASSUME NEW n \in Conns, DropSilent(n) PROVE \A d \in CallIds : LedgerMoves(d)
  <2>1. UNCHANGED ledger /\ session' = session
    BY <1>18 DEF DropSilent, clientVars
  <2>. QED  BY <2>1, <1>s
<1>19. ASSUME NEW n \in Conns, IdleTimeout(n) PROVE \A d \in CallIds : LedgerMoves(d)
  <2>1. UNCHANGED ledger /\ session' = session
    BY <1>19 DEF IdleTimeout, clientVars
  <2>. QED  BY <2>1, <1>s
<1>20. ASSUME NEW n \in Conns, Cut(n) PROVE \A d \in CallIds : LedgerMoves(d)
  <2>1. UNCHANGED ledger /\ session' = session
    BY <1>20 DEF Cut, clientVars
  <2>. QED  BY <2>1, <1>s
<1>21. ASSUME NEW r \in Runs, RunnerStep(r) PROVE \A d \in CallIds : LedgerMoves(d)
  <2>1. UNCHANGED ledger /\ session' = session
    BY <1>21 DEF RunnerStep, clientVars
  <2>. QED  BY <2>1, <1>s
<1>22. ASSUME NEW r \in Runs, DeadlineStep(r) PROVE \A d \in CallIds : LedgerMoves(d)
  <2>1. UNCHANGED ledger /\ session' = session
    BY <1>22 DEF DeadlineStep, clientVars
  <2>. QED  BY <2>1, <1>s
<1>23. ASSUME ManifestChange PROVE \A d \in CallIds : LedgerMoves(d)
  <2>1. UNCHANGED ledger /\ session' = session
    BY <1>23 DEF ManifestChange, clientVars
  <2>. QED  BY <2>1, <1>s
<1>24. ASSUME Stop PROVE \A d \in CallIds : LedgerMoves(d)
  <2>1. UNCHANGED ledger /\ session' = session
    BY <1>24 DEF Stop, clientVars
  <2>. QED  BY <2>1, <1>s
<1>25. ASSUME Start PROVE \A d \in CallIds : LedgerMoves(d)
  <2>1. UNCHANGED ledger /\ session' = session
    BY <1>25 DEF Start, clientVars
  <2>. QED  BY <2>1, <1>s
<1>26. ASSUME Crash PROVE \A d \in CallIds : LedgerMoves(d)
  <2>1. UNCHANGED ledger /\ session' = session
    BY <1>26 DEF Crash, clientVars
  <2>. QED  BY <2>1, <1>s
<1>27. ASSUME NewProcess PROVE \A d \in CallIds : LedgerMoves(d)
  <2>1. UNCHANGED ledger /\ session' = session
    BY <1>27 DEF NewProcess, clientVars
  <2>. QED  BY <2>1, <1>s
<1>28. ASSUME UNCHANGED linkVars PROVE \A d \in CallIds : LedgerMoves(d)
  <2>1. UNCHANGED ledger /\ session' = session
    BY <1>28 DEF linkVars, clientVars
  <2>. QED  BY <2>1, <1>s
<1>. QED BY <1>1, <1>2, <1>3, <1>4, <1>5, <1>6, <1>7, <1>8, <1>9, <1>10, <1>11, <1>12, <1>13, <1>14, <1>15, <1>16, <1>17, <1>18, <1>19, <1>20, <1>21, <1>22, <1>23, <1>24, <1>25, <1>26, <1>27, <1>28 DEF LinkNext, ClientStep, NodeStep

LEMMA LedgerInvKept ==
  ASSUME LinkInv, [LinkNext]_linkVars
  PROVE  LedgerInv'
<1>1. /\ \A c \in CallIds : LedgerMoves(c)
      /\ RunnerPart /\ LedgerInv
      /\ \A c \in CallIds : dispatched[c] => dispatched'[c]
  BY LedgerMoved, RunnerKept, UpStepped DEF UpSteps, Out, LinkInv
<1>. HIDE DEF Decided, Began, Pending, Known, Reported
<1>. QED  BY <1>1 DEF LedgerMoves, RunnerPart, LedgerInv

-----------------------------------------------------------------------------
(* No call is lost sight of. *)

Traced(c, n) == Asked(c, n) \/ calls[c] # None \/ Replied(c, n)

LEMMA HoldsGrows ==
  ASSUME NEW S, NEW q \in Seq(S), NEW T, NEW p \in Seq(T), NEW new, new = q \/ new = q \o p,
         NEW t, NEW c, Holds(q, t, c)
  PROVE  Holds(new, t, c)
<1>1. Holds(q \o p, t, c)
  BY HoldsConcat
<1>. QED  BY <1>1

LEMMA TracedInvKept ==
  ASSUME LinkInv, [LinkNext]_linkVars
  PROVE  TracedInv'
<1>0. /\ LinkTypes /\ LinkTypeOK /\ ConnInv /\ UpInv /\ DownInv /\ TracedInv
  BY DEF LinkInv, LinkTypes
<1>i. RunnerInv /\ CacheKeys /\ AnswersInv
  BY DEF LinkInv
<1>n. None \notin Conns
  BY LinkAssumption DEF LinkAssumption
<1>. SUFFICES ASSUME NEW k \in Conns, NEW e \in CallIds \ Oversize,
                     cstate' = "ready", sock' = k, ready' = k, wire'[k] = "open", Pending(e)'
              PROVE  Traced(e, k)'
  BY DEF TracedInv, Traced
<1>g. cstate' = "ready" /\ sock' = k /\ ready' = k /\ wire'[k] = "open" /\ Pending(e)'
  OBVIOUS
<1>q. /\ up[k] \in Seq(UpFrames(phase[k], Out))
      /\ down[k] \in Seq(DownFrames(phase[k], Epochs(k), Reported))
  BY <1>0 DEF UpInv, DownInv
<1>. DEFINE Served == cstate = "ready" /\ sock = k /\ ready = k /\ wire[k] = "open"
            Still == entries' = entries /\ calls' = calls /\ up'[k] = up[k] /\ down'[k] = down[k]
<1>s. ASSUME Served, Pending(e), Asked(e, k) => Asked(e, k)', Replied(e, k) => Replied(e, k)',
             calls' = calls
      PROVE  Traced(e, k)'
  BY <1>0, <1>s DEF TracedInv, Traced
<1>b. ASSUME Served, Still PROVE Traced(e, k)'
  BY <1>0, <1>b, <1>g DEF TracedInv, Traced, Pending, Asked, Replied
<1>r. ASSUME NEW t, ClientTakes(k, t), t # "result", Replied(e, k) PROVE Replied(e, k)'
  <2>1. down[k] # <<>> /\ down'[k] = Tail(down[k]) /\ Head(down[k]).type = t
    BY <1>0, <1>r DEF ClientTakes, LinkTypes
  <2>2. Holds(down[k], "result", e) <=> Holds(Tail(down[k]), "result", e) \/ (Head(down[k]).type = "result" /\ Head(down[k]).call = e)
    BY <1>q, <2>1, HoldsTail
  <2>. QED  BY <1>r, <2>1, <2>2 DEF Replied
<1>f. ASSUME Served, entries' = entries, Forwards,
             Asked(e, k) => Asked(e, k)' \/ calls'[e] # None \/ (sent' # None /\ sent'.call = e)
      PROVE  Traced(e, k)'
  <2>1. \A m \in Conns :
          down'[m] = IF /\ sent' # None /\ ready # None /\ m = ready /\ NodeCanWrite(m)
                        /\ ~(sent'.call \in Oversize /\ sent'.status = "success")
                     THEN down[m] \o <<ResultFrame(sent')>> ELSE down[m]
    BY <1>0, <1>f, ForwardWrites DEF Forwards
  <2>2. PICK f : f = ResultFrame(sent')
    OBVIOUS
  <2>3. PICK q : q = <<f>>
    OBVIOUS
  <2>4. q \in Seq({f})
    BY <2>3
  <2>5. down'[k] = down[k] \/ down'[k] = down[k] \o q
    BY <2>1, <2>2, <2>3
  <2>6. Replied(e, k) => Replied(e, k)'
    BY <1>q, <2>4, <2>5, HoldsGrows DEF Replied
  <2>7. ASSUME sent' # None, sent'.call = e PROVE Replied(e, k)'
    <3>1. f.type = "result" /\ f.call = e
      BY <2>2, <2>7 DEF ResultFrame
    <3>2. Holds(q, "result", e)
      BY <2>3, <3>1, HoldsOne
    <3>3. down'[k] = down[k] \o q
      BY <1>f, <1>n, <2>1, <2>2, <2>3, <2>7 DEF NodeCanWrite
    <3>. QED  BY <1>q, <2>4, <3>2, <3>3, HoldsConcat DEF Replied
  <2>8. calls[e] # None => calls'[e] # None \/ (sent' # None /\ sent'.call = e)
    BY <1>f DEF Forwards, KeepsCalls
  <2>9. Pending(e)
    BY <1>f, <1>g DEF Pending
  <2>10. Asked(e, k) \/ calls[e] # None \/ Replied(e, k)
    BY <1>0, <1>f, <2>9 DEF TracedInv
  <2>. QED  BY <1>f, <2>6, <2>7, <2>8, <2>10 DEF Traced
<1>. HIDE DEF Served, Still
<1>1. ASSUME OpenSocket PROVE Traced(e, k)'
  BY <1>1, <1>0, <1>g, <1>n DEF OpenSocket
<1>2. ASSUME NEW c \in CallIds, Track(c) PROVE Traced(e, k)'
  <2>1. /\ entries' = Append(entries, c) /\ Served /\ calls' = calls /\ down' = down
        /\ up' = Upload(k, <<Invoke(c, session.revision)>>)
    BY <1>2, <1>g DEF Track, Served, clientVars, nodeVars, vars, book
  <2>2. Pending(e)' <=> Pending(e) \/ e = c
    BY <1>0, <2>1, PendingAdded DEF LinkTypeOK
  <2>3. PICK f : f = Invoke(c, session.revision)
    OBVIOUS
  <2>4. PICK q : q = <<f>>
    OBVIOUS
  <2>5. phase[k] = "ready" /\ wire[k] = "open"
    BY <1>0, <2>1 DEF Served, ConnInv
  <2>6. up'[k] = up[k] \o q
    BY <1>0, <2>1, <2>3, <2>4, <2>5, UploadWrites DEF ClientCanWrite
  <2>7. q \in Seq({f})
    BY <2>4
  <2>8. Asked(e, k)' <=> Asked(e, k) \/ Holds(q, "invoke", e)
    BY <1>q, <2>6, <2>7, HoldsConcat DEF Asked
  <2>9. e = c => Holds(q, "invoke", e)
    BY <2>3, <2>4, HoldsOne DEF Invoke
  <2>10. Replied(e, k) => Replied(e, k)'
    BY <2>1 DEF Replied
  <2>11. CASE e = c
    BY <2>8, <2>9, <2>11 DEF Traced
  <2>12. CASE e # c
    BY <1>g, <1>s, <2>1, <2>2, <2>8, <2>10, <2>12
  <2>. QED  BY <2>11, <2>12
<1>3. ASSUME NEW c \in CallIds, Abort(c) PROVE Traced(e, k)'
  <2>1. PICK a \in Answer : Withdraw(c, a)
    BY <1>3 DEF Abort, Answer
  <2>2. SettleCall(c, a) /\ Served /\ calls' = calls /\ down' = down /\ up' = Upload(k, <<CancelFrame(c)>>)
    BY <1>g, <2>1 DEF Withdraw, Served, clientVars, nodeVars, vars, book
  <2>3. Pending(e)' => Pending(e)
    BY <1>0, <2>2, LedgerSettles
  <2>4. PICK q : q = <<CancelFrame(c)>>
    OBVIOUS
  <2>5. up'[k] = up[k] \/ up'[k] = up[k] \o q
    BY <1>0, <2>2, <2>4, UploadWrites
  <2>6. q \in Seq({CancelFrame(c)})
    BY <2>4
  <2>7. Asked(e, k) => Asked(e, k)'
    BY <1>q, <2>5, <2>6, HoldsGrows DEF Asked
  <2>8. Replied(e, k) => Replied(e, k)'
    BY <2>2 DEF Replied
  <2>. QED  BY <1>g, <1>s, <2>2, <2>3, <2>7, <2>8
<1>4. ASSUME NEW c \in CallIds, Timeout(c) PROVE Traced(e, k)'
  <2>1. PICK a \in Answer : Withdraw(c, a)
    BY <1>4 DEF Timeout, Answer
  <2>2. SettleCall(c, a) /\ Served /\ calls' = calls /\ down' = down /\ up' = Upload(k, <<CancelFrame(c)>>)
    BY <1>g, <2>1 DEF Withdraw, Served, clientVars, nodeVars, vars, book
  <2>3. Pending(e)' => Pending(e)
    BY <1>0, <2>2, LedgerSettles
  <2>4. PICK q : q = <<CancelFrame(c)>>
    OBVIOUS
  <2>5. up'[k] = up[k] \/ up'[k] = up[k] \o q
    BY <1>0, <2>2, <2>4, UploadWrites
  <2>6. q \in Seq({CancelFrame(c)})
    BY <2>4
  <2>7. Asked(e, k) => Asked(e, k)'
    BY <1>q, <2>5, <2>6, HoldsGrows DEF Asked
  <2>8. Replied(e, k) => Replied(e, k)'
    BY <2>2 DEF Replied
  <2>. QED  BY <1>g, <1>s, <2>2, <2>3, <2>7, <2>8
<1>5. ASSUME Dispose PROVE Traced(e, k)'
  BY <1>5, <1>0, <1>g, <1>n DEF Dispose
<1>6. ASSUME NEW n \in Conns, HandleOpen(n) PROVE Traced(e, k)'
  <2>1. Served /\ Still
    BY <1>6, <1>0, <1>g, <1>n DEF HandleOpen, ConnInv, LinkTypeOK, Served, Still, clientVars, ledger, nodeVars, netVars, vars, book
  <2>. QED  BY <2>1, <1>b
<1>7. ASSUME NEW n \in Conns, HandleChallenge(n) PROVE Traced(e, k)'
  <2>1. /\ ClientTakes(n, "challenge") /\ n = k /\ Served /\ calls' = calls /\ entries' = entries
        /\ up' = Upload(k, <<Authenticate>>)
    BY <1>7, <1>g DEF HandleChallenge, ClientTakes, Served, clientVars, ledger, nodeVars, vars, book
  <2>2. PICK q : q = <<Authenticate>>
    OBVIOUS
  <2>3. up'[k] = up[k] \/ up'[k] = up[k] \o q
    BY <1>0, <2>1, <2>2, UploadWrites
  <2>4. q \in Seq({Authenticate})
    BY <2>2
  <2>5. Asked(e, k) => Asked(e, k)'
    BY <1>q, <2>3, <2>4, HoldsGrows DEF Asked
  <2>6. Replied(e, k) => Replied(e, k)'
    BY <2>1, <1>r
  <2>7. Pending(e)' <=> Pending(e)
    BY <2>1 DEF Pending
  <2>. QED  BY <1>g, <1>s, <2>1, <2>5, <2>6, <2>7
<1>8. ASSUME NEW n \in Conns, HandleReady(n) PROVE Traced(e, k)'
  <2>1. ClientTakes(n, "ready") /\ n = k
    BY <1>8, <1>g DEF HandleReady, ClientTakes
  <2>2. PICK new \in [epoch : 1..(MaxRestarts + 1), revision : 1..MaxRevision] :
          new = [epoch |-> Head(down[n]).epoch, revision |-> Head(down[n]).revision]
    <3>1. Head(down[n]).epoch \in 1..(MaxRestarts + 1) /\ Head(down[n]).revision \in 1..MaxRevision
      BY <1>0, <2>1, ReadyFrame
    <3>. QED  BY <3>1
  <2>3. Flush(new) /\ sock = k /\ ready = k /\ wire[k] = "open" /\ phase' = phase
    BY <1>8, <1>g, <2>2 DEF HandleReady, nodeVars
  <2>4. PICK q \in Seq(UpFrames("ready", Out')) :
          up' = Upload(sock, q) /\ \A c \in CallIds : Holds(q, "invoke", c) <=> Pending(c)'
    BY <1>0, <2>3, LedgerFlushes
  <2>5. ClientCanWrite(k)
    BY <1>0, <2>3 DEF ConnInv, ClientCanWrite
  <2>6. up'[k] = up[k] \o q
    BY <1>0, <2>3, <2>4, <2>5, UploadWrites
  <2>7. Asked(e, k)' <=> Asked(e, k) \/ Holds(q, "invoke", e)
    BY <1>q, <2>4, <2>6, HoldsConcat DEF Asked
  <2>. QED  BY <1>g, <2>4, <2>7 DEF Traced
<1>9. ASSUME NEW n \in Conns, ApplyManifest(n) PROVE Traced(e, k)'
  <2>1. /\ ClientTakes(n, "manifest_changed") /\ n = k /\ Served /\ calls' = calls /\ entries' = entries /\ up' = up
    BY <1>9, <1>g DEF ApplyManifest, ClientTakes, Served, ledger, nodeVars, vars, book
  <2>2. Replied(e, k) => Replied(e, k)'
    BY <2>1, <1>r
  <2>3. (Asked(e, k) => Asked(e, k)') /\ (Pending(e)' <=> Pending(e))
    BY <2>1 DEF Asked, Pending
  <2>. QED  BY <1>g, <1>s, <2>1, <2>2, <2>3
<1>10. ASSUME NEW n \in Conns, SettleResult(n) PROVE Traced(e, k)'
  <2>1. ClientTakes(n, "result") /\ n = k /\ Served /\ calls' = calls /\ up' = up
    BY <1>10, <1>g DEF SettleResult, ClientTakes, Served, clientVars, nodeVars, vars, book
  <2>2. PICK m \in Reported : m = Head(down[n])
    BY <1>0, <2>1, ClientReads
  <2>3. PICK d \in CallIds : d = m.call
    BY DEF Reported
  <2>4. Pending(e)' => Pending(e) /\ e # d
    <3>1. CASE Pending(d)
      <4>1. PICK a \in Answer : a = Verdict(m.status)
        BY DEF Verdict, Answer
      <4>2. SettleCall(d, a)
        BY <1>10, <2>2, <2>3, <3>1, <4>1 DEF SettleResult
      <4>. QED  BY <1>0, <4>2, LedgerSettles
    <3>2. CASE ~Pending(d)
      <4>1. entries' = entries
        BY <1>10, <2>2, <2>3, <3>2 DEF SettleResult, ledger
      <4>2. \A c \in CallIds : Pending(c)' <=> Pending(c)
        BY <4>1 DEF Pending
      <4>. QED  BY <3>2, <4>2
    <3>. QED  BY <3>1, <3>2
  <2>5. e # d
    BY <1>g, <2>4
  <2>6. Replied(e, k) => Replied(e, k)'
    <3>1. down[k] # <<>> /\ down'[k] = Tail(down[k]) /\ Head(down[k]) = m
      BY <1>0, <2>1, <2>2 DEF ClientTakes, LinkTypes
    <3>2. Holds(down[k], "result", e) <=> Holds(Tail(down[k]), "result", e) \/ (m.type = "result" /\ m.call = e)
      BY <1>q, <3>1, HoldsTail
    <3>. QED  BY <2>3, <2>5, <3>1, <3>2 DEF Replied
  <2>7. Asked(e, k) => Asked(e, k)'
    BY <2>1 DEF Asked
  <2>. QED  BY <1>g, <1>s, <2>1, <2>4, <2>6, <2>7
<1>11. ASSUME NEW n \in Conns, HandleCloseReconnect(n) PROVE Traced(e, k)'
  BY <1>11, <1>0, <1>g, <1>n DEF HandleCloseReconnect
<1>12. ASSUME NEW n \in Conns, HandleCloseStop(n) PROVE Traced(e, k)'
  BY <1>12, <1>0, <1>g, <1>n DEF HandleCloseStop
<1>13. ASSUME NEW n \in Conns, HandleHello(n) PROVE Traced(e, k)'
  <2>1. down' = Download(n, <<Challenge>>) /\ phase[n] = "hello" /\ n # k
    BY <1>13, <1>0, <1>g DEF HandleHello, ConnInv
  <2>2. down'[k] = down[k]
    BY <1>0, <2>1, DownloadWrites
  <2>3. Served /\ Still
    BY <1>13, <1>g, <2>1, <2>2 DEF HandleHello, Served, Still, clientVars, ledger, vars, book
  <2>. QED  BY <2>3, <1>b
<1>14. ASSUME NEW n \in Conns, HandleAuthenticate(n) PROVE Traced(e, k)'
  BY <1>14, <1>0, <1>g, <1>n DEF HandleAuthenticate, ConnInv, clientVars
<1>15. ASSUME NEW n \in Conns, ReceiveInvoke(n) PROVE Traced(e, k)'
  <2>1. NodeTakes(n, "invoke") /\ up' = [up EXCEPT ![n] = Tail(up[n])] /\ Served /\ entries' = entries
    BY <1>15, <1>g DEF ReceiveInvoke, Served, clientVars, ledger, nodeVars
  <2>2. Forwards
    BY <1>15, ForwardSteps
  <2>3. PICK d \in CallIds : d = Head(up[n]).call
    BY <1>0, <2>1, NodeReads
  <2>4. Asked(e, k) => Asked(e, k)' \/ e = d
    <3>1. CASE n = k
      <4>1. up[k] # <<>> /\ up'[k] = Tail(up[k]) /\ Head(up[k]).type = "invoke"
        BY <1>0, <2>1, <3>1 DEF NodeTakes, LinkTypes
      <4>2. Holds(up[k], "invoke", e) <=> Holds(Tail(up[k]), "invoke", e) \/ (Head(up[k]).type = "invoke" /\ Head(up[k]).call = e)
        BY <1>q, <4>1, HoldsTail
      <4>. QED  BY <2>3, <3>1, <4>1, <4>2 DEF Asked
    <3>2. CASE n # k
      BY <1>0, <2>1, <3>2 DEF Asked, LinkTypes
    <3>. QED  BY <3>1, <3>2
  <2>5. e = d => calls'[e] # None \/ (sent' # None /\ sent'.call = e)
    <3>1. PICK fresh \in BOOLEAN : fresh = (Head(up[n]).revision = revision)
      OBVIOUS
    <3>2. Submit(d, Peer, fresh) /\ Peer \in Clients
      BY <1>15, <2>3, <3>1, LinkAssumption DEF ReceiveInvoke, LinkAssumption
    <3>. QED  BY <1>i, <3>2, SubmitMoves
  <2>. QED  BY <1>f, <2>1, <2>2, <2>4, <2>5
<1>16. ASSUME NEW n \in Conns, ReceiveCancel(n) PROVE Traced(e, k)'
  <2>1. NodeTakes(n, "cancel") /\ up' = [up EXCEPT ![n] = Tail(up[n])] /\ Served /\ entries' = entries
    BY <1>16, <1>g DEF ReceiveCancel, Served, clientVars, ledger, nodeVars
  <2>2. Forwards
    BY <1>16, ForwardSteps
  <2>3. PICK d \in CallIds : d = Head(up[n]).call
    BY <1>0, <2>1, NodeReads
  <2>4. Asked(e, k) => Asked(e, k)' 
    <3>1. CASE n = k
      <4>1. up[k] # <<>> /\ up'[k] = Tail(up[k]) /\ Head(up[k]).type = "cancel"
        BY <1>0, <2>1, <3>1 DEF NodeTakes, LinkTypes
      <4>2. Holds(up[k], "invoke", e) <=> Holds(Tail(up[k]), "invoke", e) \/ (Head(up[k]).type = "invoke" /\ Head(up[k]).call = e)
        BY <1>q, <4>1, HoldsTail
      <4>. QED  BY <2>3, <3>1, <4>1, <4>2 DEF Asked
    <3>2. CASE n # k
      BY <1>0, <2>1, <3>2 DEF Asked, LinkTypes
    <3>. QED  BY <3>1, <3>2
  <2>. QED  BY <1>f, <2>1, <2>2, <2>4
<1>17. ASSUME NEW n \in Conns, SocketClosed(n) PROVE Traced(e, k)'
  <2>1. Served /\ Still
    BY <1>17, <1>0, <1>g, <1>n DEF SocketClosed, LinkTypes, LinkTypeOK, Served, Still, clientVars, ledger, nodeVars, netVars, vars, book
  <2>. QED  BY <2>1, <1>b
<1>18. ASSUME NEW n \in Conns, DropSilent(n) PROVE Traced(e, k)'
  <2>1. Served /\ Still
    BY <1>18, <1>0, <1>g, <1>n DEF DropSilent, LinkTypes, LinkTypeOK, Served, Still, clientVars, ledger, nodeVars, netVars, vars, book
  <2>. QED  BY <2>1, <1>b
<1>19. ASSUME NEW n \in Conns, IdleTimeout(n) PROVE Traced(e, k)'
  <2>1. Served /\ Still
    BY <1>19, <1>0, <1>g, <1>n DEF IdleTimeout, CloseConnection, Closing, LinkTypes, LinkTypeOK, Served, Still, clientVars, ledger, nodeVars, netVars, vars, book
  <2>. QED  BY <2>1, <1>b
<1>20. ASSUME NEW n \in Conns, Cut(n) PROVE Traced(e, k)'
  <2>1. Served /\ Still
    BY <1>20, <1>0, <1>g, <1>n DEF Cut, LinkTypes, LinkTypeOK, Served, Still, clientVars, ledger, nodeVars, netVars, vars, book
  <2>. QED  BY <2>1, <1>b
<1>21. ASSUME NEW r \in Runs, RunnerStep(r) PROVE Traced(e, k)'
  <2>1. Served /\ entries' = entries /\ up' = up
    BY <1>21, <1>g DEF RunnerStep, Served, clientVars, ledger, nodeVars
  <2>2. Forwards
    BY <1>21, ForwardSteps
  <2>3. Asked(e, k) => Asked(e, k)'
    BY <2>1 DEF Asked
  <2>. QED  BY <1>f, <2>1, <2>2, <2>3
<1>22. ASSUME NEW r \in Runs, DeadlineStep(r) PROVE Traced(e, k)'
  <2>1. Served /\ entries' = entries /\ up' = up
    BY <1>22, <1>g DEF DeadlineStep, Served, clientVars, ledger, nodeVars
  <2>2. Forwards
    BY <1>22, ForwardSteps
  <2>3. Asked(e, k) => Asked(e, k)'
    BY <2>1 DEF Asked
  <2>. QED  BY <1>f, <2>1, <2>2, <2>3
<1>23. ASSUME ManifestChange PROVE Traced(e, k)'
  <2>1. Served /\ entries' = entries /\ calls' = calls /\ up' = up
    BY <1>23, <1>g DEF ManifestChange, Served, clientVars, ledger, vars, book
  <2>2. PICK q : q = <<ManifestChanged(revision + 1)>>
    OBVIOUS
  <2>3. down' = Download(k, q)
    BY <1>23, <1>n, <2>1, <2>2 DEF ManifestChange, Served
  <2>4. down'[k] = down[k] \/ down'[k] = down[k] \o q
    BY <1>0, <2>3, DownloadWrites
  <2>5. q \in Seq({ManifestChanged(revision + 1)})
    BY <2>2
  <2>6. Replied(e, k) => Replied(e, k)'
    BY <1>q, <2>4, <2>5, HoldsGrows DEF Replied
  <2>7. (Asked(e, k) => Asked(e, k)') /\ (Pending(e)' <=> Pending(e))
    BY <2>1 DEF Asked, Pending
  <2>. QED  BY <1>g, <1>s, <2>1, <2>6, <2>7
<1>24. ASSUME Stop PROVE Traced(e, k)'
  BY <1>24, <1>0, <1>g, <1>n DEF Stop, CutAll
<1>25. ASSUME Start PROVE Traced(e, k)'
  <2>1. Served /\ Still
    BY <1>25, <1>0, <1>g, <1>n DEF Start, NewRunner, Served, Still, clientVars, ledger, nodeVars, netVars, vars, book
  <2>. QED  BY <2>1, <1>b
<1>26. ASSUME Crash PROVE Traced(e, k)'
  BY <1>26, <1>0, <1>g, <1>n DEF Crash, CutAll
<1>27. ASSUME NewProcess PROVE Traced(e, k)'
  <2>1. Served /\ Still
    BY <1>27, <1>0, <1>g, <1>n DEF NewProcess, NewRunner, Served, Still, clientVars, ledger, nodeVars, netVars, vars, book
  <2>. QED  BY <2>1, <1>b
<1>28. ASSUME UNCHANGED linkVars PROVE Traced(e, k)'
  <2>1. Served /\ Still
    BY <1>28, <1>g DEF Served, Still, linkVars, clientVars, ledger, nodeVars, netVars, vars, book
  <2>. QED  BY <2>1, <1>b
<1>. QED BY <1>1, <1>2, <1>3, <1>4, <1>5, <1>6, <1>7, <1>8, <1>9, <1>10, <1>11, <1>12, <1>13, <1>14, <1>15, <1>16, <1>17, <1>18, <1>19, <1>20, <1>21, <1>22, <1>23, <1>24, <1>25, <1>26, <1>27, <1>28 DEF LinkNext, ClientStep, NodeStep

-----------------------------------------------------------------------------
(* The invariant and what follows from it. *)

LEMMA LinkStarts ==
  ASSUME LinkInit
  PROVE  LinkInv
<1>0. /\ RunnerInit /\ MaxRevision \in Nat \ {0} /\ MaxRestarts \in Nat /\ MaxConns \in Nat
      /\ None \notin Conns /\ None \notin Answer /\ None \notin CallIds /\ None \notin Runs
  BY LinkAssumption, RunnerAssumption DEF LinkAssumption, RunnerAssumption, LinkInit
<1>1. RunnerInv /\ CacheKeys
  BY <1>0, InitInv DEF RunnerInit, CacheKeys
<1>2. \A c \in CallIds : ~Cached(c) /\ ~Began(c) /\ c \notin lost /\ ~Known(c) /\ ~Pending(c) /\ ~Decided(c)
  BY <1>0 DEF LinkInit, RunnerInit, Cached, Began, Invoked, Known, Decided, Pending
<1>3. AnswersInv
  BY <1>0 DEF RunnerInit, AnswersInv
<1>4. LinkTypes
  <2>1. entries \in Seq(CallIds)
    BY EmptySeq DEF LinkInit
  <2>2. LinkTypeOK
    <3>1. /\ cstate \in ClientState /\ reason \in {None, "disposed", "superseded"} /\ sock \in Conns \cup {None}
          /\ session \in {NoSession} \cup [epoch : 1..(MaxRestarts + 1), revision : 1..MaxRevision]
          /\ ready \in Conns \cup {None} /\ exited \in BOOLEAN
      BY DEF LinkInit, ClientState
    <3>2. /\ dispatched \in [CallIds -> BOOLEAN] /\ frameRev \in [CallIds -> 1..MaxRevision \cup {None}]
          /\ outcome \in [CallIds -> Answer \cup {None}]
          /\ phase \in [Conns -> Phase] /\ wire \in [Conns -> Wire]
      BY DEF LinkInit, Phase, Wire
    <3>3. /\ epoch \in 1..(MaxRestarts + 1) /\ revision \in 1..MaxRevision
          /\ dialed \in 0..MaxConns /\ restarts \in 0..MaxRestarts
      BY <1>0 DEF LinkInit
    <3>. QED  BY <2>1, <3>1, <3>2, <3>3 DEF LinkTypeOK
  <2>3. /\ up = [n \in Conns |-> up[n]] /\ down = [n \in Conns |-> down[n]]
        /\ epoch <= restarts + 1 /\ ~stopped /\ session = NoSession
    BY DEF LinkInit, RunnerInit
  <2>. QED  BY <2>2, <2>3 DEF LinkTypes
<1>5. ConnInv
  BY <1>0 DEF LinkInit, RunnerInit, ConnInv
<1>6. UpInv /\ DownInv
  <2>1. \A n \in Conns : up[n] = <<>> /\ down[n] = <<>> /\ phase[n] = "none"
    BY DEF LinkInit
  <2>. QED  BY <2>1, EmptySeq DEF UpInv, DownInv
<1>7. LedgerInv
  <2>1. \A c \in CallIds : ~dispatched[c] /\ outcome[c] = None
    BY DEF LinkInit
  <2>2. None \notin {"unsent", "success", "denied", "failed"}
    BY <1>0 DEF Answer
  <2>. QED  BY <1>2, <2>1, <2>2 DEF LedgerInv
<1>8. TracedInv
  BY <1>2 DEF TracedInv
<1>. QED  BY <1>1, <1>3, <1>4, <1>5, <1>6, <1>7, <1>8 DEF LinkInv

LEMMA LinkStep ==
  ASSUME LinkInv, [LinkNext]_linkVars
  PROVE  LinkInv'
<1>1. RunnerPart /\ LinkTypes' /\ ConnInv' /\ UpInv' /\ DownInv' /\ LedgerInv' /\ TracedInv'
  BY RunnerKept, TypesKept, ConnKept, UpInvKept, DownInvKept, LedgerInvKept, TracedInvKept
<1>. QED  BY <1>1 DEF RunnerPart, LinkInv

\* The inductive invariant of the link: the runner's own, what each phase lets be under way,
\* and what the client's ledger says of what the node has seen.
THEOREM LinkInvariant == LinkSpec => []LinkInv
<1>1. LinkInit => LinkInv
  BY LinkStarts
<1>2. LinkInv /\ [LinkNext]_linkVars => LinkInv'
  BY LinkStep
<1>. QED  BY <1>1, <1>2, PTL DEF LinkSpec

\* No order of closes, reconnects and ready frames makes the client send a frame that the
\* node's phase does not expect, which would end the pairing as unauthorized.
THEOREM NeverRefused == LinkSpec => []NeverUnauthorized
<1>1. LinkInv => NeverUnauthorized
  <2>. SUFFICES ASSUME LinkInv, NEW n \in Conns, Unexpected(n) PROVE FALSE
    BY DEF NeverUnauthorized
  <2>1. UpInv
    BY DEF LinkInv
  <2>2. \E t \in {"hello", "authenticate", "invoke", "cancel"} : NodeTakes(n, t)
    BY DEF Unexpected
  <2>3. /\ NodeTakes(n, "hello") => phase[n] = "hello"
        /\ NodeTakes(n, "authenticate") => phase[n] \in {"authenticate", "ready"}
        /\ NodeTakes(n, "invoke") => phase[n] = "ready"
        /\ NodeTakes(n, "cancel") => phase[n] = "ready"
    BY <2>1, NodeReads
  <2>. QED  BY <2>3 DEF Unexpected
<1>. QED  BY <1>1, LinkInvariant, PTL

\* Once both ends agree on a connection and nothing is under way on it, a pending call is in
\* the node's book: neither end waits for the other for ever.
THEOREM NothingForgottenOnTheWay == LinkSpec => []NoCallForgotten
<1>1. LinkInv => NoCallForgotten
  <2>. SUFFICES ASSUME LinkInv, NEW c \in CallIds \ Oversize,
                       cstate = "ready", ready = sock, wire[sock] = "open",
                       up[sock] = <<>>, down[sock] = <<>>, Pending(c)
                PROVE  calls[c] # None
    BY DEF NoCallForgotten
  <2>1. TracedInv /\ ConnInv /\ sock \in Conns \cup {None}
    BY DEF LinkInv, LinkTypes, LinkTypeOK
  <2>2. PICK n \in Conns : n = sock
    BY <2>1 DEF ConnInv
  <2>3. ~Asked(c, n) /\ ~Replied(c, n)
    BY <2>2, HoldsNone DEF Asked, Replied
  <2>. QED  BY <2>1, <2>2, <2>3 DEF TracedInv
<1>. QED  BY <1>1, LinkInvariant, PTL

\* A call the client reports as never sent was never executed, and stays so: no frame of it
\* can be under way.
THEOREM UnsentCallsNeverRun == LinkSpec => []UnsentNeverRuns
<1>1. LinkInv => UnsentNeverRuns
  <2>. SUFFICES ASSUME LinkInv, NEW c \in CallIds, outcome[c] = "unsent", NEW r \in RunsOf(c) PROVE ~Invoked(r)
    BY DEF UnsentNeverRuns
  <2>1. ~Known(c)
    BY DEF LinkInv, LedgerInv
  <2>2. r \in Runs /\ owner[r] = c
    BY DEF RunsOf
  <2>. QED  BY <2>1, <2>2 DEF Known
<1>. QED  BY <1>1, LinkInvariant, PTL

\* A promise settles once: no timer, verdict, restart or late result changes it.
THEOREM PromisesSettleOnce == LinkSpec => SettledOnce
<1>1. LinkInv /\ [LinkNext]_linkVars =>
        [\A c \in CallIds : outcome[c] # None => outcome'[c] = outcome[c] /\ ~Pending(c)']_linkVars
  <2>. SUFFICES ASSUME LinkInv, [LinkNext]_linkVars, NEW c \in CallIds, outcome[c] # None
                PROVE  outcome'[c] = outcome[c] /\ ~Pending(c)'
    OBVIOUS
  <2>1. LedgerMoves(c)
    BY LedgerMoved
  <2>. QED  BY <2>1 DEF LedgerMoves
<1>. QED  BY <1>1, LinkInvariant, PTL DEF LinkSpec, SettledOnce

-----------------------------------------------------------------------------
(* At most once.  What a full cache evicts can run again, so from here on *)
(* the cache has room for every callId.                                    *)

CacheSuffices == IsFiniteSet(CallIds) /\ Cardinality(CallIds) <= Capacity

LEMMA NothingEvicted ==
  ASSUME CacheSuffices, RunnerTypeOK, CacheKeys, NEW d \in CallIds, NEW s \in Status, ~Cached(d)
  PROVE  Evicted(Stored(d, s)) = {}
<1>. DEFINE n == Len(completed)
            T == CallIds \ {d}
            f == [i \in 1..n |-> completed[i].call]
<1>1. completed \in Seq(Result) /\ n \in Nat /\ DOMAIN completed = 1..n
  BY LenProperties DEF RunnerTypeOK
<1>2. \A i \in 1..n : completed[i].call \in CallIds
  <2>1. \A i \in 1..n : completed[i] \in Result
    BY <1>1, ElementOfSeq
  <2>. QED  BY <2>1 DEF Result
<1>3. f \in Injection(1..n, T)
  <2>1. f \in [1..n -> T]
    BY <1>1, <1>2 DEF Cached
  <2>2. \A i, j \in 1..n : f[i] = f[j] => i = j
    BY <1>1 DEF CacheKeys
  <2>. QED  BY <2>1, <2>2 DEF Injection, IsInjective
<1>4. IsFiniteSet(T) /\ Cardinality(T) = Cardinality(CallIds) - 1
  BY FS_RemoveElement DEF CacheSuffices
<1>5. Cardinality(1..n) <= Cardinality(T)
  <2>. HIDE DEF f, T, n
  <2>. QED  BY <1>3, <1>4, FS_Injection
<1>6. Cardinality(1..n) = n
  <2>. HIDE DEF n
  <2>1. 1 \in Int /\ n \in Int
    BY ONLY <1>1
  <2>2. Cardinality(1..n) = IF 1 > n THEN 0 ELSE n - 1 + 1
    BY ONLY <2>1, FS_Interval
  <2>. QED  BY ONLY <1>1, <2>2
<1>7. Cardinality(CallIds) \in Nat
  BY FS_CardinalityType DEF CacheSuffices
<1>8. Len(Stored(d, s)) = n + 1
  <2>1. Stored(d, s) = Append(completed, [call |-> d, status |-> s])
    BY DEF Stored
  <2>2. [call |-> d, status |-> s] \in Result
    BY DEF Result
  <2>. QED  BY <1>1, <2>1, <2>2, AppendProperties
<1>9. ~(n + 1 > Capacity)
  <2>. HIDE DEF n, T
  <2>. QED  BY <1>1, <1>4, <1>5, <1>6, <1>7, RunnerAssumption DEF CacheSuffices, RunnerAssumption
<1>. QED  BY <1>8, <1>9 DEF Evicted

\* What is lost stays as it is, no more is lost, and a new call object is one for a callId.
LostStays(d) ==
  /\ lost' = lost
  /\ \A c \in CallIds : c # d /\ calls[c] = None /\ ~Cached(c) => calls'[c] = None /\ ~Cached(c)'
  /\ \A r \in Runs : owner'[r] \in {owner[r], d}

LEMMA SettleLosesNothing ==
  ASSUME CacheSuffices, RunnerInv, CacheKeys, NEW r \in Runs, NEW s \in Status, stage[r] # "unused", Settle(r, s)
  PROVE  LostStays(None)
<1>1. CASE settled[r]
  BY <1>1 DEF Settle, book, records, LostStays, Cached
<1>2. CASE ~settled[r]
  <2>1. PICK d \in CallIds : d = owner[r] /\ calls[d] = r
    BY <1>2 DEF RunnerInv, BookConsistent
  <2>2. r # None /\ RunnerTypeOK
    BY RunnerAssumption DEF RunnerAssumption, RunnerInv
  <2>3. ~Cached(d)
    BY <2>1, <2>2 DEF RunnerInv, MemoryConsistent
  <2>4. Remember(d, s) /\ calls' = [calls EXCEPT ![d] = None] /\ owner' = owner
    BY <1>2, <2>1 DEF Settle
  <2>5. lost' = lost
    BY <2>2, <2>3, <2>4, NothingEvicted DEF Remember
  <2>6. \A c \in CallIds : Cached(c)' => Cached(c) \/ c = d
    BY <2>2, <2>4, RememberKeeps
  <2>. HIDE DEF Cached
  <2>. QED  BY <2>1, <2>2, <2>4, <2>5, <2>6 DEF LostStays, RunnerTypeOK
<1>. QED  BY <1>1, <1>2

LEMMA SubmitLosesNothing ==
  ASSUME CacheSuffices, RunnerInv, CacheKeys, NEW c \in CallIds, NEW cl \in Clients, NEW fresh \in BOOLEAN,
         Submit(c, cl, fresh)
  PROVE  LostStays(c)
<1>n. RunnerTypeOK
  BY DEF RunnerInv
<1>1. CASE Replay(c, cl)
  BY <1>1 DEF Replay, book, records, LostStays, Cached
<1>2. CASE Duplicate(c)
  BY <1>2 DEF Duplicate, book, records, LostStays, Cached
<1>3. CASE RejectStale(c, cl)
  <2>1. Remember(c, "stale") /\ ~Cached(c) /\ calls' = calls /\ owner' = owner
    BY <1>3 DEF RejectStale, book
  <2>2. lost' = lost
    <3>1. Evicted(Stored(c, "stale")) = {}
      BY <1>n, <2>1, NothingEvicted DEF Status
    <3>. QED  BY <2>1, <3>1 DEF Remember
  <2>3. \A e \in CallIds : Cached(e)' => Cached(e) \/ e = c
    <3>1. "stale" \in Status
      BY DEF Status
    <3>. QED  BY <1>n, <2>1, <3>1, RememberKeeps
  <2>. HIDE DEF Cached
  <2>. QED  BY <2>1, <2>2, <2>3 DEF LostStays
<1>4. CASE Accept(c, cl)
  <2>1. PICK r \in Runs : calls' = [calls EXCEPT ![c] = r] /\ owner' = [owner EXCEPT ![r] = c]
    BY <1>4 DEF Accept
  <2>2. lost' = lost /\ completed' = completed
    BY <1>4 DEF Accept
  <2>. QED  BY <1>n, <2>1, <2>2 DEF LostStays, Cached, RunnerTypeOK
<1>. QED  BY <1>1, <1>2, <1>3, <1>4 DEF Submit

\* The runner's steps: only the callId of an invoke frame that was under way may get a call object.
LEMMA ForwardLosesNothing ==
  ASSUME LinkInv, CacheSuffices
  PROVE  /\ \A n \in Conns : ReceiveInvoke(n) => \E d \in CallIds : Asked(d, n) /\ LostStays(d)
         /\ \A n \in Conns : ReceiveCancel(n) => LostStays(None)
         /\ \A r \in Runs : RunnerStep(r) \/ DeadlineStep(r) => LostStays(None)
<1>0. RunnerInv /\ CacheKeys /\ UpInv
  BY DEF LinkInv
<1>s. ASSUME UNCHANGED <<book, records>> PROVE LostStays(None)
  BY <1>s DEF book, records, LostStays, Cached
<1>p. Peer \in Clients /\ None \notin Runs
  BY LinkAssumption, RunnerAssumption DEF LinkAssumption, RunnerAssumption
<1>1. ASSUME NEW n \in Conns, ReceiveInvoke(n) PROVE \E d \in CallIds : Asked(d, n) /\ LostStays(d)
  <2>1. NodeTakes(n, "invoke")
    BY <1>1 DEF ReceiveInvoke
  <2>2. PICK d \in CallIds : d = Head(up[n]).call
    BY <1>0, <2>1, NodeReads
  <2>3. PICK fresh \in BOOLEAN : fresh = (Head(up[n]).revision = revision)
    OBVIOUS
  <2>4. Submit(d, Peer, fresh)
    BY <1>1, <2>2, <2>3 DEF ReceiveInvoke
  <2>5. LostStays(d)
    BY <1>0, <1>p, <2>4, SubmitLosesNothing
  <2>6. up[n] \in Seq(UpFrames(phase[n], Out)) /\ up[n] # <<>> /\ Head(up[n]).type = "invoke"
    BY <1>0, <2>1 DEF UpInv, NodeTakes
  <2>7. Asked(d, n)
    BY <2>2, <2>6, HoldsTail DEF Asked
  <2>. QED  BY <2>5, <2>7
<1>2. ASSUME NEW n \in Conns, ReceiveCancel(n) PROVE LostStays(None)
  <2>1. NodeTakes(n, "cancel")
    BY <1>2 DEF ReceiveCancel
  <2>2. PICK d \in CallIds : d = Head(up[n]).call
    BY <1>0, <2>1, NodeReads
  <2>3. Cancel(d)
    BY <1>2, <2>2 DEF ReceiveCancel
  <2>4. CASE calls[d] = None
    BY <2>3, <2>4, <1>s DEF Cancel
  <2>5. CASE calls[d] # None
    <3>0. PICK r \in Runs : r = calls[d]
      BY <1>0, <2>5 DEF RunnerInv, RunnerTypeOK
    <3>1. stage[r] # "unused" /\ Settle(r, "cancelled")
      BY <1>0, <2>3, <2>5, <3>0 DEF Cancel, RunnerInv, BookConsistent
    <3>2. "cancelled" \in Status
      BY DEF Status
    <3>. QED  BY <1>0, <3>1, <3>2, SettleLosesNothing
  <2>. QED  BY <2>4, <2>5
<1>3. ASSUME NEW r \in Runs, RunnerStep(r) PROVE LostStays(None)
  <2>1. ASSUME NEW s \in Outcome, Finish(r, s) PROVE LostStays(None)
    <3>1. stage[r] # "unused" /\ Settle(r, s) /\ s \in Status
      BY <2>1 DEF Finish, Status
    <3>. QED  BY <1>0, <3>1, SettleLosesNothing
  <2>2. ASSUME FinishDetached(r) PROVE LostStays(None)
    BY <2>2, <1>s DEF FinishDetached
  <2>. QED  BY <1>3, <2>1, <2>2 DEF RunnerStep
<1>4. ASSUME NEW r \in Runs, DeadlineStep(r) PROVE LostStays(None)
  <2>1. stage[r] # "unused" /\ Settle(r, "deadline")
    BY <1>4 DEF DeadlineStep, Deadline
  <2>2. "deadline" \in Status
    BY DEF Status
  <2>. QED  BY <1>0, <2>1, <2>2, SettleLosesNothing
<1>. QED  BY <1>1, <1>2, <1>3, <1>4

\* Two call objects of one callId need a lost outcome, so without one there is no second.
LEMMA OneRunStays ==
  ASSUME RunnerInv', OneRun, NEW d, d \notin lost, LostStays(d)
  PROVE  OneRun'
<1>. SUFFICES ASSUME NEW r \in Runs, NEW q \in Runs, owner'[r] # None, owner'[r] = owner'[q], r # q
              PROVE  FALSE
  BY DEF OneRun
<1>1. stage'[r] # "unused" /\ stage'[q] # "unused"
  BY DEF RunnerInv, BookConsistent
<1>2. owner'[r] \in lost'
  BY <1>1 DEF RunnerInv, MemoryConsistent
<1>3. owner'[r] = owner[r] /\ owner'[q] = owner[q]
  BY <1>2 DEF LostStays
<1>. QED  BY <1>3 DEF OneRun

\* Until the server is first stopped no outcome is lost, and no callId has two call objects.
OnceInv == restarts = 0 => (stopped \/ lost = {}) /\ OneRun

LEMMA OnceStep ==
  ASSUME LinkInv, CacheSuffices, OnceInv, [LinkNext]_linkVars
  PROVE  OnceInv'
<1>0. LinkInv /\ CacheSuffices /\ OnceInv /\ RunnerInv'
  BY RunnerKept DEF RunnerPart
<1>k. None \notin lost
  BY RunnerAssumption DEF RunnerAssumption, LinkInv, RunnerInv, RunnerTypeOK
<1>z. restarts + 1 # 0
  <2>1. restarts \in Nat
    BY LinkAssumption DEF LinkInv, LinkTypes, LinkTypeOK, LinkAssumption
  <2>. QED  BY <2>1
<1>q. ASSUME UNCHANGED vars, restarts' = restarts PROVE OnceInv'
  BY <1>0, <1>q DEF OnceInv, OneRun, vars, book, records
<1>1. ASSUME OpenSocket PROVE OnceInv'
  <2>1. UNCHANGED vars /\ restarts' = restarts
    BY <1>1 DEF OpenSocket, nodeVars
  <2>. QED  BY <2>1, <1>q
<1>2. ASSUME NEW c \in CallIds, Track(c) PROVE OnceInv'
  <2>1. UNCHANGED vars /\ restarts' = restarts
    BY <1>2 DEF Track, nodeVars
  <2>. QED  BY <2>1, <1>q
<1>3. ASSUME NEW c \in CallIds, Abort(c) PROVE OnceInv'
  <2>1. UNCHANGED vars /\ restarts' = restarts
    BY <1>3 DEF Abort, Withdraw, nodeVars
  <2>. QED  BY <2>1, <1>q
<1>4. ASSUME NEW c \in CallIds, Timeout(c) PROVE OnceInv'
  <2>1. UNCHANGED vars /\ restarts' = restarts
    BY <1>4 DEF Timeout, Withdraw, nodeVars
  <2>. QED  BY <2>1, <1>q
<1>5. ASSUME Dispose PROVE OnceInv'
  <2>1. UNCHANGED vars /\ restarts' = restarts
    BY <1>5 DEF Dispose, nodeVars
  <2>. QED  BY <2>1, <1>q
<1>6. ASSUME NEW n \in Conns, HandleOpen(n) PROVE OnceInv'
  <2>1. UNCHANGED vars /\ restarts' = restarts
    BY <1>6 DEF HandleOpen, nodeVars
  <2>. QED  BY <2>1, <1>q
<1>7. ASSUME NEW n \in Conns, HandleChallenge(n) PROVE OnceInv'
  <2>1. UNCHANGED vars /\ restarts' = restarts
    BY <1>7 DEF HandleChallenge, nodeVars
  <2>. QED  BY <2>1, <1>q
<1>8. ASSUME NEW n \in Conns, HandleReady(n) PROVE OnceInv'
  <2>1. UNCHANGED vars /\ restarts' = restarts
    BY <1>8 DEF HandleReady, nodeVars
  <2>. QED  BY <2>1, <1>q
<1>9. ASSUME NEW n \in Conns, ApplyManifest(n) PROVE OnceInv'
  <2>1. UNCHANGED vars /\ restarts' = restarts
    BY <1>9 DEF ApplyManifest, nodeVars
  <2>. QED  BY <2>1, <1>q
<1>10. ASSUME NEW n \in Conns, SettleResult(n) PROVE OnceInv'
  <2>1. UNCHANGED vars /\ restarts' = restarts
    BY <1>10 DEF SettleResult, nodeVars
  <2>. QED  BY <2>1, <1>q
<1>11. ASSUME NEW n \in Conns, HandleCloseReconnect(n) PROVE OnceInv'
  <2>1. UNCHANGED vars /\ restarts' = restarts
    BY <1>11 DEF HandleCloseReconnect, nodeVars
  <2>. QED  BY <2>1, <1>q
<1>12. ASSUME NEW n \in Conns, HandleCloseStop(n) PROVE OnceInv'
  <2>1. UNCHANGED vars /\ restarts' = restarts
    BY <1>12 DEF HandleCloseStop, nodeVars
  <2>. QED  BY <2>1, <1>q
<1>13. ASSUME NEW n \in Conns, HandleHello(n) PROVE OnceInv'
  <2>1. UNCHANGED vars /\ restarts' = restarts
    BY <1>13 DEF HandleHello, nodeVars
  <2>. QED  BY <2>1, <1>q
<1>14. ASSUME NEW n \in Conns, HandleAuthenticate(n) PROVE OnceInv'
  <2>1. UNCHANGED vars /\ restarts' = restarts
    BY <1>14 DEF HandleAuthenticate, nodeVars
  <2>. QED  BY <2>1, <1>q
<1>15. ASSUME NEW n \in Conns, ReceiveInvoke(n) PROVE OnceInv'
  <2>1. PICK d \in CallIds : LostStays(d)
    BY <1>15, <1>0, ForwardLosesNothing
  <2>2. restarts' = restarts /\ stopped' = stopped /\ ~stopped
    BY <1>15 DEF ReceiveInvoke, Submit, Replay, Duplicate, RejectStale, Accept, nodeVars
  <2>. QED  BY <1>0, <1>k, <2>1, <2>2, OneRunStays DEF OnceInv, LostStays
<1>16. ASSUME NEW n \in Conns, ReceiveCancel(n) PROVE OnceInv'
  <2>1. LostStays(None)
    BY <1>16, <1>0, ForwardLosesNothing
  <2>2. restarts' = restarts /\ stopped' = stopped
    BY <1>16 DEF ReceiveCancel, Cancel, nodeVars
  <2>. QED  BY <1>0, <1>k, <2>1, <2>2, OneRunStays DEF OnceInv, LostStays
<1>17. ASSUME NEW n \in Conns, SocketClosed(n) PROVE OnceInv'
  <2>1. UNCHANGED vars /\ restarts' = restarts
    BY <1>17 DEF SocketClosed, nodeVars
  <2>. QED  BY <2>1, <1>q
<1>18. ASSUME NEW n \in Conns, DropSilent(n) PROVE OnceInv'
  <2>1. UNCHANGED vars /\ restarts' = restarts
    BY <1>18 DEF DropSilent, nodeVars
  <2>. QED  BY <2>1, <1>q
<1>19. ASSUME NEW n \in Conns, IdleTimeout(n) PROVE OnceInv'
  <2>1. UNCHANGED vars /\ restarts' = restarts
    BY <1>19 DEF IdleTimeout, nodeVars
  <2>. QED  BY <2>1, <1>q
<1>20. ASSUME NEW n \in Conns, Cut(n) PROVE OnceInv'
  <2>1. UNCHANGED vars /\ restarts' = restarts
    BY <1>20 DEF Cut, nodeVars
  <2>. QED  BY <2>1, <1>q
<1>21. ASSUME NEW r \in Runs, RunnerStep(r) PROVE OnceInv'
  <2>1. LostStays(None)
    BY <1>21, <1>0, ForwardLosesNothing
  <2>2. restarts' = restarts /\ stopped' = stopped
    BY <1>21 DEF RunnerStep, Finish, FinishDetached, nodeVars
  <2>. QED  BY <1>0, <1>k, <2>1, <2>2, OneRunStays DEF OnceInv, LostStays
<1>22. ASSUME NEW r \in Runs, DeadlineStep(r) PROVE OnceInv'
  <2>1. LostStays(None)
    BY <1>22, <1>0, ForwardLosesNothing
  <2>2. restarts' = restarts /\ stopped' = stopped
    BY <1>22 DEF DeadlineStep, Deadline, nodeVars
  <2>. QED  BY <1>0, <1>k, <2>1, <2>2, OneRunStays DEF OnceInv, LostStays
<1>23. ASSUME ManifestChange PROVE OnceInv'
  <2>1. UNCHANGED vars /\ restarts' = restarts
    BY <1>23 DEF ManifestChange, nodeVars
  <2>. QED  BY <2>1, <1>q
<1>24. ASSUME Stop PROVE OnceInv'
  BY <1>24, <1>0 DEF Stop, AbortAll, OnceInv, OneRun
<1>25. ASSUME Start PROVE OnceInv'
  BY <1>25, <1>z DEF Start, OnceInv
<1>26. ASSUME Crash PROVE OnceInv'
  BY <1>26, <1>0 DEF Crash, ProcessExit, OnceInv, OneRun
<1>27. ASSUME NewProcess PROVE OnceInv'
  BY <1>27, <1>z DEF NewProcess, OnceInv
<1>28. ASSUME UNCHANGED linkVars PROVE OnceInv'
  <2>1. UNCHANGED vars /\ restarts' = restarts
    BY <1>28 DEF linkVars, nodeVars
  <2>. QED  BY <2>1, <1>q
<1>. QED BY <1>1, <1>2, <1>3, <1>4, <1>5, <1>6, <1>7, <1>8, <1>9, <1>10, <1>11, <1>12, <1>13, <1>14, <1>15, <1>16, <1>17, <1>18, <1>19, <1>20, <1>21, <1>22, <1>23, <1>24, <1>25, <1>26, <1>27, <1>28 DEF LinkNext, ClientStep, NodeStep

\* The call objects of a callId of which the capability was called.
LEMMA WorkOf ==
  ASSUME OneRun, NEW c \in CallIds
  PROVE  Cardinality({r \in RunsOf(c) : Invoked(r)}) = IF Began(c) THEN 1 ELSE 0
<1>. DEFINE W == {r \in RunsOf(c) : Invoked(r)}
<1>1. CASE Began(c)
  <2>1. PICK r \in Runs : owner[r] = c /\ Invoked(r)
    BY <1>1 DEF Began
  <2>2. c # None
    BY RunnerAssumption DEF RunnerAssumption
  <2>3. W = {r}
    BY <2>1, <2>2 DEF OneRun, RunsOf
  <2>. QED  BY <1>1, <2>3, FS_Singleton
<1>2. CASE ~Began(c)
  <2>1. W = {}
    BY <1>2 DEF Began, RunsOf
  <2>. QED  BY <1>2, <2>1, FS_EmptySet
<1>. QED  BY <1>1, <1>2

\* A callId is executed at most once, however often its frame arrives and on whichever
\* connection, until the server is stopped, as long as the cache has room for every callId.
THEOREM ExecutedOnceUntilStopped ==
  ASSUME CacheSuffices
  PROVE  LinkSpec => []AtMostOnceUntilStopped
<1>1. LinkInit => OnceInv
  <2>. SUFFICES ASSUME LinkInit PROVE OnceInv
    OBVIOUS
  <2>. QED  BY DEF LinkInit, RunnerInit, OnceInv, OneRun
<1>2. LinkInv /\ OnceInv /\ [LinkNext]_linkVars => OnceInv'
  BY OnceStep
<1>3. OnceInv => AtMostOnceUntilStopped
  <2>. SUFFICES ASSUME OnceInv, restarts = 0, NEW c \in CallIds
                PROVE  Cardinality({r \in RunsOf(c) : Invoked(r)}) <= 1
    BY DEF AtMostOnceUntilStopped, AtMostOnce
  <2>1. OneRun
    BY DEF OnceInv
  <2>. QED  BY <2>1, WorkOf
<1>. QED  BY <1>1, <1>2, <1>3, LinkInvariant, PTL DEF LinkSpec

-----------------------------------------------------------------------------
(* The link implements RemoteCall, when the server is not stopped and      *)
(* started again in one process.                                           *)

\* No step writes an invoke frame of a call whose outcome is lost.
LEMMA AskedStays ==
  ASSUME LinkInv, LostInv, NEW n \in Conns, UpStep(n), NEW c \in CallIds, c \in lost, Asked(c, n)'
  PROVE  Asked(c, n)
<1>0. UpInv /\ ConnInv /\ LedgerInv
  BY DEF LinkInv
<1>a. up[n] \in Seq(UpFrames(phase[n], Out))
  BY <1>0 DEF UpInv
<1>b. Holds(up'[n], "invoke", c)
  BY DEF Asked
<1>. HIDE DEF Holds, UpFrames
<1>1. CASE up'[n] = up[n]
  BY <1>1, <1>b DEF Asked
<1>2. CASE up'[n] = <<>>
  BY <1>2, <1>b, HoldsNone
<1>3. CASE up'[n] = <<Hello>>
  <2>1. PICK f : f = Hello
    OBVIOUS
  <2>. QED  BY <1>3, <1>b, <2>1, HoldsOne DEF Hello
<1>4. CASE up[n] # <<>> /\ up'[n] = Tail(up[n])
  <2>1. Holds(up[n], "invoke", c)
    BY <1>4, <1>a, <1>b, HoldsTail
  <2>. QED  BY <2>1 DEF Asked
<1>5. ASSUME NEW f, f.type # "invoke", up'[n] = up[n] \o <<f>> PROVE Asked(c, n)
  <2>1. PICK p : p = <<f>>
    OBVIOUS
  <2>2. p \in Seq({f})
    BY <2>1
  <2>3. ~Holds(p, "invoke", c)
    BY <1>5, <2>1, HoldsOne
  <2>4. Holds(up[n], "invoke", c) \/ Holds(p, "invoke", c)
    <3>1. PICK S : S = UpFrames(phase[n], Out) \cup {f}
      OBVIOUS
    <3>2. PICK q : q = up[n]
      OBVIOUS
    <3>3. q \in Seq(S) /\ p \in Seq(S) /\ Holds(q \o p, "invoke", c)
      BY <1>5, <1>a, <1>b, <2>1, <2>2, <3>1, <3>2
    <3>4. Holds(q, "invoke", c) \/ Holds(p, "invoke", c)
      BY ONLY <3>3, HoldsConcat
    <3>. QED  BY ONLY <3>2, <3>4
  <2>. QED  BY <2>3, <2>4 DEF Asked
<1>6. CASE up'[n] = Append(up[n], Close("transient"))
  <2>1. PICK f : f = Close("transient")
    OBVIOUS
  <2>2. up[n] \in Seq(UpFrames(phase[n], Out) \cup {f}) /\ f \in UpFrames(phase[n], Out) \cup {f}
    BY <1>a, SeqWider
  <2>3. Append(up[n], f) = up[n] \o <<f>>
    BY <2>2, AppendIsConcat
  <2>4. f.type # "invoke"
    BY <2>1 DEF Close
  <2>. QED  BY <1>5, <1>6, <2>1, <2>3, <2>4
<1>7. CASE up'[n] = up[n] \o <<Authenticate>>
  <2>1. PICK f : f = Authenticate
    OBVIOUS
  <2>2. f.type # "invoke"
    BY <2>1 DEF Authenticate
  <2>. QED  BY <1>5, <1>7, <2>1, <2>2
<1>8. CASE phase[n] = "ready" /\ \E q \in Seq(UpFrames("ready", Out')) :
             up'[n] = up[n] \o q /\ \A d \in CallIds : Holds(q, "invoke", d) => Writable(d)
  <2>1. PICK q \in Seq(UpFrames("ready", Out')) :
          up'[n] = up[n] \o q /\ \A d \in CallIds : Holds(q, "invoke", d) => Writable(d)
    BY <1>8
  <2>2. ~stopped /\ ~exited
    BY <1>0, <1>8 DEF ConnInv
  <2>3. dispatched[c]
    BY <1>0 DEF LedgerInv, Known, Decided
  <2>4. ~Writable(c)
    BY <2>2, <2>3 DEF Writable, LostInv
  <2>5. Holds(up[n], "invoke", c) \/ Holds(q, "invoke", c)
    BY <1>a, <1>b, <2>1, HoldsConcat
  <2>. QED  BY <2>1, <2>4, <2>5 DEF Asked
<1>. HIDE DEF Out, Asked
<1>. QED  BY <1>1, <1>2, <1>3, <1>4, <1>6, <1>7, <1>8 DEF UpStep

\* The steps that neither stop the runner nor start a new one.
LEMMA LostKept ==
  ASSUME LinkInv, LostInv, [LinkNext]_linkVars, NEW d, d \notin lost, LostStays(d),
         stopped' = stopped, exited' = exited, epoch' = epoch,
         \A c \in CallIds : c \in lost /\ Pending(c)' => session'.epoch = session.epoch
  PROVE  LostInv'
<1>1. stopped' => exited'
  BY DEF LostInv
<1>2. ASSUME NEW c \in CallIds, c \in lost'
      PROVE  /\ calls'[c] = None /\ ~Cached(c)'
             /\ \A n \in Conns : ~Asked(c, n)'
             /\ Pending(c)' => exited' \/ session'.epoch # epoch'
  <2>1. c \in lost /\ c # d
    BY <1>2 DEF LostStays
  <2>2. calls[c] = None /\ ~Cached(c)
    BY <2>1 DEF LostInv
  <2>3. calls'[c] = None /\ ~Cached(c)'
    BY <2>1, <2>2 DEF LostStays
  <2>4. \A n \in Conns : ~Asked(c, n)'
    <3>1. \A n \in Conns : UpStep(n)
      BY UpStepped DEF UpSteps
    <3>2. \A n \in Conns : ~Asked(c, n)
      BY <2>1 DEF LostInv
    <3>. HIDE DEF UpStep, Asked
    <3>. QED  BY <2>1, <3>1, <3>2, AskedStays
  <2>5. Pending(c)' => Pending(c)
    <3>1. Pending(c)' => Pending(c) \/ ~dispatched[c]
      BY LedgerMoved DEF LedgerMoves
    <3>2. dispatched[c]
      BY <2>1 DEF LinkInv, LedgerInv, Known, Decided
    <3>. QED  BY <3>1, <3>2
  <2>. QED  BY <2>1, <2>3, <2>4, <2>5 DEF LostInv
<1>. HIDE DEF Asked, Cached, Pending
<1>. QED  BY <1>1, <1>2 DEF LostInv

\* The server is not stopped and started again within one process.
OneProcess == "restart" \notin Faults

LEMMA LostStep ==
  ASSUME LinkInv, CacheSuffices, OneProcess, LostInv, [LinkNext]_linkVars
  PROVE  LostInv'
<1>0. /\ LinkInv /\ CacheSuffices /\ OneProcess /\ LostInv /\ [LinkNext]_linkVars
      /\ RunnerInv /\ LinkTypes /\ LinkTypeOK /\ ConnInv /\ UpInv /\ DownInv /\ LedgerInv
  BY DEF LinkInv, LinkTypes
<1>k. None \notin lost
  BY RunnerAssumption DEF RunnerAssumption, LinkInv, RunnerInv, RunnerTypeOK
<1>q. ASSUME UNCHANGED vars, epoch' = epoch, exited' = exited,
             \A c \in CallIds : c \in lost /\ Pending(c)' => session'.epoch = session.epoch
      PROVE  LostInv'
  <2>1. LostStays(None) /\ stopped' = stopped
    BY <1>q DEF LostStays, vars, book, records, Cached
  <2>. QED  BY <1>0, <1>k, <1>q, <2>1, LostKept
<1>1. ASSUME OpenSocket PROVE LostInv'
  <2>1. UNCHANGED vars /\ session' = session /\ epoch' = epoch /\ exited' = exited
    BY <1>1 DEF OpenSocket, clientVars, nodeVars
  <2>. QED  BY <2>1, <1>q
<1>2. ASSUME NEW c \in CallIds, Track(c) PROVE LostInv'
  <2>1. UNCHANGED vars /\ session' = session /\ epoch' = epoch /\ exited' = exited
    BY <1>2 DEF Track, clientVars, nodeVars
  <2>. QED  BY <2>1, <1>q
<1>3. ASSUME NEW c \in CallIds, Abort(c) PROVE LostInv'
  <2>1. UNCHANGED vars /\ session' = session /\ epoch' = epoch /\ exited' = exited
    BY <1>3 DEF Abort, Withdraw, clientVars, nodeVars
  <2>. QED  BY <2>1, <1>q
<1>4. ASSUME NEW c \in CallIds, Timeout(c) PROVE LostInv'
  <2>1. UNCHANGED vars /\ session' = session /\ epoch' = epoch /\ exited' = exited
    BY <1>4 DEF Timeout, Withdraw, clientVars, nodeVars
  <2>. QED  BY <2>1, <1>q
<1>5. ASSUME Dispose PROVE LostInv'
  <2>1. UNCHANGED vars /\ epoch' = epoch /\ exited' = exited /\ entries' = <<>>
    BY <1>5 DEF Dispose, FailAll, nodeVars
  <2>2. \A c \in CallIds : ~Pending(c)'
    BY <2>1 DEF Pending
  <2>. QED  BY <2>1, <2>2, <1>q
<1>6. ASSUME NEW n \in Conns, HandleOpen(n) PROVE LostInv'
  <2>1. UNCHANGED vars /\ session' = session /\ epoch' = epoch /\ exited' = exited
    BY <1>6 DEF HandleOpen, clientVars, nodeVars
  <2>. QED  BY <2>1, <1>q
<1>7. ASSUME NEW n \in Conns, HandleChallenge(n) PROVE LostInv'
  <2>1. UNCHANGED vars /\ session' = session /\ epoch' = epoch /\ exited' = exited
    BY <1>7 DEF HandleChallenge, clientVars, nodeVars
  <2>. QED  BY <2>1, <1>q
<1>8. ASSUME NEW n \in Conns, HandleReady(n) PROVE LostInv'
  <2>1. ClientTakes(n, "ready") /\ UNCHANGED vars /\ epoch' = epoch /\ exited' = exited
    BY <1>8 DEF HandleReady, nodeVars
  <2>2. PICK new \in [epoch : 1..(MaxRestarts + 1), revision : 1..MaxRevision] :
          new = [epoch |-> Head(down[n]).epoch, revision |-> Head(down[n]).revision]
    <3>1. Head(down[n]).epoch \in 1..(MaxRestarts + 1) /\ Head(down[n]).revision \in 1..MaxRevision
      BY <1>0, <2>1, ReadyFrame
    <3>. QED  BY <3>1
  <2>3. Flush(new) /\ session' = new
    BY <1>8, <2>2 DEF HandleReady
  <2>4. \A c \in CallIds : Pending(c)' => Pending(c) /\ ~(dispatched[c] /\ session # NoSession /\ session.epoch # new.epoch)
    BY <1>0, <2>3, LedgerFlushes
  <2>5. \A c \in CallIds : c \in lost /\ Pending(c)' => session'.epoch = session.epoch
    BY <1>0, <2>3, <2>4 DEF LedgerInv, Known, Decided
  <2>. QED  BY <2>1, <2>5, <1>q
<1>9. ASSUME NEW n \in Conns, ApplyManifest(n) PROVE LostInv'
  <2>1. UNCHANGED vars /\ epoch' = epoch /\ exited' = exited
    BY <1>9 DEF ApplyManifest, nodeVars
  <2>2. session'.epoch = session.epoch
    BY <1>9, <1>0 DEF ApplyManifest, LinkTypes, LinkTypeOK, NoSession
  <2>. QED  BY <2>1, <2>2, <1>q
<1>10. ASSUME NEW n \in Conns, SettleResult(n) PROVE LostInv'
  <2>1. UNCHANGED vars /\ session' = session /\ epoch' = epoch /\ exited' = exited
    BY <1>10 DEF SettleResult, clientVars, nodeVars
  <2>. QED  BY <2>1, <1>q
<1>11. ASSUME NEW n \in Conns, HandleCloseReconnect(n) PROVE LostInv'
  <2>1. UNCHANGED vars /\ session' = session /\ epoch' = epoch /\ exited' = exited
    BY <1>11 DEF HandleCloseReconnect, clientVars, nodeVars
  <2>. QED  BY <2>1, <1>q
<1>12. ASSUME NEW n \in Conns, HandleCloseStop(n) PROVE LostInv'
  <2>1. UNCHANGED vars /\ epoch' = epoch /\ exited' = exited /\ entries' = <<>>
    BY <1>12 DEF HandleCloseStop, FailAll, nodeVars
  <2>2. \A c \in CallIds : ~Pending(c)'
    BY <2>1 DEF Pending
  <2>. QED  BY <2>1, <2>2, <1>q
<1>13. ASSUME NEW n \in Conns, HandleHello(n) PROVE LostInv'
  <2>1. UNCHANGED vars /\ session' = session /\ epoch' = epoch /\ exited' = exited
    BY <1>13 DEF HandleHello, clientVars, nodeVars
  <2>. QED  BY <2>1, <1>q
<1>14. ASSUME NEW n \in Conns, HandleAuthenticate(n) PROVE LostInv'
  <2>1. UNCHANGED vars /\ session' = session /\ epoch' = epoch /\ exited' = exited
    BY <1>14 DEF HandleAuthenticate, clientVars, nodeVars
  <2>. QED  BY <2>1, <1>q
<1>15. ASSUME NEW n \in Conns, ReceiveInvoke(n) PROVE LostInv'
  <2>1. PICK d \in CallIds : Asked(d, n) /\ LostStays(d)
    BY <1>15, <1>0, ForwardLosesNothing
  <2>2. d \notin lost
    BY <1>0, <2>1 DEF LostInv
  <2>3. session' = session /\ epoch' = epoch /\ exited' = exited /\ stopped' = stopped
    BY <1>15 DEF ReceiveInvoke, Submit, Replay, Duplicate, RejectStale, Accept, clientVars, nodeVars
  <2>. QED  BY <1>0, <2>1, <2>2, <2>3, LostKept
<1>16. ASSUME NEW n \in Conns, ReceiveCancel(n) PROVE LostInv'
  <2>1. LostStays(None)
    BY <1>16, <1>0, ForwardLosesNothing
  <2>2. session' = session /\ epoch' = epoch /\ exited' = exited /\ stopped' = stopped
    BY <1>16 DEF ReceiveCancel, Cancel, clientVars, nodeVars
  <2>. QED  BY <1>0, <1>k, <2>1, <2>2, LostKept
<1>17. ASSUME NEW n \in Conns, SocketClosed(n) PROVE LostInv'
  <2>1. UNCHANGED vars /\ session' = session /\ epoch' = epoch /\ exited' = exited
    BY <1>17 DEF SocketClosed, clientVars, nodeVars
  <2>. QED  BY <2>1, <1>q
<1>18. ASSUME NEW n \in Conns, DropSilent(n) PROVE LostInv'
  <2>1. UNCHANGED vars /\ session' = session /\ epoch' = epoch /\ exited' = exited
    BY <1>18 DEF DropSilent, clientVars, nodeVars
  <2>. QED  BY <2>1, <1>q
<1>19. ASSUME NEW n \in Conns, IdleTimeout(n) PROVE LostInv'
  <2>1. UNCHANGED vars /\ session' = session /\ epoch' = epoch /\ exited' = exited
    BY <1>19 DEF IdleTimeout, clientVars, nodeVars
  <2>. QED  BY <2>1, <1>q
<1>20. ASSUME NEW n \in Conns, Cut(n) PROVE LostInv'
  <2>1. UNCHANGED vars /\ session' = session /\ epoch' = epoch /\ exited' = exited
    BY <1>20 DEF Cut, clientVars, nodeVars
  <2>. QED  BY <2>1, <1>q
<1>21. ASSUME NEW r \in Runs, RunnerStep(r) PROVE LostInv'
  <2>1. LostStays(None)
    BY <1>21, <1>0, ForwardLosesNothing
  <2>2. session' = session /\ epoch' = epoch /\ exited' = exited /\ stopped' = stopped
    BY <1>21 DEF RunnerStep, Finish, FinishDetached, clientVars, nodeVars
  <2>. QED  BY <1>0, <1>k, <2>1, <2>2, LostKept
<1>22. ASSUME NEW r \in Runs, DeadlineStep(r) PROVE LostInv'
  <2>1. LostStays(None)
    BY <1>22, <1>0, ForwardLosesNothing
  <2>2. session' = session /\ epoch' = epoch /\ exited' = exited /\ stopped' = stopped
    BY <1>22 DEF DeadlineStep, Deadline, clientVars, nodeVars
  <2>. QED  BY <1>0, <1>k, <2>1, <2>2, LostKept
<1>23. ASSUME ManifestChange PROVE LostInv'
  <2>1. UNCHANGED vars /\ session' = session /\ epoch' = epoch /\ exited' = exited
    BY <1>23 DEF ManifestChange, clientVars, nodeVars
  <2>. QED  BY <2>1, <1>q
<1>24. ASSUME Stop PROVE LostInv'
  BY <1>24, <1>0 DEF Stop, OneProcess
<1>25. ASSUME Start PROVE LostInv'
  BY <1>25, <1>0 DEF Start, OneProcess
<1>26. ASSUME Crash PROVE LostInv'
  <2>1. /\ stopped' = TRUE /\ exited' = TRUE /\ calls' = [c \in CallIds |-> None]
        /\ completed' = <<>> /\ up' = [n \in Conns |-> <<>>]
    BY <1>26 DEF Crash, ProcessExit, CutAll
  <2>2. \A c \in CallIds, n \in Conns : ~Asked(c, n)'
    BY <2>1 DEF Asked, Holds
  <2>3. \A c \in CallIds : calls'[c] = None /\ ~Cached(c)'
    BY <2>1 DEF Cached
  <2>. HIDE DEF Asked, Cached
  <2>. QED  BY <2>1, <2>2, <2>3 DEF LostInv
<1>27. ASSUME NewProcess PROVE LostInv'
  <2>1. /\ stopped' = FALSE /\ exited' = FALSE /\ calls' = calls /\ completed' = <<>> /\ up' = up
        /\ stopped /\ epoch' = epoch + 1 /\ session' = session
    BY <1>27 DEF NewProcess, NewRunner, netVars, clientVars, book
  <2>2. \A c \in CallIds, n \in Conns : ~Asked(c, n)'
    <3>. SUFFICES ASSUME NEW c \in CallIds, NEW n \in Conns PROVE ~Asked(c, n)'
      OBVIOUS
    <3>1. UpFrames(phase[n], Out) = {} /\ up[n] \in Seq(UpFrames(phase[n], Out))
      BY <1>0, <2>1 DEF ConnInv, UpFrames, UpInv
    <3>2. up'[n] = <<>>
      BY <2>1, <3>1, NothingIn
    <3>. QED  BY <3>2, HoldsNone DEF Asked
  <2>3. \A c \in CallIds : calls'[c] = None /\ ~Cached(c)'
    BY <1>0, <2>1 DEF Cached, RunnerInv, BookConsistent
  <2>4. session'.epoch # epoch'
    BY <1>0, <2>1, LinkAssumption DEF LinkTypes, LinkTypeOK, NoSession, LinkAssumption
  <2>. HIDE DEF Asked, Cached
  <2>. QED  BY <2>1, <2>2, <2>3, <2>4 DEF LostInv
<1>28. ASSUME UNCHANGED linkVars PROVE LostInv'
  <2>1. UNCHANGED vars /\ session' = session /\ epoch' = epoch /\ exited' = exited
    BY <1>28 DEF linkVars, clientVars, nodeVars
  <2>. QED  BY <2>1, <1>q
<1>. QED BY <1>1, <1>2, <1>3, <1>4, <1>5, <1>6, <1>7, <1>8, <1>9, <1>10, <1>11, <1>12, <1>13, <1>14, <1>15, <1>16, <1>17, <1>18, <1>19, <1>20, <1>21, <1>22, <1>23, <1>24, <1>25, <1>26, <1>27, <1>28 DEF LinkNext, ClientStep, NodeStep

LEMMA OneRunStep ==
  ASSUME LinkInv, CacheSuffices, LostInv, OneRun, [LinkNext]_linkVars
  PROVE  OneRun'
<1>0. LinkInv /\ CacheSuffices /\ LostInv /\ OneRun /\ RunnerInv'
  BY RunnerKept DEF RunnerPart
<1>k. None \notin lost
  BY RunnerAssumption DEF RunnerAssumption, LinkInv, RunnerInv, RunnerTypeOK
<1>q. UNCHANGED vars => OneRun'
  BY <1>0 DEF OneRun, vars, book
<1>1. ASSUME OpenSocket PROVE OneRun'
  BY <1>1, <1>q DEF OpenSocket
<1>2. ASSUME NEW c \in CallIds, Track(c) PROVE OneRun'
  BY <1>2, <1>q DEF Track
<1>3. ASSUME NEW c \in CallIds, Abort(c) PROVE OneRun'
  BY <1>3, <1>q DEF Abort, Withdraw
<1>4. ASSUME NEW c \in CallIds, Timeout(c) PROVE OneRun'
  BY <1>4, <1>q DEF Timeout, Withdraw
<1>5. ASSUME Dispose PROVE OneRun'
  BY <1>5, <1>q DEF Dispose
<1>6. ASSUME NEW n \in Conns, HandleOpen(n) PROVE OneRun'
  BY <1>6, <1>q DEF HandleOpen
<1>7. ASSUME NEW n \in Conns, HandleChallenge(n) PROVE OneRun'
  BY <1>7, <1>q DEF HandleChallenge
<1>8. ASSUME NEW n \in Conns, HandleReady(n) PROVE OneRun'
  BY <1>8, <1>q DEF HandleReady
<1>9. ASSUME NEW n \in Conns, ApplyManifest(n) PROVE OneRun'
  BY <1>9, <1>q DEF ApplyManifest
<1>10. ASSUME NEW n \in Conns, SettleResult(n) PROVE OneRun'
  BY <1>10, <1>q DEF SettleResult
<1>11. ASSUME NEW n \in Conns, HandleCloseReconnect(n) PROVE OneRun'
  BY <1>11, <1>q DEF HandleCloseReconnect
<1>12. ASSUME NEW n \in Conns, HandleCloseStop(n) PROVE OneRun'
  BY <1>12, <1>q DEF HandleCloseStop
<1>13. ASSUME NEW n \in Conns, HandleHello(n) PROVE OneRun'
  BY <1>13, <1>q DEF HandleHello
<1>14. ASSUME NEW n \in Conns, HandleAuthenticate(n) PROVE OneRun'
  BY <1>14, <1>q DEF HandleAuthenticate
<1>15. ASSUME NEW n \in Conns, ReceiveInvoke(n) PROVE OneRun'
  <2>1. PICK d \in CallIds : Asked(d, n) /\ LostStays(d)
    BY <1>15, <1>0, ForwardLosesNothing
  <2>2. d \notin lost
    BY <1>0, <2>1 DEF LostInv
  <2>. QED  BY <1>0, <2>1, <2>2, OneRunStays
<1>16. ASSUME NEW n \in Conns, ReceiveCancel(n) PROVE OneRun'
  <2>1. LostStays(None)
    BY <1>16, <1>0, ForwardLosesNothing
  <2>. QED  BY <1>0, <1>k, <2>1, OneRunStays
<1>17. ASSUME NEW n \in Conns, SocketClosed(n) PROVE OneRun'
  BY <1>17, <1>q DEF SocketClosed
<1>18. ASSUME NEW n \in Conns, DropSilent(n) PROVE OneRun'
  BY <1>18, <1>q DEF DropSilent
<1>19. ASSUME NEW n \in Conns, IdleTimeout(n) PROVE OneRun'
  BY <1>19, <1>q DEF IdleTimeout
<1>20. ASSUME NEW n \in Conns, Cut(n) PROVE OneRun'
  BY <1>20, <1>q DEF Cut
<1>21. ASSUME NEW r \in Runs, RunnerStep(r) PROVE OneRun'
  <2>1. LostStays(None)
    BY <1>21, <1>0, ForwardLosesNothing
  <2>. QED  BY <1>0, <1>k, <2>1, OneRunStays
<1>22. ASSUME NEW r \in Runs, DeadlineStep(r) PROVE OneRun'
  <2>1. LostStays(None)
    BY <1>22, <1>0, ForwardLosesNothing
  <2>. QED  BY <1>0, <1>k, <2>1, OneRunStays
<1>23. ASSUME ManifestChange PROVE OneRun'
  BY <1>23, <1>q DEF ManifestChange
<1>24. ASSUME Stop PROVE OneRun'
  BY <1>24, <1>0 DEF Stop, AbortAll, OneRun
<1>25. ASSUME Start PROVE OneRun'
  BY <1>25, <1>0 DEF Start, NewRunner, book, OneRun
<1>26. ASSUME Crash PROVE OneRun'
  BY <1>26, <1>0 DEF Crash, ProcessExit, OneRun
<1>27. ASSUME NewProcess PROVE OneRun'
  BY <1>27, <1>0 DEF NewProcess, NewRunner, book, OneRun
<1>28. ASSUME UNCHANGED linkVars PROVE OneRun'
  BY <1>28, <1>q DEF linkVars
<1>. QED BY <1>1, <1>2, <1>3, <1>4, <1>5, <1>6, <1>7, <1>8, <1>9, <1>10, <1>11, <1>12, <1>13, <1>14, <1>15, <1>16, <1>17, <1>18, <1>19, <1>20, <1>21, <1>22, <1>23, <1>24, <1>25, <1>26, <1>27, <1>28 DEF LinkNext, ClientStep, NodeStep

\* A step moves the client's ledger or the node's runner, never both.
LEMMA LedgerOrRunner ==
  ASSUME [LinkNext]_linkVars
  PROVE  UNCHANGED vars \/ UNCHANGED ledger
<1>1. ASSUME OpenSocket PROVE UNCHANGED vars \/ UNCHANGED ledger
  BY <1>1 DEF OpenSocket, ledger
<1>2. ASSUME NEW c \in CallIds, Track(c) PROVE UNCHANGED vars \/ UNCHANGED ledger
  BY <1>2 DEF Track, ledger
<1>3. ASSUME NEW c \in CallIds, Abort(c) PROVE UNCHANGED vars \/ UNCHANGED ledger
  BY <1>3 DEF Abort, Withdraw, ledger
<1>4. ASSUME NEW c \in CallIds, Timeout(c) PROVE UNCHANGED vars \/ UNCHANGED ledger
  BY <1>4 DEF Timeout, Withdraw, ledger
<1>5. ASSUME Dispose PROVE UNCHANGED vars \/ UNCHANGED ledger
  BY <1>5 DEF Dispose, ledger
<1>6. ASSUME NEW n \in Conns, HandleOpen(n) PROVE UNCHANGED vars \/ UNCHANGED ledger
  BY <1>6 DEF HandleOpen, ledger
<1>7. ASSUME NEW n \in Conns, HandleChallenge(n) PROVE UNCHANGED vars \/ UNCHANGED ledger
  BY <1>7 DEF HandleChallenge, ledger
<1>8. ASSUME NEW n \in Conns, HandleReady(n) PROVE UNCHANGED vars \/ UNCHANGED ledger
  BY <1>8 DEF HandleReady, ledger
<1>9. ASSUME NEW n \in Conns, ApplyManifest(n) PROVE UNCHANGED vars \/ UNCHANGED ledger
  BY <1>9 DEF ApplyManifest, ledger
<1>10. ASSUME NEW n \in Conns, SettleResult(n) PROVE UNCHANGED vars \/ UNCHANGED ledger
  BY <1>10 DEF SettleResult, ledger
<1>11. ASSUME NEW n \in Conns, HandleCloseReconnect(n) PROVE UNCHANGED vars \/ UNCHANGED ledger
  BY <1>11 DEF HandleCloseReconnect, ledger
<1>12. ASSUME NEW n \in Conns, HandleCloseStop(n) PROVE UNCHANGED vars \/ UNCHANGED ledger
  BY <1>12 DEF HandleCloseStop, ledger
<1>13. ASSUME NEW n \in Conns, HandleHello(n) PROVE UNCHANGED vars \/ UNCHANGED ledger
  BY <1>13 DEF HandleHello, ledger
<1>14. ASSUME NEW n \in Conns, HandleAuthenticate(n) PROVE UNCHANGED vars \/ UNCHANGED ledger
  BY <1>14 DEF HandleAuthenticate, ledger
<1>15. ASSUME NEW n \in Conns, ReceiveInvoke(n) PROVE UNCHANGED vars \/ UNCHANGED ledger
  BY <1>15 DEF ReceiveInvoke, ledger
<1>16. ASSUME NEW n \in Conns, ReceiveCancel(n) PROVE UNCHANGED vars \/ UNCHANGED ledger
  BY <1>16 DEF ReceiveCancel, ledger
<1>17. ASSUME NEW n \in Conns, SocketClosed(n) PROVE UNCHANGED vars \/ UNCHANGED ledger
  BY <1>17 DEF SocketClosed, ledger
<1>18. ASSUME NEW n \in Conns, DropSilent(n) PROVE UNCHANGED vars \/ UNCHANGED ledger
  BY <1>18 DEF DropSilent, ledger
<1>19. ASSUME NEW n \in Conns, IdleTimeout(n) PROVE UNCHANGED vars \/ UNCHANGED ledger
  BY <1>19 DEF IdleTimeout, ledger
<1>20. ASSUME NEW n \in Conns, Cut(n) PROVE UNCHANGED vars \/ UNCHANGED ledger
  BY <1>20 DEF Cut, ledger
<1>21. ASSUME NEW r \in Runs, RunnerStep(r) PROVE UNCHANGED vars \/ UNCHANGED ledger
  BY <1>21 DEF RunnerStep, ledger
<1>22. ASSUME NEW r \in Runs, DeadlineStep(r) PROVE UNCHANGED vars \/ UNCHANGED ledger
  BY <1>22 DEF DeadlineStep, ledger
<1>23. ASSUME ManifestChange PROVE UNCHANGED vars \/ UNCHANGED ledger
  BY <1>23 DEF ManifestChange, ledger
<1>24. ASSUME Stop PROVE UNCHANGED vars \/ UNCHANGED ledger
  BY <1>24 DEF Stop, ledger
<1>25. ASSUME Start PROVE UNCHANGED vars \/ UNCHANGED ledger
  BY <1>25 DEF Start, ledger
<1>26. ASSUME Crash PROVE UNCHANGED vars \/ UNCHANGED ledger
  BY <1>26 DEF Crash, ledger
<1>27. ASSUME NewProcess PROVE UNCHANGED vars \/ UNCHANGED ledger
  BY <1>27 DEF NewProcess, ledger
<1>28. ASSUME UNCHANGED linkVars PROVE UNCHANGED vars \/ UNCHANGED ledger
  BY <1>28 DEF linkVars
<1>. QED BY <1>1, <1>2, <1>3, <1>4, <1>5, <1>6, <1>7, <1>8, <1>9, <1>10, <1>11, <1>12, <1>13, <1>14, <1>15, <1>16, <1>17, <1>18, <1>19, <1>20, <1>21, <1>22, <1>23, <1>24, <1>25, <1>26, <1>27, <1>28 DEF LinkNext, ClientStep, NodeStep

\* The number of invocations of every call, as RemoteCall counts the work.
WorkIsBegun ==
  \A c \in CallIds : Cardinality({r \in RunsOf(c) : Invoked(r)}) = IF Began(c) THEN 1 ELSE 0

\* What the refinement rests on in every state.
Agreed == LinkInv /\ LostInv /\ OneRun /\ WorkIsBegun

\* How one step moves a call, in terms of its promise and of whether it began.
PromiseMoves(c) ==
  \/ Promise(c)' = Promise(c) /\ (Began(c)' <=> Began(c))
  \/ Promise(c) = "idle" /\ Promise(c)' = "open" /\ (Began(c)' <=> Began(c))
  \/ Promise(c)' = Promise(c) /\ Promise(c) \in {"open", "unknown", "aborted"} /\ ~Began(c) /\ Began(c)'
  \/ Promise(c) = "open" /\ Promise(c)' \in {"success", "denied"} /\ Began(c) /\ Began(c)'
  \/ Promise(c) = "open" /\ Promise(c)' = "unsent" /\ ~Began(c) /\ ~Began(c)'
  \/ Promise(c) = "open" /\ Promise(c)' \in {"failed", "unknown", "aborted"} /\ (Began(c)' <=> Began(c))

\* A step of the client's ledger.
LEMMA LedgerPromise ==
  ASSUME LinkInv, LinkInv', [LinkNext]_linkVars, UNCHANGED vars, NEW c \in CallIds
  PROVE  PromiseMoves(c)
<1>1. LedgerMoves(c)
  BY LedgerMoved
<1>2. Began(c)' <=> Began(c)
  BY DEF Began, Invoked, vars, book, pool
<1>3. /\ outcome[c] \in Answer \cup {None} /\ outcome'[c] \in Answer \cup {None} /\ None \notin Answer
  BY LinkAssumption DEF LinkInv, LinkTypes, LinkTypeOK, LinkAssumption
<1>4. outcome'[c] = "unsent" => ~Began(c)'
  <2>1. Began(c)' => Known(c)'
    BY DEF Began, Known
  <2>2. Known(c)' => dispatched'[c]
    BY DEF LinkInv, LedgerInv
  <2>. QED  BY <1>1, <2>1, <2>2 DEF LedgerMoves
<1>5. Pending(c) => outcome[c] = None
  BY DEF LinkInv, LedgerInv
<1>. HIDE DEF Began, Pending, Decided
<1>6. CASE outcome[c] # None
  <2>1. outcome'[c] = outcome[c]
    BY <1>1, <1>6 DEF LedgerMoves
  <2>. QED  BY <1>2, <1>6, <2>1 DEF PromiseMoves, Promise
<1>7. CASE outcome[c] = None /\ ~Pending(c)
  <2>1. outcome'[c] = None
    BY <1>1, <1>7 DEF LedgerMoves
  <2>. QED  BY <1>2, <1>7, <2>1 DEF PromiseMoves, Promise
<1>8. CASE outcome[c] = None /\ Pending(c) /\ outcome'[c] = None
  <2>1. Pending(c)'
    BY <1>1, <1>8 DEF LedgerMoves
  <2>. QED  BY <1>2, <1>8, <2>1 DEF PromiseMoves, Promise
<1>9. CASE outcome[c] = None /\ Pending(c) /\ outcome'[c] # None
  <2>1. outcome'[c] \in {"success", "denied"} => Began(c)
    BY <1>1, <1>9 DEF LedgerMoves
  <2>2. Promise(c) = "open" /\ Promise(c)' = outcome'[c]
    BY <1>9 DEF Promise
  <2>. QED  BY <1>2, <1>3, <1>4, <1>9, <2>1, <2>2 DEF PromiseMoves, Answer
<1>. QED  BY <1>5, <1>6, <1>7, <1>8, <1>9

\* A step of the node's runner: what starts a call was asked for and has not been told
\* otherwise, because an outcome the client was told of is in the cache or lost for good.
LEMMA RunnerPromise ==
  ASSUME LinkInv, LinkInv', LostInv', [LinkNext]_linkVars, UNCHANGED ledger, NEW c \in CallIds
  PROVE  PromiseMoves(c)
<1>1. outcome' = outcome /\ entries' = entries /\ dispatched' = dispatched
  BY DEF ledger
<1>2. Promise(c)' = Promise(c)
  BY <1>1 DEF Promise, Pending
<1>3. /\ Began(c) => Began(c)'
      /\ Began(c)' => Began(c) \/ calls'[c] # None
      /\ Decided(c) => Decided(c)'
  BY RunnerKept DEF RunnerPart
<1>4. outcome[c] \in Answer \cup {None}
  BY DEF LinkInv, LinkTypes, LinkTypeOK
<1>5. ASSUME ~Began(c), Began(c)' PROVE Promise(c) \in {"open", "unknown", "aborted"}
  <2>1. calls'[c] # None
    BY <1>3, <1>5
  <2>2. dispatched'[c]
    <3>1. Known(c)'
      BY <1>5 DEF Began, Known
    <3>. QED  BY <3>1 DEF LinkInv, LedgerInv
  <2>3. Pending(c)' \/ outcome'[c] # None
    BY <2>2 DEF LinkInv, LedgerInv
  <2>4. outcome[c] \notin {"success", "denied"}
    BY <1>5 DEF LinkInv, LedgerInv
  <2>5. outcome[c] # "failed"
    <3>1. ~Cached(c)'
      BY <2>1 DEF LinkInv, RunnerInv, MemoryConsistent
    <3>2. c \notin lost'
      BY <2>1 DEF LostInv
    <3>3. ~Decided(c)
      BY <1>3, <3>1, <3>2 DEF Decided
    <3>. QED  BY <3>3 DEF LinkInv, LedgerInv
  <2>6. outcome[c] # "unsent"
    BY <1>1, <2>2 DEF LinkInv, LedgerInv
  <2>7. Pending(c)' <=> Pending(c)
    BY <1>1 DEF Pending
  <2>. HIDE DEF Pending
  <2>. QED  BY <1>1, <1>4, <2>3, <2>4, <2>5, <2>6, <2>7 DEF Promise, Answer
<1>. HIDE DEF Began
<1>. QED  BY <1>2, <1>3, <1>5 DEF PromiseMoves

LEMMA ContractStep ==
  ASSUME Agreed, Agreed', [LinkNext]_linkVars
  PROVE  Contract!CallNext
<1>1. \A c \in CallIds : PromiseMoves(c)
  BY LedgerOrRunner, LedgerPromise, RunnerPromise DEF Agreed
<1>2. \A c \in CallIds : /\ Promise(c) \in {"idle", "open"} \cup Answer
                         /\ Promise(c)' \in {"idle", "open"} \cup Answer
  <2>1. \A c \in CallIds : outcome[c] \in Answer \cup {None} /\ outcome'[c] \in Answer \cup {None}
    BY DEF Agreed, LinkInv, LinkTypes, LinkTypeOK
  <2>. HIDE DEF Pending
  <2>. QED  BY <2>1 DEF Promise
<1>. DEFINE W == [c \in CallIds |-> Cardinality({r \in RunsOf(c) : Invoked(r)})]
            P == [c \in CallIds |-> Promise(c)]
<1>3. \A c \in CallIds : /\ P[c] = Promise(c) /\ P'[c] = Promise(c)'
                         /\ W[c] = (IF Began(c) THEN 1 ELSE 0)
                         /\ W'[c] = (IF Began(c)' THEN 1 ELSE 0)
  BY DEF Agreed, WorkIsBegun
<1>4. P' = [c \in CallIds |-> P'[c]] /\ W' = [c \in CallIds |-> W'[c]]
  OBVIOUS
<1>. HIDE DEF P, W, Promise, Began
<1>5. P' \in [CallIds -> {"idle", "open"} \cup Contract!Settlement] /\ W' \in [CallIds -> 0..1]
  BY <1>2, <1>3, <1>4 DEF Contract!Settlement, Answer
<1>6. ASSUME NEW c \in CallIds PROVE Contract!CallStep(c) \/ (P'[c] = P[c] /\ W'[c] = W[c])
  <2>1. PromiseMoves(c)
    BY <1>1
  <2>. QED
    BY <1>3, <2>1 DEF PromiseMoves, P, W, Contract!CallStep, Contract!Ask, Contract!Start, Contract!Answered,
       Contract!Failed, Contract!NotSent, Contract!GivenUp, Contract!Settles
<1>. QED  BY <1>5, <1>6 DEF Contract!CallNext, P, W

\* The link keeps what a caller may rely on: a call runs at most once, only when it was asked
\* for, never after the caller has been told that it failed or was not sent, and a success or a
\* denial is the answer of the one run; whatever connections, frames and node processes are lost.
\* It takes a cache with room for every callId and a server that is not started a second time.
THEOREM LinkImplementsRemoteCall ==
  ASSUME CacheSuffices, OneProcess
  PROVE  LinkSpec => ImplementsRemoteCall
<1>1. LinkInit => LostInv /\ OneRun
  <2>. SUFFICES ASSUME LinkInit PROVE LostInv /\ OneRun
    OBVIOUS
  <2>. QED  BY DEF LinkInit, RunnerInit, LostInv, OneRun
<1>2. LinkInv /\ LostInv /\ [LinkNext]_linkVars => LostInv'
  BY LostStep
<1>3. LinkInv /\ LostInv /\ OneRun /\ [LinkNext]_linkVars => OneRun'
  BY OneRunStep
<1>4. OneRun => WorkIsBegun
  BY WorkOf DEF WorkIsBegun
<1>5. LinkInit => Contract!CallInit
  <2>. SUFFICES ASSUME LinkInit PROVE Contract!CallInit
    OBVIOUS
  <2>1. \A c \in CallIds : Promise(c) = "idle"
    BY DEF LinkInit, Promise, Pending
  <2>2. OneRun /\ \A c \in CallIds : ~Began(c)
    BY RunnerAssumption DEF LinkInit, RunnerInit, OneRun, Began, RunnerAssumption
  <2>3. \A c \in CallIds : Cardinality({r \in RunsOf(c) : Invoked(r)}) = 0
    BY <2>2, WorkOf
  <2>. QED  BY <2>1, <2>3 DEF Contract!CallInit
<1>6. Agreed /\ Agreed' /\ [LinkNext]_linkVars => Contract!CallNext
  BY ContractStep
<1>7. LinkSpec => []Agreed
  BY <1>1, <1>2, <1>3, <1>4, LinkInvariant, PTL DEF LinkSpec, Agreed
<1>. QED  BY <1>5, <1>6, <1>7, PTL DEF LinkSpec, ImplementsRemoteCall, Contract!CallSpec

=============================================================================
