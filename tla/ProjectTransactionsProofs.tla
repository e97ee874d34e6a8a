---------------------- MODULE ProjectTransactionsProofs ----------------------
(***************************************************************************)
(* Theorems about ProjectTransactions for any transactions, files and      *)
(* faults: what an unfinished operation has written can be put back from   *)
(* the state file, edits from outside are kept, and a rollback restores    *)
(* what was there, but for the transactions whose record or byte plan was  *)
(* lost in the ways the histories name.                                    *)
(***************************************************************************)
EXTENDS ProjectTransactions, SubsequencesProofs

-----------------------------------------------------------------------------
(* The inductive invariant. *)

\* A content for some files, and for every file that t changes.
Partial == [Files -> Contents \cup {None}]
Whole(t) == {p \in Partial : \A f \in Changes[t] : p[f] \in Contents}

PlanMap == [Txs -> Partial \cup {None}]
TxRecord == [status : Statuses \cup {"new"}, old : Partial]
Mem == [repo : Seq(Txs), terminal : Seq(Txs), tx : [Txs -> TxRecord],
        plan : PlanMap, pending : [Txs -> RecordTypes \cup {None}]]
Disk == [repo : Seq(Txs), tx : [Txs -> TxRecord], plan : PlanMap, pending : [Txs -> RecordTypes \cup {None}]]

Restoring == {"restoring", "rewriting"}
Past == {"reading", "writing"} \cup Restoring
Labels == {"idle", "preparing", "validating", "locking", "finishing"} \cup Past
Snapshot == [repo : Seq(Txs), terminal : Seq(Txs), plan : PlanMap]
Captured == [tx : TxRecord, plan : PlanMap]
Cmd == [at : Labels, kind : {"none", "validate", "apply", "rollback"}, from : Statuses \cup {"none", "new"},
        read : Partial, own : Partial, todo : SUBSET Files, seen : Partial,
        saved : {None} \cup Snapshot \cup Captured]

Types ==
  /\ files \in [Files -> Contents]
  /\ mem \in Mem /\ disk \in Disk
  /\ cmd \in [Txs -> Cmd]
  /\ undo \in [Txs -> Partial]
  /\ life \in {"up", "recovering", "down"}
  /\ exposed \subseteq Txs /\ replanned \subseteq Txs

\* The commands that a record of the kind may be of.
Fits(kind, status) == \/ kind = "apply" /\ status \in Allowed.apply
                      \/ kind = "rollback" /\ status = "applied"

PlanFor(u, p) == p = None \/ p \in Whole(u)

\* A transaction in memory or on disk, with its plan p and its record r: what recovery and
\* rollback will read is complete; an applied one that is known has the plan with which it
\* was applied, unless that was replaced.
SoundAt(u, x, p, r, known, free) ==
  /\ PlanFor(u, p)
  /\ x.status = "applied" => x.old \in Whole(u)
  /\ r # None => r.from = x.status /\ Fits(r.kind, r.from) /\ r.read \in Whole(u)
  /\ free \/ p = None \/ p = x.old
  /\ free \/ (known /\ x.status = "applied" => p # None)

\* The file about to be replaced is one of those that are left, and what was compared last is
\* what the command has read, or the content it put there itself.
InHand(u, c) ==
  \A f \in Files : c.seen[f] # None =>
    /\ f \in c.todo
    /\ \/ c.at = "writing" /\ (u \in replanned \/ c.seen[f] = c.read[f])
       \/ c.at = "rewriting" /\ c.seen[f] = c.own[f]

\* What a command relies on at each of its awaits; c are its locals, the rest is the
\* state of its transaction.  In memory are, while it writes, the record with what it has read, and
\* the plan by which every write is compared.
Stage(u, c, x, p, r) ==
  /\ c.todo \subseteq Changes[u]
  /\ InHand(u, c)
  /\ c.at = "preparing" =>
       /\ c.saved \in Snapshot /\ \A v \in Txs : PlanFor(v, c.saved.plan[v])
       /\ ToSet(c.saved.terminal) \subseteq ToSet(c.saved.repo)
  /\ c.at = "validating" => c.kind = "validate" \/ Fits(c.kind, x.status)
  /\ c.at \in {"locking"} \cup Past => Fits(c.kind, x.status)
  /\ c.at \in Past => c.from = x.status /\ c.read \in Whole(u)
  /\ c.at = "reading" =>
       /\ c.saved \in Captured /\ c.saved.tx = x
       /\ \A v \in Txs : PlanFor(v, c.saved.plan[v])
       /\ u \in replanned \/ c.saved.plan[u] \in {None, x.old}
       /\ c.kind = "rollback" => \A f \in Changes[u] : c.read[f] = u
  /\ c.at = "writing" =>
       /\ r # None /\ r.read = c.read
       /\ c.kind = "apply" => x.old = c.read
       /\ u \in replanned \/
            /\ p # None
            /\ c.kind = "rollback" =>
                 /\ \A f \in Changes[u] : c.read[f] = u
                 /\ \A f \in Changes[u] \ c.todo : files[f] \in {x.old[f], External}
  /\ c.at \in Restoring => u \in exposed \cup replanned \/ (r # None /\ r.read = c.read)
  /\ life = "down" => c.at = "idle"
  /\ life = "recovering" => c.at \in {"idle"} \cup Restoring

\* What is unsettled is in the record, and the record in memory is the one on disk.
Recorded(u) ==
  /\ u \in exposed \cup replanned \/
       \A f \in Files : undo[u][f] # None => mem.pending[u] # None /\ mem.pending[u].read[f] = undo[u][f]
  /\ mem.pending[u] # None => disk.pending[u] = mem.pending[u]

Local(u) ==
  /\ SoundAt(u, mem.tx[u], mem.plan[u], mem.pending[u], u \in Known(mem), u \in replanned)
  /\ SoundAt(u, disk.tx[u], disk.plan[u], disk.pending[u], u \in Known(disk), u \in replanned)
  /\ Stage(u, cmd[u], mem.tx[u], mem.plan[u], mem.pending[u])
  /\ Recorded(u)

Apart == \A t, u \in Txs : t # u /\ Locked(t) /\ Locked(u) => Changes[t] \cap Changes[u] = {}

TxInv ==
  /\ Types
  /\ \A u \in Txs : Local(u)
  /\ ToSet(mem.terminal) \subseteq Known(mem)
  /\ Storable(disk)
  /\ Apart

-----------------------------------------------------------------------------
(* The operators on memory. *)

\* n is m without some transactions and their plans.
Lighter(m, n) ==
  /\ n \in Mem /\ n.tx = m.tx /\ n.pending = m.pending
  /\ Known(n) \subseteq Known(m)
  /\ ToSet(m.terminal) \subseteq Known(m) => ToSet(n.terminal) \subseteq Known(n)
  /\ \A u \in Txs : n.plan[u] = m.plan[u] \/ (n.plan[u] = None /\ u \in Known(m) /\ u \notin Known(n))

\* None of those was being written or has to be recovered.
Spares(m, n) == \A u \in Known(m) \ Known(n) : m.pending[u] = None

LEMMA Absent == None \notin Partial /\ None \notin RecordTypes /\ Nothing \in Partial
BY AbsenceAssumption DEF Partial, Nothing

LEMMA WithoutElements ==
  ASSUME NEW q \in Seq(Txs), NEW S
  PROVE  Without(q, S) \in Seq(Txs) /\ ToSet(Without(q, S)) = ToSet(q) \ S
<1> DEFINE k == Without(q, S)
<1>1. /\ k \in Seq(Txs)
      /\ \A x \in Txs : (\E i \in DOMAIN k : k[i] = x) <=> x \in Txs \ S /\ \E i \in DOMAIN q : q[i] = x
  BY KeptElements DEF Without
<1> HIDE DEF k
<1>2. ToSet(k) \subseteq Txs /\ ToSet(q) \subseteq Txs
  BY <1>1, ElementOfSeq DEF ToSet
<1>3. \A x \in Txs : x \in ToSet(k) <=> x \in ToSet(q) \ S
  BY <1>1 DEF ToSet
<1>4. ToSet(k) = ToSet(q) \ S
  BY <1>2, <1>3
<1> QED BY <1>1, <1>4 DEF k

LEMMA EvictFields ==
  ASSUME NEW m \in Mem, NEW S, S \subseteq Known(m), NEW n, n = Evict(m, S)
  PROVE  Lighter(m, n) /\ Known(n) = Known(m) \ S
<1>1. /\ m.repo \in Seq(Txs) /\ m.terminal \in Seq(Txs) /\ m.plan \in PlanMap
  BY DEF Mem
<1> DEFINE a == Without(m.repo, S)
           b == Without(m.terminal, S)
           p == [t \in Txs |-> IF t \in S THEN None ELSE m.plan[t]]
<1>2. a \in Seq(Txs) /\ ToSet(a) = ToSet(m.repo) \ S /\ b \in Seq(Txs) /\ ToSet(b) = ToSet(m.terminal) \ S
  BY <1>1, WithoutElements
<1>3. p \in PlanMap
  BY <1>1 DEF PlanMap
<1>4. n = [m EXCEPT !.repo = a, !.terminal = b, !.plan = p]
  BY DEF Evict
<1>5. \A u \in Txs : p[u] = IF u \in S THEN None ELSE m.plan[u]
  OBVIOUS
<1> HIDE DEF a, b, p
<1>6. n \in Mem /\ n.tx = m.tx /\ n.pending = m.pending /\ n.repo = a /\ n.terminal = b /\ n.plan = p
  BY <1>2, <1>3, <1>4 DEF Mem
<1>7. Known(n) = Known(m) \ S
  BY <1>2, <1>6 DEF Known
<1>8. ToSet(m.terminal) \subseteq Known(m) => ToSet(n.terminal) \subseteq Known(n)
  BY <1>2, <1>6, <1>7
<1>9. \A u \in Txs : n.plan[u] = m.plan[u] \/ (n.plan[u] = None /\ u \in Known(m) /\ u \notin Known(n))
  BY <1>5, <1>6, <1>7
<1> QED BY <1>6, <1>7, <1>8, <1>9 DEF Lighter

\* The first elements of a list are elements of it.
LEMMA FirstElements ==
  ASSUME NEW q \in Seq(Txs), NEW k \in Int
  PROVE  ToSet(SubSeq(q, 1, k)) \subseteq ToSet(q) \/ k > Len(q)
<1> SUFFICES ASSUME k <= Len(q) PROVE ToSet(SubSeq(q, 1, k)) \subseteq ToSet(q)
  BY LenProperties
<1> DEFINE s == SubSeq(q, 1, k)
<1>0. Len(q) \in Nat /\ DOMAIN q = 1..Len(q) /\ \A i \in 1..Len(q) : q[i] \in Txs
  BY LenProperties, ElementOfSeq
<1>1. 1 \in Int /\ \A i \in 1..k : q[i] \in Txs
  BY <1>0
<1>2. /\ s \in Seq(Txs)
      /\ Len(s) = IF 1 <= k THEN k - 1 + 1 ELSE 0
      /\ \A i \in 1..(k - 1 + 1) : s[i] = q[1 + i - 1]
  BY <1>1, SubSeqProperties
<1> HIDE DEF s
<1>3. DOMAIN s = 1..Len(s)
  BY <1>2, LenProperties
<1>4. ASSUME NEW i \in DOMAIN s PROVE s[i] \in ToSet(q)
  <2>1. i \in 1..k /\ s[i] = q[i] /\ i \in DOMAIN q
    BY <1>0, <1>2, <1>3
  <2> QED BY <2>1 DEF ToSet
<1>5. ToSet(s) \subseteq ToSet(q)
  BY <1>4 DEF ToSet
<1> QED BY <1>5 DEF s

LEMMA CappedFields ==
  ASSUME NEW m \in Mem, NEW n, n = Capped(m)
  PROVE  Lighter(m, n) /\ Spares(m, n)
<1> DEFINE open == {t \in Txs : m.pending[t] = None /\ m.tx[t].status \in Terminal}
           e == Evictable(m)
           over == Len(m.repo) - HistoryBytes
           k == SmallerOf(over, Len(e))
           S == ToSet(SubSeq(e, 1, k))
<1>1. m.repo \in Seq(Txs) /\ Len(m.repo) \in Nat /\ HistoryBytes \in Nat
  BY TransactionAssumption, LenProperties DEF Mem, TransactionAssumption
<1>2. /\ e \in Seq(Txs)
      /\ \A x \in Txs : (\E i \in DOMAIN e : e[i] = x) <=> x \in open /\ \E i \in DOMAIN m.repo : m.repo[i] = x
  BY <1>1, KeptElements DEF Evictable
<1>3. n = Evict(m, S)
  BY DEF Capped
<1> HIDE DEF e
<1>4. \A x \in ToSet(e) : x \in Txs /\ x \in open /\ x \in Known(m)
  BY <1>2, ElementOfSeq DEF ToSet, Known
<1>5. k \in Int /\ k <= Len(e)
  BY <1>1, <1>2, LenProperties DEF SmallerOf
<1> HIDE DEF k
<1>6. S \subseteq ToSet(e)
  BY <1>2, <1>5, FirstElements, LenProperties
<1>7. S \subseteq Known(m) /\ \A x \in S : m.pending[x] = None
  BY <1>4, <1>6
<1> HIDE DEF S
<1>8. Lighter(m, n) /\ Known(n) = Known(m) \ S
  BY <1>3, <1>7, EvictFields
<1> QED BY <1>7, <1>8 DEF Spares

LEMMA RetainFields ==
  ASSUME NEW m \in Mem, NEW t \in Txs, ToSet(m.terminal) \subseteq Known(m), NEW n, n = RetainTerminal(m, t)
  PROVE  Lighter(m, n)
<1> DEFINE order == Append(Without(m.terminal, {t}), t)
           over == IF Len(order) > MaxTerminal THEN Len(order) - MaxTerminal ELSE 0
           gone == ToSet(SubSeq(order, 1, over)) \ {t}
           x == [m EXCEPT !.terminal = order]
<1>0. m.terminal \in Seq(Txs) /\ m.repo \in Seq(Txs)
  BY DEF Mem
<1>1. CASE t \notin Known(m)
  <2>1. n = m
    BY <1>1 DEF RetainTerminal
  <2> QED BY <2>1 DEF Lighter
<1>2. CASE t \in Known(m)
  <2>1. n = Evict(x, gone)
    BY <1>2 DEF RetainTerminal
  <2>2. /\ Without(m.terminal, {t}) \in Seq(Txs)
        /\ ToSet(Without(m.terminal, {t})) = ToSet(m.terminal) \ {t}
    BY <1>0, WithoutElements
  <2>3. order \in Seq(Txs) /\ ToSet(order) \subseteq ToSet(m.terminal) \cup {t}
    <3> DEFINE w == Without(m.terminal, {t})
    <3>1. w \in Seq(Txs) /\ ToSet(w) = ToSet(m.terminal) \ {t}
      BY <2>2
    <3> HIDE DEF w
    <3>2. /\ Append(w, t) \in Seq(Txs) /\ Len(Append(w, t)) = Len(w) + 1
          /\ \A i \in 1..Len(w) : Append(w, t)[i] = w[i]
          /\ Append(w, t)[Len(w) + 1] = t
      BY <3>1, AppendProperties
    <3>3. Len(w) \in Nat /\ DOMAIN w = 1..Len(w) /\ DOMAIN Append(w, t) = 1..(Len(w) + 1)
      BY <3>1, <3>2, LenProperties
    <3>4. ASSUME NEW i \in 1..(Len(w) + 1) PROVE Append(w, t)[i] \in ToSet(w) \cup {t}
      BY <3>2, <3>3 DEF ToSet
    <3>5. ToSet(Append(w, t)) \subseteq ToSet(w) \cup {t}
      BY <3>3, <3>4 DEF ToSet
    <3> QED BY <3>1, <3>2, <3>5 DEF w
  <2> HIDE DEF order
  <2>4. Len(order) \in Nat /\ MaxTerminal \in Nat \ {0}
    BY <2>3, LenProperties, TransactionAssumption DEF TransactionAssumption
  <2>5. over \in Int /\ over <= Len(order)
    BY <2>4
  <2> HIDE DEF over
  <2>6. gone \subseteq ToSet(order)
    BY <2>3, <2>4, <2>5, FirstElements
  <2> HIDE DEF gone
  <2>7. /\ x \in Mem /\ x.tx = m.tx /\ x.pending = m.pending /\ x.repo = m.repo /\ x.plan = m.plan
        /\ x.terminal = order
    BY <2>3 DEF Mem
  <2> HIDE DEF x
  <2>8. gone \subseteq Known(x) /\ Known(x) = Known(m) /\ ToSet(x.terminal) \subseteq Known(x)
    BY <1>2, <2>3, <2>6, <2>7 DEF Known
  <2>9. Lighter(x, n) /\ Known(n) = Known(x) \ gone
    BY <2>1, <2>7, <2>8, EvictFields
  <2> QED BY <2>7, <2>8, <2>9 DEF Lighter
<1> QED BY <1>1, <1>2

LEMMA LighterTwice ==
  ASSUME NEW m, NEW n, NEW k, Lighter(m, n), Lighter(n, k)
  PROVE  Lighter(m, k)
BY DEF Lighter

-----------------------------------------------------------------------------
(* The steps, as each transaction sees them. *)

Fields(x) == [repo |-> x.repo, tx |-> x.tx, plan |-> x.plan, pending |-> x.pending]

\* What a step may do to the memory of a transaction it is not about.
Spared(u) ==
  /\ mem'.tx[u] = mem.tx[u] /\ mem'.pending[u] = mem.pending[u]
  /\ PlanFor(u, mem'.plan[u])
  /\ u \in replanned' \/ (u \in Known(mem') => u \in Known(mem) /\ mem'.plan[u] = mem.plan[u])
  /\ u \in replanned' \/ mem'.plan[u] = mem.plan[u] \/ (mem'.plan[u] = None /\ mem.pending[u] = None)

\* What a store does.
Saves == disk' = disk \/ (disk' = Stored(mem') /\ Storable(mem'))

Forgets == replanned \subseteq replanned' /\ exposed \subseteq exposed'

\* A transaction on disk keeps what it is sound for.
LEMMA DiskKept ==
  ASSUME TxInv, Saves, Forgets, NEW u \in Txs,
         SoundAt(u, mem'.tx[u], mem'.plan[u], mem'.pending[u], u \in Known(mem'), u \in replanned')
  PROVE  SoundAt(u, disk'.tx[u], disk'.plan[u], disk'.pending[u], u \in Known(disk'), u \in replanned')
<1>1. CASE disk' = disk
  <2>1. SoundAt(u, disk.tx[u], disk.plan[u], disk.pending[u], u \in Known(disk), u \in replanned)
    BY DEF TxInv, Local
  <2> QED BY <1>1, <2>1 DEF SoundAt, Forgets
<1>2. CASE disk' = Stored(mem')
  <2>1. disk'.tx = mem'.tx /\ disk'.plan = mem'.plan /\ disk'.pending = mem'.pending /\ disk'.repo = mem'.repo
    BY <1>2 DEF Stored
  <2>2. Known(disk') = Known(mem')
    BY <2>1 DEF Known
  <2> QED BY <2>1, <2>2
<1> QED BY <1>1, <1>2 DEF Saves

\* Its command goes on as it was, or is over.
Continues(u) == cmd'[u] = Idle \/ (cmd'[u] = cmd[u] /\ life' = life)

\* A step is not about u.
Elsewhere(u) ==
  /\ Spared(u) /\ Continues(u) /\ undo'[u] = undo[u]
  /\ cmd'[u].at = "writing" => \A f \in Changes[u] : files'[f] \in {files[f], External}

LEMMA IdleIsFine ==
  ASSUME NEW u \in Txs, cmd'[u] = Idle
  PROVE  Stage(u, cmd[u], mem.tx[u], mem.plan[u], mem.pending[u])'
BY DEF Idle, Stage, InHand, Nothing, Past, Restoring

LEMMA IdleIsCommand == Idle \in Cmd
BY Absent DEF Idle, Cmd, Labels

LEMMA RecordKept ==
  ASSUME TxInv, Saves, Forgets, NEW u \in Txs, undo'[u] = undo[u], mem'.pending[u] = mem.pending[u]
  PROVE  Recorded(u)'
<1>1. Recorded(u)
  BY DEF TxInv, Local
<1>2. u \in exposed' \cup replanned' \/
        \A f \in Files : undo'[u][f] # None => mem'.pending[u] # None /\ mem'.pending[u].read[f] = undo'[u][f]
  BY <1>1 DEF Recorded, Forgets
<1>3. mem'.pending[u] # None => disk'.pending[u] = mem'.pending[u]
  BY <1>1 DEF Recorded, Saves, Stored
<1> QED BY <1>2, <1>3 DEF Recorded

LEMMA OtherKept ==
  ASSUME TxInv, Saves, Forgets, NEW u \in Txs, Elsewhere(u)
  PROVE  Local(u)'
<1>0. Local(u)
  BY DEF TxInv
<1>1. SoundAt(u, mem'.tx[u], mem'.plan[u], mem'.pending[u], u \in Known(mem'), u \in replanned')
  BY <1>0 DEF Local, SoundAt, Elsewhere, Spared, Forgets
<1>2. SoundAt(u, disk'.tx[u], disk'.plan[u], disk'.pending[u], u \in Known(disk'), u \in replanned')
  BY <1>1, DiskKept
<1>3. Stage(u, cmd[u], mem.tx[u], mem.plan[u], mem.pending[u])'
  <2>1. CASE cmd'[u] = Idle
    BY <2>1, IdleIsFine
  <2>2. CASE cmd'[u] = cmd[u] /\ life' = life
    <3>1. Stage(u, cmd[u], mem.tx[u], mem.plan[u], mem.pending[u])
      BY <1>0 DEF Local
    <3> QED BY <2>2, <3>1 DEF Stage, InHand, Elsewhere, Spared, Forgets
  <2> QED BY <2>1, <2>2 DEF Elsewhere, Continues
<1>4. Recorded(u)'
  BY RecordKept DEF Elsewhere, Spared
<1> QED BY <1>1, <1>2, <1>3, <1>4 DEF Local

\* A memory that differs from this one at most in one transaction.
Edited(x, t) ==
  /\ x \in Mem
  /\ \A u \in Txs \ {t} : /\ x.tx[u] = mem.tx[u] /\ x.plan[u] = mem.plan[u] /\ x.pending[u] = mem.pending[u]
                          /\ u \in Known(x) => u \in Known(mem)

\* Capping and storing an edited memory spares the others.
LEMMA CappedSpares ==
  ASSUME TxInv, NEW t \in Txs, NEW x, Edited(x, t), Lighter(x, mem'), Spares(x, mem') \/ Storable(mem'),
         NEW u \in Txs \ {t}
  PROVE  Spared(u)
<1>0. PlanFor(u, mem.plan[u])
  BY DEF TxInv, Local, SoundAt
<1>1. mem'.tx[u] = mem.tx[u] /\ mem'.pending[u] = mem.pending[u]
  BY DEF Edited, Lighter
<1>2. mem'.plan[u] = mem.plan[u] \/ (mem'.plan[u] = None /\ u \in Known(x) /\ u \notin Known(mem'))
  BY DEF Edited, Lighter
<1>3. u \in Known(mem') => u \in Known(mem)
  BY DEF Edited, Lighter
<1>4. mem'.plan[u] = mem.plan[u] \/ (mem'.plan[u] = None /\ mem.pending[u] = None)
  BY <1>1, <1>2 DEF Spares, Storable, Edited
<1> QED BY <1>0, <1>1, <1>2, <1>3, <1>4 DEF Spared, PlanFor

LEMMA StepFields ==
  ASSUME cmd \in [Txs -> Cmd], NEW t \in Txs, NEW new \in Cmd, Step(t, new)
  PROVE  cmd' \in [Txs -> Cmd] /\ cmd'[t] = new /\ \A u \in Txs \ {t} : cmd'[u] = cmd[u]
BY DEF Step

\* A step about the transactions T keeps the invariant when it does so for these, and
\* no command goes behind its lock whose files another one has locked.
LEMMA StepKeeps ==
  ASSUME TxInv, Types', Saves, Forgets, NEW T \in SUBSET Txs,
         \A u \in Txs \ T : Elsewhere(u),
         \A u \in T : Local(u)',
         Apart' \/ \A u \in T : Locked(u)' => Locked(u),
         ToSet(mem'.terminal) \subseteq Known(mem')
  PROVE  TxInv'
<1>1. \A u \in Txs : Local(u)'
  BY OtherKept
<1>2. Storable(disk)'
  <2>1. CASE disk' = disk
    BY <2>1 DEF TxInv, Storable, Known
  <2>2. CASE disk' = Stored(mem') /\ Storable(mem')
    <3>1. disk'.tx = mem'.tx /\ disk'.pending = mem'.pending /\ disk'.repo = mem'.repo
      BY <2>2 DEF Stored
    <3> QED BY <2>2, <3>1 DEF Storable, Known
  <2> QED BY <2>1, <2>2 DEF Saves
<1>3. ASSUME NEW u \in Txs, Locked(u)', \A q \in T : Locked(q)' => Locked(q) PROVE Locked(u)
  <2>1. CASE u \in T
    BY <1>3, <2>1
  <2>2. CASE u \notin T
    <3>1. Continues(u)
      BY <2>2 DEF Elsewhere
    <3> QED BY <1>3, <3>1 DEF Continues, Locked, Idle
  <2> QED BY <2>1, <2>2
<1>4. Apart'
  BY <1>3 DEF TxInv, Apart
<1>5. ToSet(mem.terminal)' \subseteq Known(mem)'
  BY DEF Known
<1> QED BY <1>1, <1>2, <1>4, <1>5 DEF TxInv

\* A step that leaves the memory alone spares everybody.
LEMMA SameMemory ==
  ASSUME TxInv, mem' = mem, NEW u \in Txs
  PROVE  Spared(u)
BY DEF Spared, TxInv, Local, SoundAt

-----------------------------------------------------------------------------
(* Steps that move commands only. *)

Still == /\ mem' = mem /\ disk' = disk /\ files' = files
         /\ undo' = undo /\ exposed' = exposed /\ replanned' = replanned

LEMMA StillIsFine ==
  ASSUME TxInv, Still
  PROVE  Saves /\ Forgets /\ ToSet(mem'.terminal) \subseteq Known(mem') /\ \A u \in Txs : Spared(u)
BY SameMemory DEF Still, Saves, Forgets, TxInv

\* One command goes on.
LEMMA CommandStep ==
  ASSUME TxInv, Still, life' = life, NEW t \in Txs, NEW new \in Cmd, Step(t, new),
         Stage(t, new, mem.tx[t], mem.plan[t], mem.pending[t]), Apart' \/ (Locked(t)' => Locked(t))
  PROVE  TxInv'
<1>1. cmd' \in [Txs -> Cmd] /\ cmd'[t] = new /\ \A u \in Txs \ {t} : cmd'[u] = cmd[u]
  BY StepFields DEF TxInv, Types
<1>2. Types'
  BY <1>1 DEF TxInv, Types, Still
<1>3. Saves /\ Forgets /\ ToSet(mem'.terminal) \subseteq Known(mem') /\ \A u \in Txs : Spared(u)
  BY StillIsFine
<1>4. \A u \in Txs \ {t} : Elsewhere(u)
  BY <1>1, <1>3 DEF Elsewhere, Continues, Still
<1>5. Local(t)'
  <2>1. Local(t)
    BY DEF TxInv
  <2>2. Stage(t, cmd[t], mem.tx[t], mem.plan[t], mem.pending[t])'
    BY <1>1 DEF Stage, InHand, Still
  <2>3. SoundAt(t, mem'.tx[t], mem'.plan[t], mem'.pending[t], t \in Known(mem'), t \in replanned')
    BY <2>1 DEF Local, Still
  <2>4. SoundAt(t, disk'.tx[t], disk'.plan[t], disk'.pending[t], t \in Known(disk'), t \in replanned')
    BY <2>1 DEF Local, Still
  <2>5. Recorded(t)'
    BY <1>3, RecordKept DEF Still
  <2> QED BY <2>2, <2>3, <2>4, <2>5 DEF Local
<1>6. {t} \in SUBSET Txs /\ (\A u \in {t} : Local(u)') /\ (Apart' \/ \A u \in {t} : Locked(u)' => Locked(u))
  BY <1>5
<1> QED BY <1>2, <1>3, <1>4, <1>6, StepKeeps

\* All commands are over.
LEMMA AllOver ==
  ASSUME TxInv, Still, life' \in {"up", "recovering", "down"}, cmd' = [u \in Txs |-> Idle]
  PROVE  TxInv'
<1>1. Saves /\ Forgets /\ ToSet(mem'.terminal) \subseteq Known(mem') /\ \A u \in Txs : Spared(u)
  BY StillIsFine
<1>2. Types'
  BY IdleIsCommand DEF TxInv, Types, Still
<1>3. \A u \in Txs : Elsewhere(u)
  BY <1>1 DEF Elsewhere, Continues, Still, Idle
<1>4. {} \in SUBSET Txs /\ \A u \in Txs \ {} : Elsewhere(u)
  BY <1>3
<1> HIDE DEF Elsewhere
<1> QED BY <1>1, <1>2, <1>4, StepKeeps

\* What an invariant state says of one transaction.
LEMMA Here ==
  ASSUME TxInv, NEW t \in Txs
  PROVE  /\ Types
         /\ SoundAt(t, mem.tx[t], mem.plan[t], mem.pending[t], t \in Known(mem), t \in replanned)
         /\ Stage(t, cmd[t], mem.tx[t], mem.plan[t], mem.pending[t])
         /\ Recorded(t)
         /\ mem.tx[t] \in TxRecord /\ cmd[t] \in Cmd /\ mem.plan \in PlanMap
         /\ mem.pending[t] \in RecordTypes \cup {None}
BY DEF TxInv, Local, Types, Mem

LEMMA EndKeeps ==
  ASSUME TxInv, Still, life' = life, NEW t \in Txs, End(t)
  PROVE  TxInv'
<1>1. cmd' \in [Txs -> Cmd] /\ cmd'[t] = Idle
  BY IdleIsCommand, StepFields DEF End, TxInv, Types
<1>2. Idle \in Cmd /\ Step(t, Idle) /\ (Locked(t)' => Locked(t))
  BY <1>1, IdleIsCommand DEF End, Locked, Idle
<1>3. Stage(t, Idle, mem.tx[t], mem.plan[t], mem.pending[t])
  BY DEF Stage, InHand, Nothing, Idle, Past, Restoring
<1> QED BY <1>2, <1>3, CommandStep

LEMMA GiveUpKeeps ==
  ASSUME TxInv, Still, NEW t \in Txs, GiveUp(t)
  PROVE  TxInv'
<1>1. CASE life = "up"
  BY <1>1, EndKeeps DEF GiveUp
<1>2. CASE life # "up"
  BY <1>2, AllOver DEF GiveUp
<1> QED BY <1>1, <1>2

LEMMA PrepareKeeps ==
  ASSUME TxInv, NEW t \in Txs, Prepare(t)
  PROVE  TxInv'
<1> DEFINE saved == [repo |-> mem.repo, terminal |-> mem.terminal, plan |-> mem.plan]
           new == [Idle EXCEPT !.at = "preparing", !.saved = saved]
<1>1. Still /\ life' = life /\ Step(t, new) /\ life = "up"
  BY DEF Prepare, Still, History
<1>2. saved \in Snapshot /\ saved.plan = mem.plan /\ saved.repo = mem.repo /\ saved.terminal = mem.terminal
  BY DEF TxInv, Types, Mem, Snapshot
<1>3. \A v \in Txs : PlanFor(v, mem.plan[v])
  BY DEF TxInv, Local, SoundAt
<1> HIDE DEF saved
<1>4. new \in Cmd /\ new.at = "preparing" /\ new.saved = saved /\ new.todo = {} /\ new.seen = Nothing
  BY <1>2, IdleIsCommand DEF Cmd, Labels, Idle
<1> HIDE DEF new
<1>5. Stage(t, new, mem.tx[t], mem.plan[t], mem.pending[t])
  BY <1>1, <1>2, <1>3, <1>4 DEF Stage, InHand, Nothing, Past, Restoring, TxInv, Known
<1>6. Locked(t)' => Locked(t)
  BY <1>1, <1>4, StepFields DEF Locked, TxInv, Types
<1> QED BY <1>1, <1>4, <1>5, <1>6, CommandStep

LEMMA ValidateKeeps ==
  ASSUME TxInv, NEW t \in Txs, NEW kind \in {"validate", "apply"}, Validate(t, kind)
  PROVE  TxInv'
<1> DEFINE new == [Idle EXCEPT !.at = "validating", !.kind = kind]
<1>1. Still /\ life' = life /\ Step(t, new) /\ life = "up" /\ mem.tx[t].status \in Allowed[kind]
  BY DEF Validate, Still, History
<1>2. new \in Cmd /\ new.at = "validating" /\ new.kind = kind /\ new.todo = {} /\ new.seen = Nothing
  BY IdleIsCommand DEF Cmd, Labels, Idle
<1> HIDE DEF new
<1>3. kind = "validate" \/ Fits(kind, mem.tx[t].status)
  BY <1>1 DEF Fits, Allowed
<1>4. Stage(t, new, mem.tx[t], mem.plan[t], mem.pending[t])
  BY <1>1, <1>2, <1>3 DEF Stage, InHand, Nothing, Past, Restoring
<1>5. Locked(t)' => Locked(t)
  BY <1>1, <1>2, StepFields DEF Locked, TxInv, Types
<1> QED BY <1>1, <1>2, <1>4, <1>5, CommandStep

LEMMA RollbackKeeps ==
  ASSUME TxInv, NEW t \in Txs, Rollback(t)
  PROVE  TxInv'
<1> DEFINE new == [Idle EXCEPT !.at = "locking", !.kind = "rollback"]
<1>1. Still /\ life' = life /\ Step(t, new) /\ life = "up" /\ mem.tx[t].status \in Allowed.rollback
  BY DEF Rollback, Still, History
<1>2. new \in Cmd /\ new.at = "locking" /\ new.kind = "rollback" /\ new.todo = {} /\ new.seen = Nothing
  BY IdleIsCommand DEF Cmd, Labels, Idle
<1> HIDE DEF new
<1>3. Fits("rollback", mem.tx[t].status)
  BY <1>1 DEF Fits, Allowed
<1>4. Stage(t, new, mem.tx[t], mem.plan[t], mem.pending[t])
  BY <1>1, <1>2, <1>3 DEF Stage, InHand, Nothing, Past, Restoring
<1>5. Locked(t)' => Locked(t)
  BY <1>1, <1>2, StepFields DEF Locked, TxInv, Types
<1> QED BY <1>1, <1>2, <1>4, <1>5, CommandStep

LEMMA WriteFailsKeeps ==
  ASSUME TxInv, NEW t \in Txs, WriteFails(t)
  PROVE  TxInv'
<1> DEFINE new == [cmd[t] EXCEPT !.at = "restoring", !.seen = Nothing]
<1>0. /\ Stage(t, cmd[t], mem.tx[t], mem.plan[t], mem.pending[t]) /\ cmd[t] \in Cmd
  BY Here
<1>1. Still /\ life' = life /\ Step(t, new) /\ life = "up" /\ cmd[t].at = "writing"
  BY DEF WriteFails, Still, History
<1>2. /\ new \in Cmd /\ new.at = "restoring" /\ new.kind = cmd[t].kind /\ new.todo = cmd[t].todo
      /\ new.from = cmd[t].from /\ new.read = cmd[t].read /\ new.seen = Nothing
  BY <1>0, Absent DEF Cmd, Labels, Past, Restoring
<1> HIDE DEF new
<1>4. Stage(t, new, mem.tx[t], mem.plan[t], mem.pending[t])
  BY <1>0, <1>1, <1>2 DEF Stage, InHand, Nothing, Past, Restoring
<1>5. Locked(t)' => Locked(t)
  BY <1>1 DEF Locked
<1> QED BY <1>1, <1>2, <1>4, <1>5, CommandStep

LEMMA RecoverKeeps ==
  ASSUME TxInv, NEW t \in Txs, Recover(t)
  PROVE  TxInv'
<1> DEFINE p == mem.pending[t]
           new == [Idle EXCEPT !.at = "restoring", !.kind = p.kind, !.from = p.from,
                               !.read = p.read, !.own = p.own]
<1>1. Still /\ life' = life /\ Step(t, new) /\ life = "recovering" /\ p # None
  BY DEF Recover, Still, History
<1>2. p \in RecordTypes /\ p.from = mem.tx[t].status /\ Fits(p.kind, p.from) /\ p.read \in Whole(t)
  BY <1>1, Here DEF SoundAt
<1> HIDE DEF p
<1>3. /\ new \in Cmd /\ new.at = "restoring" /\ new.kind = p.kind /\ new.todo = {}
      /\ new.from = p.from /\ new.read = p.read /\ new.seen = Nothing
  BY <1>2, IdleIsCommand DEF Cmd, Labels, Past, Restoring, Idle, RecordTypes, Partial
<1> HIDE DEF new
<1>4. Stage(t, new, mem.tx[t], mem.plan[t], mem.pending[t])
  BY <1>1, <1>2, <1>3 DEF Stage, InHand, Nothing, Past, Restoring, p
<1>5. Locked(t)' => Locked(t)
  BY <1>1 DEF Locked
<1> QED BY <1>1, <1>3, <1>4, <1>5, CommandStep

LEMMA CheckRestoreKeeps ==
  ASSUME TxInv, NEW t \in Txs, CheckRestore(t)
  PROVE  TxInv'
<1> DEFINE new == [cmd[t] EXCEPT !.at = "rewriting", !.todo = Dirty(t)]
<1>0. /\ Stage(t, cmd[t], mem.tx[t], mem.plan[t], mem.pending[t]) /\ cmd[t] \in Cmd
  BY Here
<1>1. Still /\ cmd[t].at = "restoring" /\ life # "down"
  BY DEF CheckRestore, Still, History
<1>2. CASE Step(t, new) /\ life' = life
  <2>1. Dirty(t) \subseteq Changes[t] /\ Dirty(t) \subseteq Files
    BY TransactionAssumption DEF Dirty, TransactionAssumption
  <2>2. /\ new \in Cmd /\ new.at = "rewriting" /\ new.kind = cmd[t].kind /\ new.todo = Dirty(t)
        /\ new.from = cmd[t].from /\ new.read = cmd[t].read /\ new.seen = cmd[t].seen
    BY <1>0, <2>1 DEF Cmd, Labels, Past, Restoring
  <2> HIDE DEF new
  <2>3. Stage(t, new, mem.tx[t], mem.plan[t], mem.pending[t])
    BY <1>0, <1>1, <2>1, <2>2 DEF Stage, InHand, Past, Restoring
  <2>4. Locked(t)' => Locked(t)
    BY <1>1, <1>2 DEF Locked
  <2> QED BY <1>1, <1>2, <2>2, <2>3, <2>4, CommandStep
<1>3. CASE GiveUp(t)
  BY <1>1, <1>3, GiveUpKeeps
<1> QED BY <1>2, <1>3 DEF CheckRestore

LEMMA RewriteFailsKeeps ==
  ASSUME TxInv, NEW t \in Txs, RewriteFails(t)
  PROVE  TxInv'
BY GiveUpKeeps DEF RewriteFails, Still, History

LEMMA CrashKeeps ==
  ASSUME TxInv, Crash
  PROVE  TxInv'
BY AllOver DEF Crash, Still, History

LEMMA RecoveredKeeps ==
  ASSUME TxInv, Recovered
  PROVE  TxInv'
<1>1. Still /\ life' = "up" /\ life = "recovering" /\ cmd' = cmd /\ \A u \in Txs : cmd[u].at = "idle"
  BY DEF Recovered, Still, History, Busy
<1>2. Saves /\ Forgets
  BY <1>1, StillIsFine
<1>3. Types'
  BY <1>1 DEF TxInv, Types, Still
<1>4. ASSUME NEW u \in Txs PROVE Local(u)'
  <2>1. Local(u)
    BY DEF TxInv
  <2>2. Stage(u, cmd[u], mem.tx[u], mem.plan[u], mem.pending[u])'
    BY <1>1, <2>1 DEF Local, Stage, InHand, Still, Past, Restoring
  <2>3. SoundAt(u, mem'.tx[u], mem'.plan[u], mem'.pending[u], u \in Known(mem'), u \in replanned')
    BY <1>1, <2>1 DEF Local, Still
  <2>4. SoundAt(u, disk'.tx[u], disk'.plan[u], disk'.pending[u], u \in Known(disk'), u \in replanned')
    BY <1>1, <2>1 DEF Local, Still
  <2>5. Recorded(u)'
    BY <1>1, <1>2, RecordKept DEF Still
  <2> QED BY <2>2, <2>3, <2>4, <2>5 DEF Local
<1>5. \A u \in Txs : ~Locked(u)'
  BY <1>1 DEF Locked
<1>6. Apart' /\ Storable(disk)' /\ ToSet(mem.terminal)' \subseteq Known(mem)'
  BY <1>1, <1>5 DEF Apart, TxInv, Still, Storable, Known
<1> QED BY <1>3, <1>4, <1>6 DEF TxInv

-----------------------------------------------------------------------------
(* Steps that read and write files. *)

LEMMA EditKeeps ==
  ASSUME TxInv, NEW f \in Files, Edit(f)
  PROVE  TxInv'
<1>1. /\ mem' = mem /\ disk' = disk /\ cmd' = cmd /\ life' = life
      /\ undo' = undo /\ exposed' = exposed /\ replanned' = replanned
      /\ files' = [files EXCEPT ![f] = External]
  BY DEF Edit, History
<1>2. Saves /\ Forgets /\ ToSet(mem'.terminal) \subseteq Known(mem') /\ \A u \in Txs : Spared(u)
  BY <1>1, SameMemory DEF Saves, Forgets, TxInv
<1>3. files' \in [Files -> Contents] /\ \A g \in Files : files'[g] \in {files[g], External}
  BY <1>1 DEF TxInv, Types, Contents
<1>4. Types'
  BY <1>1, <1>3 DEF TxInv, Types
<1>5. \A u \in Txs : Elsewhere(u)
  BY <1>1, <1>2, <1>3, TransactionAssumption DEF Elsewhere, Continues, TransactionAssumption
<1>6. {} \in SUBSET Txs /\ \A u \in Txs \ {} : Elsewhere(u)
  BY <1>5
<1> HIDE DEF Elsewhere
<1> QED BY <1>2, <1>4, <1>6, StepKeeps

LEMMA LockKeeps ==
  ASSUME TxInv, NEW t \in Txs, Lock(t)
  PROVE  TxInv'
<1> DEFINE read == [f \in Files |-> IF f \in Changes[t] THEN files[f] ELSE None]
           own == [f \in Files |-> IF f \in Changes[t] THEN Target(t, f) ELSE None]
           saved == [tx |-> mem.tx[t], plan |-> mem.plan]
           new == [cmd[t] EXCEPT !.at = "reading", !.read = read, !.from = mem.tx[t].status,
                                 !.own = own, !.saved = saved]
<1>0. /\ Stage(t, cmd[t], mem.tx[t], mem.plan[t], mem.pending[t]) /\ cmd[t] \in Cmd
      /\ SoundAt(t, mem.tx[t], mem.plan[t], mem.pending[t], t \in Known(mem), t \in replanned)
      /\ mem.tx[t] \in TxRecord /\ mem.plan \in PlanMap /\ files \in [Files -> Contents]
      /\ cmd \in [Txs -> Cmd]
  BY Here DEF Types
<1>1. /\ Still /\ life' = life /\ Step(t, new) /\ life = "up" /\ cmd[t].at = "locking" /\ Lockable(t)
      /\ cmd[t].kind = "rollback" => Unchanged(t)
  BY DEF Lock, Still, History
<1>2. read \in Whole(t) /\ \A f \in Changes[t] : read[f] = files[f]
  BY <1>0, TransactionAssumption DEF Whole, Partial, TransactionAssumption
<1>3. Fits(cmd[t].kind, mem.tx[t].status)
  BY <1>0, <1>1 DEF Stage
<1>4. ASSUME NEW f \in Changes[t] PROVE Target(t, f) \in Contents
  <2>1. CASE cmd[t].kind = "apply"
    BY <2>1 DEF Target, Contents
  <2>2. CASE cmd[t].kind # "apply"
    BY <1>0, <1>3, <2>2 DEF Target, Before, SoundAt, PlanFor, Whole, Fits
  <2> QED BY <2>1, <2>2
<1>5. own \in Partial
  BY <1>4 DEF Partial
<1>6. saved \in Captured /\ saved.tx = mem.tx[t] /\ saved.plan = mem.plan
  BY <1>0 DEF Captured
<1>7. \A v \in Txs : PlanFor(v, mem.plan[v])
  BY DEF TxInv, Local, SoundAt
<1>8. read \in Partial
  BY <1>2 DEF Whole
<1> HIDE DEF read, own, saved
<1>9. /\ new \in Cmd /\ new.at = "reading" /\ new.kind = cmd[t].kind /\ new.todo = cmd[t].todo
      /\ new.from = mem.tx[t].status /\ new.read = read /\ new.saved = saved /\ new.seen = cmd[t].seen
  BY <1>0, <1>5, <1>6, <1>8 DEF Cmd, Labels, Past, Restoring, TxRecord
<1> HIDE DEF new
<1>10. Stage(t, new, mem.tx[t], mem.plan[t], mem.pending[t])
  BY <1>0, <1>1, <1>2, <1>3, <1>6, <1>7, <1>9 DEF Stage, InHand, Past, Restoring, SoundAt, Unchanged
<1>11. Apart'
  <2>1. cmd'[t] = new /\ \A u \in Txs \ {t} : cmd'[u] = cmd[u]
    BY <1>0, <1>1, <1>9, StepFields
  <2>2. \A u \in Txs \ {t} : Locked(u)' => Locked(u) /\ Changes[u] \cap Changes[t] = {}
    BY <1>1, <2>1 DEF Locked, Lockable
  <2> QED BY <2>2 DEF Apart, TxInv
<1> QED BY <1>1, <1>9, <1>10, <1>11, CommandStep

\* Nobody else writes to a file that is locked.
LEMMA OnlyMine ==
  ASSUME TxInv, NEW t \in Txs, cmd[t].at \in {"writing", "rewriting"}, NEW f \in Changes[t],
         NEW u \in Txs \ {t}, cmd[u].at = "writing"
  PROVE  f \notin Changes[u]
<1>1. Stage(u, cmd[u], mem.tx[u], mem.plan[u], mem.pending[u]) /\ Types
  BY Here
<1>2. life = "up"
  BY <1>1 DEF Stage, Types, Restoring
<1>3. Locked(t) /\ Locked(u)
  BY <1>2 DEF Locked
<1> QED BY <1>3 DEF TxInv, Apart

\* A command writes one of its files and crosses it off.
LEMMA FileStep ==
  ASSUME TxInv, NEW t \in Txs, cmd[t].at \in {"writing", "rewriting"}, NEW f \in cmd[t].todo,
         NEW v \in Contents, files' = [files EXCEPT ![f] = v],
         Step(t, [cmd[t] EXCEPT !.todo = @ \ {f}, !.seen = Nothing]),
         mem' = mem, disk' = disk, life' = life, exposed' = exposed, replanned' = replanned,
         undo' \in [Txs -> Partial], \A u \in Txs \ {t} : undo'[u] = undo[u],
         Recorded(t)',
         Stage(t, cmd[t], mem.tx[t], mem.plan[t], mem.pending[t])'
  PROVE  TxInv'
<1> DEFINE new == [cmd[t] EXCEPT !.todo = @ \ {f}, !.seen = Nothing]
<1>0. /\ Stage(t, cmd[t], mem.tx[t], mem.plan[t], mem.pending[t]) /\ cmd[t] \in Cmd
      /\ Types /\ f \in Changes[t] /\ f \in Files
  BY Here, TransactionAssumption DEF Stage, TransactionAssumption
<1>1. new \in Cmd /\ new.at = cmd[t].at
  BY <1>0, Absent DEF Cmd
<1>2. cmd' \in [Txs -> Cmd] /\ cmd'[t] = new /\ \A u \in Txs \ {t} : cmd'[u] = cmd[u]
  <2> HIDE DEF new
  <2>1. Step(t, new)
    BY DEF new
  <2> QED BY <1>0, <1>1, <2>1, StepFields DEF Types
<1> HIDE DEF new
<1>3. files' \in [Files -> Contents] /\ \A g \in Files \ {f} : files'[g] = files[g]
  BY <1>0 DEF Types
<1>4. Types'
  BY <1>0, <1>2, <1>3 DEF Types
<1>5. Saves /\ Forgets /\ ToSet(mem'.terminal) \subseteq Known(mem') /\ \A u \in Txs : Spared(u)
  BY SameMemory DEF Saves, Forgets, TxInv
<1>6. ASSUME NEW u \in Txs \ {t} PROVE Elsewhere(u)
  <2>1. cmd'[u].at = "writing" => \A g \in Changes[u] : g \in Files /\ g # f
    BY <1>0, <1>2, OnlyMine, TransactionAssumption DEF TransactionAssumption
  <2> QED BY <1>2, <1>3, <1>5, <2>1 DEF Elsewhere, Continues
<1>7. Local(t)'
  <2>1. Local(t)
    BY DEF TxInv
  <2>2. SoundAt(t, mem'.tx[t], mem'.plan[t], mem'.pending[t], t \in Known(mem'), t \in replanned')
    BY <2>1 DEF Local
  <2>3. SoundAt(t, disk'.tx[t], disk'.plan[t], disk'.pending[t], t \in Known(disk'), t \in replanned')
    BY <2>1 DEF Local
  <2> QED BY <2>2, <2>3 DEF Local
<1>8. {t} \in SUBSET Txs /\ (\A u \in {t} : Local(u)') /\ (Apart' \/ \A u \in {t} : Locked(u)' => Locked(u))
  BY <1>1, <1>2, <1>7 DEF Locked
<1> HIDE DEF Elsewhere
<1> QED BY <1>4, <1>5, <1>6, <1>8, StepKeeps

\* A command that has compared a file goes on with what it found there.
LEMMA ComparedStep ==
  ASSUME TxInv, Still, life' = life, NEW t \in Txs, cmd[t].at \in {"writing", "rewriting"},
         NEW f \in Files, f \in cmd[t].todo, cmd[t].seen = Nothing,
         Step(t, [cmd[t] EXCEPT !.seen[f] = files[f]]),
         \/ cmd[t].at = "writing" /\ (t \in replanned \/ files[f] = cmd[t].read[f])
         \/ cmd[t].at = "rewriting" /\ files[f] = cmd[t].own[f]
  PROVE  TxInv'
<1> DEFINE new == [cmd[t] EXCEPT !.seen[f] = files[f]]
<1>0. /\ Stage(t, cmd[t], mem.tx[t], mem.plan[t], mem.pending[t]) /\ cmd[t] \in Cmd
      /\ files[f] \in Contents
  BY Here DEF Types
<1>1. /\ new \in Cmd /\ new.at = cmd[t].at /\ new.kind = cmd[t].kind /\ new.todo = cmd[t].todo
      /\ new.from = cmd[t].from /\ new.read = cmd[t].read /\ new.own = cmd[t].own
      /\ new.seen[f] = files[f] /\ \A g \in Files \ {f} : new.seen[g] = None
  BY <1>0 DEF Cmd, Partial, Nothing
<1>2. Step(t, new)
  OBVIOUS
<1> HIDE DEF new
<1>3. InHand(t, new)
  BY <1>1 DEF InHand
<1>4. Stage(t, new, mem.tx[t], mem.plan[t], mem.pending[t])
  BY <1>0, <1>1, <1>3 DEF Stage, Past, Restoring
<1>5. Locked(t)' => Locked(t)
  BY <1>1, <1>2, StepFields DEF Locked, TxInv, Types
<1> QED BY <1>1, <1>2, <1>4, <1>5, CommandStep

LEMMA CheckWriteKeeps ==
  ASSUME TxInv, NEW t \in Txs, NEW f \in Files, CheckWrite(t, f)
  PROVE  TxInv'
<1> DEFINE c == cmd[t]
           x == mem.tx[t]
           p == mem.plan[t]
           r == mem.pending[t]
<1>0. /\ Stage(t, c, x, p, r) /\ SoundAt(t, x, p, r, t \in Known(mem), t \in replanned)
  BY Here
<1>1. /\ Still /\ life' = life /\ c.at = "writing" /\ f \in c.todo /\ c.seen = Nothing /\ AsExpected(t, f)
      /\ Step(t, [cmd[t] EXCEPT !.seen[f] = files[f]])
  BY DEF CheckWrite, Still, History
<1>2. f \in Changes[t] /\ Fits(c.kind, x.status)
  BY <1>0, <1>1 DEF Stage, Past
<1>3. t \in replanned \/ files[f] = c.read[f]
  <2>1. SUFFICES ASSUME t \notin replanned PROVE files[f] = c.read[f]
    OBVIOUS
  <2>2. p # None /\ p = x.old
    BY <1>0, <1>1, <2>1 DEF Stage, SoundAt
  <2>3. files[f] = Expected(t, f)
    BY <1>1, <2>2 DEF AsExpected
  <2>4. CASE c.kind = "apply"
    BY <1>0, <1>1, <2>2, <2>3, <2>4 DEF Expected, Stage
  <2>5. CASE c.kind # "apply"
    BY <1>0, <1>1, <1>2, <2>1, <2>3, <2>5 DEF Expected, Stage, Fits
  <2> QED BY <2>4, <2>5
<1> HIDE DEF x, p, r
<1> QED BY <1>1, <1>3, ComparedStep

LEMMA CheckRewriteKeeps ==
  ASSUME TxInv, NEW t \in Txs, NEW f \in Files, CheckRewrite(t, f)
  PROVE  TxInv'
BY ComparedStep DEF CheckRewrite, Still, History, Owned

LEMMA WriteKeeps ==
  ASSUME TxInv, NEW t \in Txs, NEW f \in Files, Write(t, f)
  PROVE  TxInv'
<1> DEFINE c == cmd[t]
           x == mem.tx[t]
           p == mem.plan[t]
           r == mem.pending[t]
<1>0. /\ Stage(t, c, x, p, r) /\ c \in Cmd /\ Types
      /\ SoundAt(t, x, p, r, t \in Known(mem), t \in replanned)
      /\ Recorded(t) /\ cmd \in [Txs -> Cmd] /\ files \in [Files -> Contents]
      /\ mem.tx[t] \in TxRecord
  BY Here DEF Types
<1>1. /\ mem' = mem /\ disk' = disk /\ life' = life /\ exposed' = exposed /\ replanned' = replanned
      /\ life = "up" /\ c.at = "writing" /\ f \in c.todo /\ c.seen[f] # None
      /\ files' = [files EXCEPT ![f] = Target(t, f)]
      /\ undo' = IF undo[t][f] = None THEN [undo EXCEPT ![t][f] = c.seen[f]] ELSE undo
      /\ Step(t, [cmd[t] EXCEPT !.todo = @ \ {f}, !.seen = Nothing])
  BY <1>0 DEF Write, Stage, InHand
<1>2. f \in Changes[t] /\ Fits(c.kind, x.status) /\ (x.status = "applied" => x.old \in Whole(t))
  BY <1>0, <1>1 DEF Stage, Past, SoundAt
<1>3. Target(t, f) \in Contents
  <2>1. CASE c.kind = "apply"
    BY <2>1 DEF Target, Contents
  <2>2. CASE c.kind # "apply"
    BY <1>0, <1>2, <2>2 DEF Target, Before, SoundAt, PlanFor, Whole, Fits
  <2> QED BY <2>1, <2>2
<1>31. c.seen[f] \in Contents
  BY <1>0, <1>1 DEF Cmd, Partial
<1>4. /\ undo' \in [Txs -> Partial]
      /\ \A u \in Txs \ {t} : undo'[u] = undo[u]
      /\ \A g \in Files \ {f} : undo'[t][g] = undo[t][g]
      /\ undo'[t][f] = IF undo[t][f] = None THEN c.seen[f] ELSE undo[t][f]
  BY <1>0, <1>1, <1>31 DEF Types, Partial
<1>5. t \notin replanned => c.seen[f] = c.read[f]
  BY <1>0, <1>1 DEF Stage, InHand
<1>6. Recorded(t)'
  <2>1. r # None /\ r.read = c.read
    BY <1>0, <1>1 DEF Stage
  <2>2. t \in exposed \cup replanned \/
          \A g \in Files : undo'[t][g] # None => r # None /\ r.read[g] = undo'[t][g]
    BY <1>0, <1>4, <1>5, <2>1 DEF Recorded
  <2> QED BY <1>0, <1>1, <2>2 DEF Recorded
<1>7. Stage(t, cmd[t], mem.tx[t], mem.plan[t], mem.pending[t])'
  <2>2. cmd'[t] = [c EXCEPT !.todo = @ \ {f}, !.seen = Nothing]
    BY <1>0, <1>1 DEF Step
  <2>3. /\ cmd'[t].at = c.at /\ cmd'[t].kind = c.kind /\ cmd'[t].from = c.from
        /\ cmd'[t].read = c.read /\ cmd'[t].todo = c.todo \ {f} /\ cmd'[t].seen = Nothing
    BY <1>0, <2>2 DEF Cmd
  <2>4. ASSUME t \notin replanned, c.kind = "rollback" PROVE files'[f] = x.old[f]
    <3>1. p # None /\ p = x.old
      BY <1>0, <1>1, <2>4 DEF Stage, SoundAt
    <3> QED BY <1>0, <1>1, <2>4, <3>1 DEF Target, Before
  <2>5. \A g \in Files \ {f} : files'[g] = files[g]
    BY <1>0, <1>1
  <2>6. Changes[t] \subseteq Files
    BY TransactionAssumption DEF TransactionAssumption
  <2>7. InHand(t, cmd[t])'
    BY <2>3 DEF InHand, Nothing
  <2> QED BY <1>0, <1>1, <2>3, <2>4, <2>5, <2>6, <2>7 DEF Stage, Past, Restoring
<1>8. Target(t, f) \in Contents /\ cmd[t].at \in {"writing", "rewriting"} /\ f \in cmd[t].todo
  BY <1>1, <1>3
<1> HIDE DEF c, x, p, r
<1>9. PICK v \in Contents : v = Target(t, f)
  BY <1>8
<1>10. files' = [files EXCEPT ![f] = v]
  BY <1>1, <1>9
<1> QED BY <1>1, <1>4, <1>6, <1>7, <1>8, <1>10, FileStep

LEMMA RewriteKeeps ==
  ASSUME TxInv, NEW t \in Txs, NEW f \in Files, Rewrite(t, f)
  PROVE  TxInv'
<1> DEFINE c == cmd[t]
<1>0. /\ Stage(t, c, mem.tx[t], mem.plan[t], mem.pending[t]) /\ c \in Cmd /\ Types
      /\ Recorded(t) /\ cmd \in [Txs -> Cmd]
  BY Here DEF Types
<1>1. /\ mem' = mem /\ disk' = disk /\ life' = life /\ undo' = undo
      /\ exposed' = exposed /\ replanned' = replanned
      /\ life # "down" /\ c.at = "rewriting" /\ f \in c.todo
      /\ files' = [files EXCEPT ![f] = c.read[f]]
      /\ Step(t, [cmd[t] EXCEPT !.todo = @ \ {f}, !.seen = Nothing])
  BY <1>0 DEF Rewrite, History, Stage, InHand
<1>2. c.read[f] \in Contents
  BY <1>0, <1>1 DEF Stage, Past, Restoring, Whole
<1>3. Recorded(t)'
  BY <1>0, <1>1 DEF Recorded
<1>4. Stage(t, cmd[t], mem.tx[t], mem.plan[t], mem.pending[t])'
  <2>2. cmd'[t] = [c EXCEPT !.todo = @ \ {f}, !.seen = Nothing]
    BY <1>0, <1>1 DEF Step
  <2>3. /\ cmd'[t].at = c.at /\ cmd'[t].kind = c.kind /\ cmd'[t].from = c.from
        /\ cmd'[t].read = c.read /\ cmd'[t].todo = c.todo \ {f} /\ cmd'[t].seen = Nothing
    BY <1>0, <2>2 DEF Cmd
  <2> QED BY <1>0, <1>1, <2>3 DEF Stage, InHand, Nothing, Past, Restoring
<1>5. undo' \in [Txs -> Partial] /\ \A u \in Txs \ {t} : undo'[u] = undo[u]
  BY <1>0, <1>1 DEF Types
<1>6. cmd[t].at \in {"writing", "rewriting"} /\ f \in cmd[t].todo
  BY <1>1
<1>7. PICK v \in Contents : v = c.read[f]
  BY <1>2
<1>8. files' = [files EXCEPT ![f] = v]
  BY <1>1, <1>7
<1> HIDE DEF c
<1> QED BY <1>1, <1>3, <1>4, <1>5, <1>6, <1>8, FileStep

-----------------------------------------------------------------------------
(* Steps that change the memory. *)

LEMMA MemoryStep ==
  ASSUME TxInv, NEW t \in Txs, mem' \in Mem, Saves, Forgets,
         exposed' \subseteq Txs, replanned' \subseteq Txs, files' = files,
         undo' \in [Txs -> Partial], \A u \in Txs \ {t} : undo'[u] = undo[u],
         cmd' \in [Txs -> Cmd], life' \in {"up", "recovering", "down"},
         \A u \in Txs \ {t} : Spared(u) /\ Continues(u),
         Locked(t)' => Locked(t), ToSet(mem'.terminal) \subseteq Known(mem'),
         SoundAt(t, mem'.tx[t], mem'.plan[t], mem'.pending[t], t \in Known(mem'), t \in replanned'),
         Stage(t, cmd[t], mem.tx[t], mem.plan[t], mem.pending[t])', Recorded(t)'
  PROVE  TxInv'
<1>1. disk' \in Disk
  <2>1. CASE disk' = disk
    BY <2>1 DEF TxInv, Types
  <2>2. CASE disk' = Stored(mem')
    BY <2>2 DEF Stored, Mem, Disk
  <2> QED BY <2>1, <2>2 DEF Saves
<1>2. Types'
  BY <1>1 DEF TxInv, Types
<1>3. \A u \in Txs \ {t} : Elsewhere(u)
  BY DEF Elsewhere, TxInv, Types
<1>4. SoundAt(t, disk'.tx[t], disk'.plan[t], disk'.pending[t], t \in Known(disk'), t \in replanned')
  BY DiskKept
<1>5. Local(t)'
  BY <1>4 DEF Local
<1>6. {t} \in SUBSET Txs /\ (\A u \in {t} : Local(u)') /\ (Apart' \/ \A u \in {t} : Locked(u)' => Locked(u))
  BY <1>5
<1> HIDE DEF Elsewhere
<1> QED BY <1>2, <1>3, <1>6, StepKeeps

\* The memory after a store, and what was stored.
LEMMA StoreSaves ==
  ASSUME NEW m, StoreOk(m), mem' = m
  PROVE  Saves /\ Storable(mem')
BY DEF StoreOk, Saves

LEMMA FailureSaves ==
  ASSUME NEW m, StoreFails(m)
  PROVE  Saves
BY DEF StoreFails, Saves

LEMMA PublishFails ==
  ASSUME TxInv, NEW t \in Txs, cmd[t].at = "preparing", life' = life, End(t),
         disk' = disk, files' = files, undo' = undo, exposed' = exposed,
         mem' = [mem EXCEPT !.repo = cmd[t].saved.repo, !.terminal = cmd[t].saved.terminal,
                            !.plan = cmd[t].saved.plan],
         replanned' = replanned \cup (ToSet(cmd[t].saved.repo) \ Known(mem))
                                \cup {u \in Txs : mem.plan[u] # cmd[t].saved.plan[u]}
  PROVE  TxInv'
<1> DEFINE s == cmd[t].saved
<1>0. /\ s \in Snapshot /\ (\A v \in Txs : PlanFor(v, s.plan[v])) /\ ToSet(s.terminal) \subseteq ToSet(s.repo)
      /\ Types
  BY Here DEF Stage
<1>1. /\ mem' \in Mem /\ mem'.tx = mem.tx /\ mem'.pending = mem.pending /\ mem'.plan = s.plan
      /\ mem'.repo = s.repo /\ mem'.terminal = s.terminal
  BY <1>0 DEF Types, Mem, Snapshot
<1>2. s.repo \in Seq(Txs)
  BY <1>0 DEF Snapshot
<1> HIDE DEF s
<1>3. ToSet(s.repo) \subseteq Txs
  BY <1>2, ElementOfSeq DEF ToSet
<1>4. replanned' \subseteq Txs /\ Forgets /\ Saves
  BY <1>0, <1>3 DEF Types, Forgets, Saves, s
<1>5. cmd' \in [Txs -> Cmd] /\ cmd'[t] = Idle /\ \A u \in Txs \ {t} : cmd'[u] = cmd[u]
  BY <1>0, IdleIsCommand, StepFields DEF End, Types
<1>6. ASSUME NEW u \in Txs PROVE Spared(u)
  <2>1. u \in replanned' \/ mem.plan[u] = s.plan[u]
    BY DEF s
  <2>2. u \in replanned' \/ (u \in Known(mem') => u \in Known(mem))
    BY <1>1 DEF s, Known
  <2> QED BY <1>0, <1>1, <2>1, <2>2 DEF Spared
<1>7. \A u \in Txs : Elsewhere(u)
  BY <1>0, <1>5, <1>6 DEF Elsewhere, Continues, Types
<1>8. {} \in SUBSET Txs /\ \A u \in Txs \ {} : Elsewhere(u)
  BY <1>7
<1>9. Types' /\ ToSet(mem'.terminal) \subseteq Known(mem')
  BY <1>0, <1>1, <1>4, <1>5 DEF Types, Known
<1> HIDE DEF Elsewhere
<1> QED BY <1>4, <1>8, <1>9, StepKeeps

LEMMA PublishStored ==
  ASSUME TxInv, NEW t \in Txs, life' = life, End(t),
         files' = files, undo' = undo, exposed' = exposed, replanned' = replanned,
         NEW all, all = Append(mem.repo, t),
         NEW over, over \in {{}, {Head(all)}},
         StoreOk(Capped(Evict([mem EXCEPT !.repo = all, !.tx[t].status = "prepared"], over))),
         mem' = Capped(Evict([mem EXCEPT !.repo = all, !.tx[t].status = "prepared"], over))
  PROVE  TxInv'
<1> DEFINE x == [mem EXCEPT !.repo = all, !.tx[t].status = "prepared"]
           y == Evict(x, over)
<1>0. /\ Types /\ mem \in Mem /\ mem.tx[t] \in TxRecord /\ mem.repo \in Seq(Txs)
      /\ SoundAt(t, mem.tx[t], mem.plan[t], mem.pending[t], t \in Known(mem), t \in replanned)
  BY Here DEF Types, Mem
<1>1. /\ all \in Seq(Txs) /\ Len(all) = Len(mem.repo) + 1
      /\ \A i \in 1..Len(mem.repo) : all[i] = mem.repo[i]
      /\ all[Len(mem.repo) + 1] = t
  BY <1>0, AppendProperties
<1>2. Len(mem.repo) \in Nat /\ DOMAIN mem.repo = 1..Len(mem.repo) /\ DOMAIN all = 1..(Len(mem.repo) + 1)
  BY <1>0, <1>1, LenProperties
<1>3. ToSet(all) = ToSet(mem.repo) \cup {t}
  <2>1. ASSUME NEW i \in DOMAIN all PROVE all[i] \in ToSet(mem.repo) \cup {t}
    BY <1>1, <1>2 DEF ToSet
  <2>2. ASSUME NEW i \in DOMAIN mem.repo PROVE mem.repo[i] \in ToSet(all)
    <3>1. i \in DOMAIN all /\ mem.repo[i] = all[i]
      BY <1>1, <1>2
    <3> QED BY <3>1 DEF ToSet
  <2>3. t \in ToSet(all)
    <3>1. Len(mem.repo) + 1 \in DOMAIN all
      BY <1>2
    <3> QED BY <1>1, <3>1 DEF ToSet
  <2>4. ToSet(all) \subseteq ToSet(mem.repo) \cup {t}
    BY <2>1 DEF ToSet
  <2>5. ToSet(mem.repo) \subseteq ToSet(all)
    BY <2>2 DEF ToSet
  <2> QED BY <2>3, <2>4, <2>5
<1>4. over \subseteq ToSet(all)
  <2>1. Head(all) = all[1] /\ 1 \in DOMAIN all
    BY <1>1, <1>2
  <2>2. Head(all) \in ToSet(all)
    BY <2>1 DEF ToSet
  <2> QED BY <2>2
<1>5. /\ x \in Mem /\ x.repo = all /\ x.terminal = mem.terminal /\ x.plan = mem.plan /\ x.pending = mem.pending
      /\ \A u \in Txs \ {t} : x.tx[u] = mem.tx[u]
      /\ x.tx[t].status = "prepared" /\ x.tx[t].old = mem.tx[t].old
  <2>1. [mem.tx[t] EXCEPT !.status = "prepared"] \in TxRecord
    BY <1>0 DEF TxRecord, Statuses
  <2> QED BY <1>0, <1>1, <2>1 DEF Mem, TxRecord
<1>6. Known(x) = Known(mem) \cup {t} /\ ToSet(x.terminal) \subseteq Known(x)
  BY <1>3, <1>5 DEF Known, TxInv
<1>7. mem' = Capped(y) /\ StoreOk(Capped(y))
  OBVIOUS
<1> HIDE DEF x
<1>8. over \subseteq Known(x) /\ y = Evict(x, over)
  BY <1>4, <1>5 DEF Known
<1> HIDE DEF y
<1>18. Lighter(x, y) /\ y \in Mem
  BY <1>5, <1>8, EvictFields DEF Lighter
<1>9. Lighter(x, mem') /\ Saves /\ Storable(mem')
  <2>1. Lighter(y, mem')
    BY <1>7, <1>18, CappedFields
  <2> QED BY <1>7, <1>18, <2>1, LighterTwice, StoreSaves
<1>10. Edited(x, t)
  BY <1>5, <1>6 DEF Edited
<1>11. cmd' \in [Txs -> Cmd] /\ cmd'[t] = Idle /\ \A u \in Txs \ {t} : cmd'[u] = cmd[u]
  BY <1>0, IdleIsCommand, StepFields DEF End, Types
<1>12. \A u \in Txs \ {t} : Spared(u) /\ Continues(u)
  BY <1>9, <1>10, <1>11, CappedSpares DEF Continues
<1>13. Forgets
  BY DEF Forgets
<1>14. Stage(t, cmd[t], mem.tx[t], mem.plan[t], mem.pending[t])'
  BY <1>11, IdleIsFine
<1>19. Locked(t)' => Locked(t)
  BY <1>11 DEF Locked, Idle
<1>15. Recorded(t)'
  BY <1>5, <1>9, <1>13, RecordKept DEF Lighter
<1>16. SoundAt(t, mem'.tx[t], mem'.plan[t], mem'.pending[t], t \in Known(mem'), t \in replanned')
  <2>1. /\ mem'.tx = x.tx /\ mem'.pending[t] = mem.pending[t]
        /\ mem'.plan[t] = mem.plan[t] \/ mem'.plan[t] = None
    BY <1>5, <1>9 DEF Lighter
  <2>2. mem'.pending[t] # None => mem'.pending[t].from = "prepared"
    BY <1>5, <1>9, <2>1 DEF Storable
  <2> QED BY <1>0, <1>5, <2>1, <2>2 DEF SoundAt, PlanFor
<1>17. mem' \in Mem /\ ToSet(mem'.terminal) \subseteq Known(mem')
  BY <1>6, <1>9 DEF Lighter
<1> QED BY <1>0, <1>9, <1>11, <1>12, <1>13, <1>14, <1>15, <1>16, <1>17, <1>19, MemoryStep DEF Types

LEMMA PublishPreparedKeeps ==
  ASSUME TxInv, NEW t \in Txs, PublishPrepared(t)
  PROVE  TxInv'
<1> DEFINE all == Append(mem.repo, t)
           over == IF Len(all) > MaxTransactions THEN {Head(all)} ELSE {}
           added == Evict([mem EXCEPT !.repo = all, !.tx[t].status = "prepared"], over)
           m == Capped(added)
<1>1. /\ cmd[t].at = "preparing" /\ life' = life /\ End(t) /\ files' = files /\ undo' = undo /\ exposed' = exposed
      /\ \/ StoreOk(m) /\ mem' = m /\ replanned' = replanned
         \/ /\ StoreFails(m)
            /\ mem' = [mem EXCEPT !.repo = cmd[t].saved.repo, !.terminal = cmd[t].saved.terminal,
                                  !.plan = cmd[t].saved.plan]
            /\ replanned' = replanned \cup (ToSet(cmd[t].saved.repo) \ Known(mem))
                                      \cup {u \in Txs : mem.plan[u] # cmd[t].saved.plan[u]}
  BY DEF PublishPrepared
<1>2. CASE StoreOk(m) /\ mem' = m /\ replanned' = replanned
  <2>1. over \in {{}, {Head(all)}}
    OBVIOUS
  <2>2. PICK a : a = all
    OBVIOUS
  <2>3. PICK o : o = over
    OBVIOUS
  <2>4. m = Capped(Evict([mem EXCEPT !.repo = a, !.tx[t].status = "prepared"], o)) /\ o \in {{}, {Head(a)}}
    BY <2>1, <2>2, <2>3
  <2>5. a = Append(mem.repo, t)
    BY <2>2
  <2> HIDE DEF m
  <2> QED BY <1>1, <1>2, <2>4, <2>5, PublishStored
<1>3. CASE ~(StoreOk(m) /\ mem' = m /\ replanned' = replanned)
  <2>1. StoreFails(m) => disk' = disk
    BY DEF StoreFails
  <2> HIDE DEF m
  <2> QED BY <1>1, <1>3, <2>1, PublishFails
<1> QED BY <1>2, <1>3

LEMMA LighterSound ==
  ASSUME NEW x, NEW n, Lighter(x, n), NEW u \in Txs, NEW R,
         SoundAt(u, x.tx[u], x.plan[u], x.pending[u], u \in Known(x), u \in R)
  PROVE  SoundAt(u, n.tx[u], n.plan[u], n.pending[u], u \in Known(n), u \in R)
<1>1. n.tx = x.tx /\ n.pending = x.pending
  BY DEF Lighter
<1>2. CASE n.plan[u] = x.plan[u]
  <2>1. u \in Known(n) => u \in Known(x)
    BY DEF Lighter
  <2> QED BY <1>1, <1>2, <2>1 DEF SoundAt
<1>3. CASE n.plan[u] = None /\ u \notin Known(n)
  BY <1>1, <1>3 DEF SoundAt, PlanFor
<1> QED BY <1>2, <1>3 DEF Lighter

\* A command edits its transaction in memory, the history is capped, and this is stored or not.
LEMMA EditStep ==
  ASSUME TxInv, NEW t \in Txs, NEW x, Edited(x, t), Lighter(x, mem'), Spares(x, mem') \/ Storable(mem'), Saves,
         replanned' = replanned, exposed \subseteq exposed', exposed' \subseteq Txs, files' = files,
         undo' \in [Txs -> Partial], \A u \in Txs \ {t} : undo'[u] = undo[u],
         cmd' \in [Txs -> Cmd], \A u \in Txs \ {t} : Continues(u), life' \in {"up", "recovering", "down"},
         Locked(t)' => Locked(t), ToSet(x.terminal) \subseteq Known(x),
         SoundAt(t, x.tx[t], x.plan[t], x.pending[t], t \in Known(x), t \in replanned),
         Stage(t, cmd[t], mem.tx[t], mem.plan[t], mem.pending[t])', Recorded(t)'
  PROVE  TxInv'
<1>1. \A u \in Txs \ {t} : Spared(u)
  BY CappedSpares
<1>2. mem' \in Mem /\ ToSet(mem'.terminal) \subseteq Known(mem')
  BY DEF Lighter
<1>4. SoundAt(t, mem'.tx[t], mem'.plan[t], mem'.pending[t], t \in Known(mem'), t \in replanned)
  BY LighterSound
<1>5. SoundAt(t, mem'.tx[t], mem'.plan[t], mem'.pending[t], t \in Known(mem'), t \in replanned')
  BY <1>4
<1>6. Forgets /\ replanned' \subseteq Txs
  BY DEF Forgets, TxInv, Types
<1> QED BY <1>1, <1>2, <1>5, <1>6, MemoryStep

\* A request that changes the memory at once, and leaves commands and records alone.
LEMMA RequestStep ==
  ASSUME TxInv, NEW t \in Txs, ~Busy(t), NEW x, Edited(x, t), Lighter(x, mem'), Storable(mem'), Saves,
         x.pending[t] = mem.pending[t],
         replanned' = replanned, exposed' = exposed, files' = files, undo' = undo, cmd' = cmd, life' = life,
         ToSet(x.terminal) \subseteq Known(x),
         SoundAt(t, x.tx[t], x.plan[t], x.pending[t], t \in Known(x), t \in replanned)
  PROVE  TxInv'
<1>1. Types /\ Stage(t, cmd[t], mem.tx[t], mem.plan[t], mem.pending[t])
  BY Here
<1>2. Stage(t, cmd[t], mem.tx[t], mem.plan[t], mem.pending[t])'
  BY <1>1 DEF Busy, Stage, InHand, Past, Restoring
<1>3. Forgets
  BY DEF Forgets
<1>4. Recorded(t)'
  BY <1>3, RecordKept DEF Lighter
<1>5. (\A u \in Txs \ {t} : Continues(u)) /\ (Locked(t)' => Locked(t))
  BY DEF Continues, Locked
<1> QED BY <1>1, <1>2, <1>4, <1>5, EditStep DEF Types

LEMMA AmendKeeps ==
  ASSUME TxInv, NEW t \in Txs, Amend(t)
  PROVE  TxInv'
<1> DEFINE x == [mem EXCEPT !.tx[t].status = "prepared", !.plan[t] = None]
           m == Capped(x)
<1>0. /\ Types /\ mem \in Mem /\ mem.tx[t] \in TxRecord
      /\ SoundAt(t, mem.tx[t], mem.plan[t], mem.pending[t], t \in Known(mem), t \in replanned)
  BY Here DEF Types
<1>1. /\ ~Busy(t) /\ StoreOk(m) /\ mem' = m
      /\ replanned' = replanned /\ exposed' = exposed /\ files' = files /\ undo' = undo /\ cmd' = cmd /\ life' = life
  BY DEF Amend, History
<1>2. /\ x \in Mem /\ x.repo = mem.repo /\ x.terminal = mem.terminal /\ x.pending = mem.pending
      /\ \A u \in Txs \ {t} : x.tx[u] = mem.tx[u] /\ x.plan[u] = mem.plan[u]
      /\ x.tx[t].status = "prepared" /\ x.plan[t] = None
  <2>1. [mem.tx[t] EXCEPT !.status = "prepared"] \in TxRecord
    BY <1>0 DEF TxRecord, Statuses
  <2> QED BY <1>0, <2>1 DEF Mem, TxRecord, PlanMap
<1> HIDE DEF x
<1>3. Lighter(x, mem') /\ Saves /\ Storable(mem')
  BY <1>1, <1>2, CappedFields, StoreSaves
<1>4. Edited(x, t) /\ ToSet(x.terminal) \subseteq Known(x)
  BY <1>2 DEF Edited, Known, TxInv
<1>5. x.pending[t] # None => x.pending[t].from = "prepared"
  BY <1>2, <1>3 DEF Lighter, Storable
<1>6. SoundAt(t, x.tx[t], x.plan[t], x.pending[t], t \in Known(x), t \in replanned)
  BY <1>0, <1>2, <1>5 DEF SoundAt, PlanFor
<1> HIDE DEF m
<1> QED BY <1>1, <1>2, <1>3, <1>4, <1>6, RequestStep

LEMMA DiscardKeeps ==
  ASSUME TxInv, NEW t \in Txs, Discard(t)
  PROVE  TxInv'
<1> DEFINE y == Evict(mem, {t})
           m == Capped(y)
<1>0. /\ Types /\ mem \in Mem
      /\ SoundAt(t, mem.tx[t], mem.plan[t], mem.pending[t], t \in Known(mem), t \in replanned)
  BY Here DEF Types
<1>1. /\ ~Busy(t) /\ StoreOk(m) /\ mem' = m /\ {t} \subseteq Known(mem)
      /\ replanned' = replanned /\ exposed' = exposed /\ files' = files /\ undo' = undo /\ cmd' = cmd /\ life' = life
  BY DEF Discard, History
<1>2. Lighter(mem, y)
  BY <1>0, <1>1, EvictFields
<1> HIDE DEF y
<1>3. Lighter(y, mem') /\ Saves /\ Storable(mem')
  BY <1>1, <1>2, CappedFields, StoreSaves DEF Lighter
<1>4. Lighter(mem, mem')
  BY <1>2, <1>3, LighterTwice
<1>5. Edited(mem, t) /\ ToSet(mem.terminal) \subseteq Known(mem)
  BY <1>0 DEF Edited, TxInv
<1> HIDE DEF m
<1> QED BY <1>0, <1>1, <1>3, <1>4, <1>5, RequestStep

LEMMA ValidatedKeeps ==
  ASSUME TxInv, NEW t \in Txs, Validated(t)
  PROVE  TxInv'
<1> DEFINE next == IF cmd[t].kind = "apply" THEN [cmd[t] EXCEPT !.at = "locking"] ELSE Idle
           passed == [mem EXCEPT !.tx[t].status = IF @ = "prepared" THEN "validated" ELSE @]
<1>0. /\ Types /\ mem \in Mem /\ mem.tx[t] \in TxRecord /\ cmd[t] \in Cmd /\ cmd \in [Txs -> Cmd]
      /\ SoundAt(t, mem.tx[t], mem.plan[t], mem.pending[t], t \in Known(mem), t \in replanned)
      /\ Stage(t, cmd[t], mem.tx[t], mem.plan[t], mem.pending[t])
      /\ ToSet(mem.terminal) \subseteq Known(mem)
  BY Here DEF Types, TxInv
<1>1. /\ life = "up" /\ life' = life /\ cmd[t].at = "validating"
      /\ replanned' = replanned /\ exposed' = exposed /\ files' = files /\ undo' = undo
      /\ \/ Step(t, next) /\ mem' = mem /\ disk' = disk
         \/ StoreOk(Capped(passed)) /\ mem' = Capped(passed) /\ Step(t, next)
         \/ StoreOk(Capped(mem)) /\ mem' = Capped(mem) /\ End(t)
         \/ disk' = disk /\ End(t) /\ mem' = mem
  BY DEF Validated, History, StoreFails
<1>2. PICK d : d = [cmd[t] EXCEPT !.at = "locking"]
  OBVIOUS
<1>3. d \in Cmd /\ d.at = "locking" /\ d.kind = cmd[t].kind /\ d.todo = cmd[t].todo /\ d.seen = cmd[t].seen
  BY <1>0, <1>2 DEF Cmd, Labels
<1>4. PICK n : n = next
  OBVIOUS
<1>5. /\ n \in Cmd /\ n.at \in {"idle", "locking"} /\ n.todo \subseteq Changes[t]
      /\ \A f \in Files : n.seen[f] = None
      /\ n.at = "locking" => n.kind = "apply" /\ cmd[t].kind = "apply"
  BY <1>0, <1>1, <1>2, <1>3, <1>4, IdleIsCommand DEF Idle, Nothing, Stage, InHand
<1>6. cmd[t].kind = "apply" => mem.tx[t].status \in Allowed.apply
  BY <1>0, <1>1 DEF Stage, Fits
<1>7. Step(t, next) <=> Step(t, n)
  BY <1>4
<1> HIDE DEF next
<1>8. CASE Step(t, n) /\ mem' = mem /\ disk' = disk
  <2>1. Stage(t, n, mem.tx[t], mem.plan[t], mem.pending[t])
    BY <1>1, <1>5, <1>6 DEF Stage, InHand, Past, Restoring, Fits
  <2>2. cmd'[t] = n
    BY <1>0, <1>5, <1>8, StepFields
  <2>3. Locked(t)' => Locked(t)
    BY <1>5, <2>2 DEF Locked
  <2>4. Still
    BY <1>1, <1>8 DEF Still
  <2> QED BY <1>1, <1>5, <1>8, <2>1, <2>3, <2>4, CommandStep
<1>9. CASE StoreOk(Capped(passed)) /\ mem' = Capped(passed) /\ Step(t, n)
  <2>1. /\ passed \in Mem /\ passed.repo = mem.repo /\ passed.terminal = mem.terminal
        /\ passed.pending = mem.pending /\ passed.plan = mem.plan
        /\ \A u \in Txs \ {t} : passed.tx[u] = mem.tx[u]
        /\ passed.tx[t].status = (IF mem.tx[t].status = "prepared" THEN "validated" ELSE mem.tx[t].status)
        /\ passed.tx[t].old = mem.tx[t].old
    <3>1. PICK s : s = IF mem.tx[t].status = "prepared" THEN "validated" ELSE mem.tx[t].status
      OBVIOUS
    <3>2. s \in Statuses \cup {"new"} /\ passed = [mem EXCEPT !.tx[t].status = s]
      BY <1>0, <3>1 DEF TxRecord, Statuses, Mem
    <3>3. [mem.tx[t] EXCEPT !.status = s] \in TxRecord
      BY <1>0, <3>2 DEF TxRecord
    <3> HIDE DEF passed
    <3>4. /\ passed \in Mem /\ passed.repo = mem.repo /\ passed.terminal = mem.terminal
          /\ passed.pending = mem.pending /\ passed.plan = mem.plan
          /\ \A u \in Txs \ {t} : passed.tx[u] = mem.tx[u]
          /\ passed.tx[t] = [mem.tx[t] EXCEPT !.status = s]
      BY <1>0, <3>2, <3>3 DEF Mem
    <3> QED BY <1>0, <3>1, <3>4 DEF TxRecord
  <2> HIDE DEF passed
  <2>2. Lighter(passed, mem') /\ Saves /\ Storable(mem')
    BY <1>9, <2>1, CappedFields, StoreSaves
  <2>3. Edited(passed, t) /\ ToSet(passed.terminal) \subseteq Known(passed) /\ Known(passed) = Known(mem)
    BY <1>0, <2>1 DEF Edited, Known
  <2>4. passed.pending[t] # None => passed.pending[t].from = passed.tx[t].status
    BY <2>2 DEF Lighter, Storable
  <2>5. SoundAt(t, passed.tx[t], passed.plan[t], passed.pending[t], t \in Known(passed), t \in replanned)
    BY <1>0, <2>1, <2>3, <2>4 DEF SoundAt, PlanFor
  <2>6. cmd' \in [Txs -> Cmd] /\ cmd'[t] = n /\ \A u \in Txs \ {t} : cmd'[u] = cmd[u]
    BY <1>0, <1>5, <1>9, StepFields
  <2>7. mem'.tx[t].status = passed.tx[t].status
    BY <2>2 DEF Lighter
  <2>8. cmd[t].kind = "apply" => Fits("apply", mem'.tx[t].status)
    BY <1>6, <2>1, <2>7 DEF Fits, Allowed
  <2>9. Stage(t, cmd[t], mem.tx[t], mem.plan[t], mem.pending[t])'
    BY <1>1, <1>5, <2>6, <2>8 DEF Stage, InHand, Past, Restoring
  <2>10. Recorded(t)'
    <3>1. mem'.pending[t] = mem.pending[t] /\ undo'[t] = undo[t] /\ Forgets
      BY <1>1, <2>1, <2>2 DEF Lighter, Forgets
    <3> QED BY <2>2, <3>1, RecordKept
  <2>11. (Locked(t)' => Locked(t)) /\ \A u \in Txs \ {t} : Continues(u)
    BY <1>1, <1>5, <2>6 DEF Locked, Continues
  <2> QED BY <1>0, <1>1, <2>2, <2>3, <2>5, <2>6, <2>9, <2>10, <2>11, EditStep DEF Types
<1>10. CASE StoreOk(Capped(mem)) /\ mem' = Capped(mem) /\ End(t)
  <2>1. Lighter(mem, mem') /\ Saves /\ Storable(mem')
    BY <1>0, <1>10, CappedFields, StoreSaves
  <2>2. Edited(mem, t)
    BY <1>0 DEF Edited
  <2>3. cmd' \in [Txs -> Cmd] /\ cmd'[t] = Idle /\ \A u \in Txs \ {t} : cmd'[u] = cmd[u]
    BY <1>0, <1>10, IdleIsCommand, StepFields DEF End
  <2>4. Stage(t, cmd[t], mem.tx[t], mem.plan[t], mem.pending[t])'
    BY <2>3, IdleIsFine
  <2>5. Recorded(t)'
    <3>1. mem'.pending[t] = mem.pending[t] /\ undo'[t] = undo[t] /\ Forgets
      BY <1>1, <2>1 DEF Lighter, Forgets
    <3> QED BY <2>1, <3>1, RecordKept
  <2>6. (Locked(t)' => Locked(t)) /\ \A u \in Txs \ {t} : Continues(u)
    BY <1>1, <2>3 DEF Locked, Continues, Idle
  <2> QED BY <1>0, <1>1, <2>1, <2>2, <2>3, <2>4, <2>5, <2>6, EditStep DEF Types
<1>11. CASE disk' = disk /\ End(t) /\ mem' = mem
  <2>1. Still
    BY <1>1, <1>11 DEF Still
  <2> QED BY <1>1, <1>11, <2>1, EndKeeps
<1> HIDE DEF passed
<1> QED BY <1>1, <1>7, <1>8, <1>9, <1>10, <1>11

-----------------------------------------------------------------------------
(* A preflight that fails. *)

\* The memory in which t was put back as it was captured.
LEMMA PutBackFields ==
  ASSUME NEW t \in Txs, NEW m \in Mem, NEW s \in Captured, s = cmd[t].saved, NEW n, n = PutBack(t, m)
  PROVE  /\ n \in Mem /\ n.plan = s.plan /\ n.pending = m.pending /\ n.terminal = m.terminal
         /\ n.tx[t] = s.tx /\ \A u \in Txs \ {t} : n.tx[u] = m.tx[u]
         /\ Known(n) = Known(m) \cup {t}
<1> DEFINE q == m.repo
           r == IF t \in ToSet(q) THEN q ELSE Append(q, t)
<1>1. q \in Seq(Txs) /\ s.tx \in TxRecord /\ s.plan \in PlanMap
  BY DEF Mem, Captured
<1>2. /\ Append(q, t) \in Seq(Txs) /\ Len(Append(q, t)) = Len(q) + 1
      /\ \A i \in 1..Len(q) : Append(q, t)[i] = q[i]
      /\ Append(q, t)[Len(q) + 1] = t
  BY <1>1, AppendProperties
<1>3. Len(q) \in Nat /\ DOMAIN q = 1..Len(q) /\ DOMAIN Append(q, t) = 1..(Len(q) + 1)
  BY <1>1, <1>2, LenProperties
<1>4. n = [m EXCEPT !.tx[t] = s.tx, !.plan = s.plan, !.repo = r]
  BY DEF PutBack
<1> HIDE DEF q
<1>5. ToSet(Append(q, t)) = ToSet(q) \cup {t}
  <2>1. ASSUME NEW i \in 1..(Len(q) + 1) PROVE Append(q, t)[i] \in ToSet(q) \cup {t}
    BY <1>2, <1>3 DEF ToSet
  <2>2. ASSUME NEW i \in 1..Len(q) PROVE q[i] \in ToSet(Append(q, t))
    <3>1. i \in 1..(Len(q) + 1) /\ q[i] = Append(q, t)[i]
      BY <1>2, <1>3
    <3> QED BY <1>3, <3>1 DEF ToSet
  <2>3. t \in ToSet(Append(q, t))
    <3>1. Len(q) + 1 \in 1..(Len(q) + 1)
      BY <1>3
    <3> QED BY <1>2, <1>3, <3>1 DEF ToSet
  <2>4. ToSet(Append(q, t)) \subseteq ToSet(q) \cup {t}
    BY <1>3, <2>1 DEF ToSet
  <2>5. ToSet(q) \subseteq ToSet(Append(q, t))
    BY <1>3, <2>2 DEF ToSet
  <2> QED BY <2>3, <2>4, <2>5
<1>6. r \in Seq(Txs) /\ ToSet(r) = ToSet(q) \cup {t}
  BY <1>1, <1>2, <1>5
<1> HIDE DEF r
<1>7. /\ n \in Mem /\ n.plan = s.plan /\ n.pending = m.pending /\ n.terminal = m.terminal /\ n.repo = r
      /\ n.tx[t] = s.tx /\ \A u \in Txs \ {t} : n.tx[u] = m.tx[u]
  <2>1. PICK a \in TxRecord : a = s.tx
    BY <1>1
  <2>2. PICK b \in PlanMap : b = s.plan
    BY <1>1
  <2>3. n = [m EXCEPT !.tx[t] = a, !.plan = b, !.repo = r]
    BY <1>4, <2>1, <2>2
  <2>4. /\ n \in Mem /\ n.plan = b /\ n.pending = m.pending /\ n.terminal = m.terminal /\ n.repo = r
        /\ n.tx[t] = a /\ \A u \in Txs \ {t} : n.tx[u] = m.tx[u]
    <3>1. PICK x : x = [m.tx EXCEPT ![t] = a]
      OBVIOUS
    <3>2. n = [m EXCEPT !.tx = x, !.plan = b, !.repo = r]
      BY <2>3, <3>1
    <3>3. m.tx \in [Txs -> TxRecord]
      BY DEF Mem
    <3>4. x \in [Txs -> TxRecord] /\ x[t] = a /\ \A u \in Txs \ {t} : x[u] = m.tx[u]
      BY <3>1, <3>3
    <3>5. n.tx = x /\ n.plan = b /\ n.pending = m.pending /\ n.terminal = m.terminal /\ n.repo = r
      BY <3>2 DEF Mem
    <3>6. n \in Mem
      BY <1>6, <3>2, <3>4 DEF Mem
    <3> QED BY <3>4, <3>5, <3>6
  <2> QED BY <2>1, <2>2, <2>4
<1> QED BY <1>6, <1>7 DEF Known, q

\* m is this memory but for t, and without some transactions that nobody is writing.
Trimmed(m, t) ==
  /\ m \in Mem /\ ToSet(m.terminal) \subseteq Known(m)
  /\ \A u \in Txs \ {t} :
       /\ m.tx[u] = mem.tx[u] /\ m.pending[u] = mem.pending[u]
       /\ u \in Known(m) => u \in Known(mem)
       /\ m.plan[u] = mem.plan[u] \/ (m.plan[u] = None /\ mem.pending[u] = None /\ u \notin Known(m))

LEMMA PutBackStep ==
  ASSUME TxInv, NEW t \in Txs, cmd[t].at = "reading", cmd[t].kind = "apply", NEW m, Trimmed(m, t),
         m.pending[t] \in {mem.pending[t], None},
         mem' = PutBack(t, m), replanned' = replanned \cup Replanned(t, m),
         exposed \subseteq exposed', exposed' \subseteq Txs,
         disk' = disk, files' = files, undo' = undo, life' = life, End(t), Recorded(t)'
  PROVE  TxInv'
<1>0. /\ Types /\ cmd[t] \in Cmd /\ mem.tx[t] \in TxRecord
      /\ SoundAt(t, mem.tx[t], mem.plan[t], mem.pending[t], t \in Known(mem), t \in replanned)
      /\ Stage(t, cmd[t], mem.tx[t], mem.plan[t], mem.pending[t])
  BY Here
<1>1. PICK s : s = cmd[t].saved
  OBVIOUS
<1>2. /\ s \in Captured /\ s.tx = mem.tx[t] /\ \A v \in Txs : PlanFor(v, s.plan[v])
      /\ t \in replanned \/ s.plan[t] \in {None, mem.tx[t].old}
      /\ mem.tx[t].status \in Allowed.apply
  BY <1>0, <1>1 DEF Stage, Past, Fits
<1>4. /\ mem' \in Mem /\ mem'.plan = s.plan /\ mem'.pending = m.pending /\ mem'.terminal = m.terminal
      /\ mem'.tx[t] = s.tx /\ \A u \in Txs \ {t} : mem'.tx[u] = m.tx[u]
      /\ Known(mem') = Known(m) \cup {t}
  BY <1>1, <1>2, PutBackFields DEF Trimmed
<1>5. ASSUME NEW u \in Txs \ {t} PROVE Spared(u)
  <2>1. u \in replanned' \/ m.plan[u] = mem'.plan[u]
    BY <1>1, <1>4 DEF Replanned
  <2>2. mem'.tx[u] = mem.tx[u] /\ mem'.pending[u] = mem.pending[u] /\ (u \in Known(mem') => u \in Known(m))
    BY <1>4 DEF Trimmed
  <2>3. PlanFor(u, mem'.plan[u])
    BY <1>2, <1>4
  <2> QED BY <2>1, <2>2, <2>3 DEF Spared, Trimmed
<1>6. cmd' \in [Txs -> Cmd] /\ cmd'[t] = Idle /\ \A u \in Txs \ {t} : cmd'[u] = cmd[u]
  BY <1>0, IdleIsCommand, StepFields DEF End, Types
<1>7. SoundAt(t, mem'.tx[t], mem'.plan[t], mem'.pending[t], t \in Known(mem'), t \in replanned')
  BY <1>0, <1>2, <1>4 DEF SoundAt, Allowed
<1>8. Stage(t, cmd[t], mem.tx[t], mem.plan[t], mem.pending[t])'
  BY <1>6, IdleIsFine
<1>9. replanned' \subseteq Txs /\ Forgets /\ Saves
  BY <1>0 DEF Types, Replanned, Forgets, Saves
<1>10. (Locked(t)' => Locked(t)) /\ \A u \in Txs \ {t} : Continues(u)
  BY <1>6 DEF Locked, Idle, Continues
<1>11. ToSet(mem'.terminal) \subseteq Known(mem')
  BY <1>4 DEF Trimmed
<1> QED BY <1>0, <1>4, <1>5, <1>6, <1>7, <1>8, <1>9, <1>10, <1>11, MemoryStep DEF Types

LEMMA RefuseKeeps ==
  ASSUME TxInv, NEW t \in Txs, Refuse(t)
  PROVE  TxInv'
<1>1. /\ End(t) /\ files' = files /\ disk' = disk /\ life' = life /\ undo' = undo /\ exposed' = exposed
      /\ \/ mem' = mem /\ replanned' = replanned
         \/ /\ cmd[t].at = "reading" /\ cmd[t].kind = "apply"
            /\ mem' = PutBack(t, mem)
            /\ replanned' = replanned \cup Replanned(t, mem)
  BY DEF Refuse
<1>2. CASE mem' = mem /\ replanned' = replanned
  <2>1. Still
    BY <1>1, <1>2 DEF Still
  <2> QED BY <1>1, <2>1, EndKeeps
<1>3. CASE /\ cmd[t].at = "reading" /\ cmd[t].kind = "apply"
           /\ mem' = PutBack(t, mem)
           /\ replanned' = replanned \cup Replanned(t, mem)
  <2>1. Types /\ mem.pending[t] \in {mem.pending[t], None}
    BY Here
  <2>2. Trimmed(mem, t)
    BY <2>1 DEF Trimmed, TxInv, Types
  <2>3. PICK s : s = cmd[t].saved
    OBVIOUS
  <2>4. s \in Captured /\ mem \in Mem
    BY <1>3, <2>1, <2>3, Here DEF Stage, Types
  <2>5. mem'.pending = mem.pending
    BY <1>3, <2>3, <2>4, PutBackFields
  <2>6. Saves /\ Forgets
    BY <1>1, <1>3 DEF Saves, Forgets
  <2>7. Recorded(t)'
    BY <1>1, <2>5, <2>6, RecordKept
  <2>8. exposed \subseteq exposed' /\ exposed' \subseteq Txs
    BY <1>1, <2>1 DEF Types
  <2> QED BY <1>1, <1>3, <2>1, <2>2, <2>7, <2>8, PutBackStep
<1> QED BY <1>1, <1>2, <1>3

-----------------------------------------------------------------------------
(* The record, and the first write. *)

\* What beginDurableOperation is about to store: the byte plan of an apply, and the record.
Planned(t) == IF cmd[t].kind = "rollback" THEN mem
              ELSE [mem EXCEPT !.plan[t] = cmd[t].read, !.tx[t].old = cmd[t].read]
Begun(t) == [Planned(t) EXCEPT !.pending[t] = Record(t)]

LEMMA BegunFields ==
  ASSUME TxInv, NEW t \in Txs, cmd[t].at = "reading", NEW x, x = Begun(t)
  PROVE  /\ Edited(x, t) /\ x.repo = mem.repo /\ x.terminal = mem.terminal
         /\ Known(x) = Known(mem) /\ ToSet(x.terminal) \subseteq Known(x)
         /\ x.pending[t] \in RecordTypes /\ x.pending[t].read = cmd[t].read
         /\ x.tx[t].status = mem.tx[t].status /\ Fits(cmd[t].kind, mem.tx[t].status)
         /\ cmd[t].kind = "apply" => x.tx[t].old = cmd[t].read /\ x.plan[t] = cmd[t].read
         /\ cmd[t].kind = "rollback" => x.tx = mem.tx /\ x.plan = mem.plan
         /\ SoundAt(t, x.tx[t], x.plan[t], x.pending[t], t \in Known(x), t \in replanned)
<1> DEFINE c == cmd[t]
           y == Planned(t)
           r == Record(t)
<1>0. /\ Types /\ c \in Cmd /\ mem.tx[t] \in TxRecord /\ mem \in Mem
      /\ SoundAt(t, mem.tx[t], mem.plan[t], mem.pending[t], t \in Known(mem), t \in replanned)
      /\ Stage(t, c, mem.tx[t], mem.plan[t], mem.pending[t])
      /\ ToSet(mem.terminal) \subseteq Known(mem)
  BY Here DEF Types, TxInv
<1>1. c.read \in Whole(t) /\ c.read \in Partial /\ Fits(c.kind, mem.tx[t].status) /\ c.own \in Partial
  BY <1>0 DEF Stage, Past, Whole, Cmd
<1>2. r = [kind |-> c.kind, from |-> mem.tx[t].status, read |-> c.read, own |-> c.own]
  BY DEF Record
<1>3. c.kind \in {"apply", "rollback"} /\ mem.tx[t].status \in Statuses
  BY <1>1 DEF Fits, Allowed, Statuses
<1>4. r \in RecordTypes /\ r.kind = c.kind /\ r.from = mem.tx[t].status /\ r.read = c.read
  BY <1>1, <1>2, <1>3 DEF RecordTypes, Partial
<1> HIDE DEF r
<1>5. /\ y \in Mem /\ y.repo = mem.repo /\ y.terminal = mem.terminal /\ y.pending = mem.pending
      /\ \A u \in Txs \ {t} : y.tx[u] = mem.tx[u] /\ y.plan[u] = mem.plan[u]
      /\ y.tx[t].status = mem.tx[t].status
      /\ c.kind = "apply" => y.tx[t].old = c.read /\ y.plan[t] = c.read
      /\ c.kind = "rollback" => y.tx = mem.tx /\ y.plan = mem.plan
  <2>1. CASE c.kind = "rollback"
    <3>1. y = mem
      BY <2>1 DEF Planned
    <3> QED BY <1>0, <2>1, <3>1
  <2>2. CASE c.kind = "apply"
    <3>1. PICK a : a = c.read
      OBVIOUS
    <3>2. a \in Partial
      BY <1>1, <3>1
    <3>3. y = [mem EXCEPT !.plan[t] = a, !.tx[t].old = a]
      BY <2>2, <3>1 DEF Planned
    <3> HIDE DEF y
    <3>4. PICK z : z = [mem.tx[t] EXCEPT !.old = a]
      OBVIOUS
    <3>5. z \in TxRecord /\ z.status = mem.tx[t].status /\ z.old = a
      BY <1>0, <3>2, <3>4 DEF TxRecord
    <3>6. PICK tx : tx = [mem.tx EXCEPT ![t] = z]
      OBVIOUS
    <3>7. PICK plan : plan = [mem.plan EXCEPT ![t] = a]
      OBVIOUS
    <3>8. y = [mem EXCEPT !.plan = plan, !.tx = tx]
      BY <1>0, <3>3, <3>4, <3>6, <3>7 DEF Mem
    <3>9. /\ tx \in [Txs -> TxRecord] /\ tx[t] = z /\ \A u \in Txs \ {t} : tx[u] = mem.tx[u]
          /\ plan \in PlanMap /\ plan[t] = a /\ \A u \in Txs \ {t} : plan[u] = mem.plan[u]
      BY <1>0, <3>2, <3>5, <3>6, <3>7 DEF Mem, PlanMap
    <3>10. /\ y \in Mem /\ y.repo = mem.repo /\ y.terminal = mem.terminal /\ y.pending = mem.pending
           /\ y.tx = tx /\ y.plan = plan
      BY <1>0, <3>8, <3>9 DEF Mem
    <3> QED BY <2>2, <3>1, <3>5, <3>9, <3>10
  <2> QED BY <1>3, <2>1, <2>2
<1>6. x = [y EXCEPT !.pending[t] = r]
  BY DEF Begun, r
<1> HIDE DEF y
<1>7. /\ x \in Mem /\ x.repo = mem.repo /\ x.terminal = mem.terminal /\ x.tx = y.tx /\ x.plan = y.plan
      /\ x.pending[t] = r /\ \A u \in Txs \ {t} : x.pending[u] = mem.pending[u]
  <2>1. PICK q : q = [y.pending EXCEPT ![t] = r]
    OBVIOUS
  <2>2. q \in [Txs -> RecordTypes \cup {None}] /\ q[t] = r /\ \A u \in Txs \ {t} : q[u] = mem.pending[u]
    BY <1>0, <1>4, <1>5, <2>1 DEF Mem
  <2>3. x = [y EXCEPT !.pending = q]
    BY <1>5, <1>6, <2>1 DEF Mem
  <2> QED BY <1>5, <2>2, <2>3 DEF Mem
<1>8. Known(x) = Known(mem) /\ Edited(x, t)
  BY <1>5, <1>7 DEF Known, Edited
<1>9. SoundAt(t, x.tx[t], x.plan[t], r, t \in Known(x), t \in replanned)
  <2>1. CASE c.kind = "apply"
    <3>1. mem.tx[t].status # "applied"
      BY <1>1, <2>1 DEF Fits, Allowed
    <3> QED BY <1>1, <1>4, <1>5, <1>7, <2>1, <3>1 DEF SoundAt, PlanFor
  <2>2. CASE c.kind = "rollback"
    BY <1>0, <1>1, <1>4, <1>5, <1>7, <1>8, <2>2 DEF SoundAt
  <2> QED BY <1>3, <2>1, <2>2
<1> HIDE DEF c
<1> QED BY <1>0, <1>1, <1>4, <1>5, <1>7, <1>8, <1>9 DEF c

LEMMA BeginStored ==
  ASSUME TxInv, NEW t \in Txs, life = "up", cmd[t].at = "reading",
         StoreOk(Capped(Begun(t))), mem' = Capped(Begun(t)),
         Step(t, [cmd[t] EXCEPT !.at = "writing", !.todo = Changes[t], !.saved = None]),
         replanned' = replanned, exposed' = IF mem.pending[t] = None THEN exposed ELSE exposed \cup {t},
         files' = files, life' = life, undo' = undo
  PROVE  TxInv'
<1> DEFINE c == cmd[t]
           d == [c EXCEPT !.at = "writing", !.todo = Changes[t], !.saved = None]
<1>0. /\ Types /\ c \in Cmd /\ cmd \in [Txs -> Cmd]
      /\ SoundAt(t, mem.tx[t], mem.plan[t], mem.pending[t], t \in Known(mem), t \in replanned)
      /\ Stage(t, c, mem.tx[t], mem.plan[t], mem.pending[t])
      /\ Recorded(t)
  BY Here DEF Types
<1>1. PICK x : x = Begun(t)
  OBVIOUS
<1>2. /\ Edited(x, t) /\ Known(x) = Known(mem) /\ ToSet(x.terminal) \subseteq Known(x)
      /\ x.pending[t] \in RecordTypes /\ x.pending[t].read = c.read
      /\ x.tx[t].status = mem.tx[t].status /\ Fits(c.kind, mem.tx[t].status)
      /\ c.kind = "apply" => x.tx[t].old = c.read /\ x.plan[t] = c.read
      /\ c.kind = "rollback" => x.tx = mem.tx /\ x.plan = mem.plan
      /\ SoundAt(t, x.tx[t], x.plan[t], x.pending[t], t \in Known(x), t \in replanned)
  BY <1>1, BegunFields
<1>3. x \in Mem
  BY <1>2 DEF Edited
<1>4. Lighter(x, mem') /\ Saves /\ Storable(mem') /\ disk' = Stored(mem')
  BY <1>1, <1>3, CappedFields, StoreSaves DEF StoreOk
<1>5. mem'.pending[t] = x.pending[t] /\ mem'.tx[t] = x.tx[t] /\ x.pending[t] # None
  BY <1>2, <1>4, Absent DEF Lighter
<1>6. t \in Known(mem') /\ mem'.plan[t] = x.plan[t] /\ t \in Known(mem)
  BY <1>2, <1>4, <1>5 DEF Storable, Lighter
<1>7. /\ d \in Cmd /\ d.at = "writing" /\ d.todo = Changes[t] /\ d.kind = c.kind
      /\ d.from = c.from /\ d.read = c.read /\ d.seen = c.seen
  <2>1. Changes[t] \in SUBSET Files
    BY TransactionAssumption DEF TransactionAssumption
  <2> QED BY <1>0, <2>1 DEF Cmd, Labels, Past
<1> HIDE DEF d
<1>8. cmd' \in [Txs -> Cmd] /\ cmd'[t] = d /\ \A u \in Txs \ {t} : cmd'[u] = cmd[u]
  <2>1. Step(t, d)
    BY DEF d
  <2> QED BY <1>0, <1>7, <2>1, StepFields
<1>9. c.from = mem.tx[t].status /\ c.read \in Whole(t) /\ c.read # None
  BY <1>0, Absent DEF Stage, Past, Whole
<1>10. t \in replanned \/ (x.plan[t] # None /\ (c.kind = "rollback" => \A f \in Changes[t] : c.read[f] = t))
  <2>1. CASE c.kind = "apply"
    BY <1>2, <1>9, <2>1
  <2>2. CASE c.kind = "rollback"
    <3>1. mem.tx[t].status = "applied"
      BY <1>2, <2>2 DEF Fits
    <3>2. t \in replanned \/ mem.plan[t] # None
      BY <1>0, <1>6, <3>1 DEF SoundAt
    <3> QED BY <1>0, <1>2, <2>2, <3>2 DEF Stage
  <2> QED BY <1>2, <2>1, <2>2 DEF Fits
<1>11. Stage(t, cmd[t], mem.tx[t], mem.plan[t], mem.pending[t])'
  <2>1. \A f \in Files : d.seen[f] = None
    BY <1>0, <1>7 DEF Stage, InHand
  <2>2. InHand(t, cmd[t])'
    BY <1>8, <2>1 DEF InHand
  <2> QED BY <1>2, <1>5, <1>6, <1>7, <1>8, <1>9, <1>10, <2>2 DEF Stage, Past, Restoring
<1>12. Recorded(t)'
  <2>1. disk'.pending = mem'.pending
    BY <1>4 DEF Stored
  <2>2. mem.pending[t] = None => t \in exposed' \cup replanned' \/ \A f \in Files : undo'[t][f] = None
    BY <1>0 DEF Recorded
  <2>3. mem.pending[t] # None => t \in exposed'
    OBVIOUS
  <2> QED BY <2>1, <2>2, <2>3 DEF Recorded
<1>13. exposed \subseteq exposed' /\ exposed' \subseteq Txs
  BY <1>0 DEF Types
<1>14. (Locked(t)' => Locked(t)) /\ \A u \in Txs \ {t} : Continues(u)
  BY <1>8 DEF Locked, Continues
<1> QED BY <1>0, <1>2, <1>4, <1>8, <1>11, <1>12, <1>13, <1>14, EditStep DEF Types

LEMMA BeginFails ==
  ASSUME TxInv, NEW t \in Txs, cmd[t].at = "reading", NEW m, m = Capped(Begun(t)),
         NEW undone, undone = [m EXCEPT !.pending[t] = None],
         IF cmd[t].kind = "apply"
         THEN mem' = PutBack(t, undone) /\ replanned' = replanned \cup Replanned(t, undone)
         ELSE mem' = undone /\ replanned' = replanned,
         exposed' = IF mem.pending[t] = None THEN exposed ELSE exposed \cup {t},
         files' = files, disk' = disk, life' = life, undo' = undo, End(t)
  PROVE  TxInv'
<1>0. /\ Types /\ cmd[t] \in Cmd
      /\ SoundAt(t, mem.tx[t], mem.plan[t], mem.pending[t], t \in Known(mem), t \in replanned)
      /\ Stage(t, cmd[t], mem.tx[t], mem.plan[t], mem.pending[t])
      /\ Recorded(t)
  BY Here
<1>1. PICK x : x = Begun(t)
  OBVIOUS
<1>2. /\ Edited(x, t) /\ Known(x) = Known(mem) /\ ToSet(x.terminal) \subseteq Known(x)
      /\ x.tx[t].status = mem.tx[t].status
      /\ cmd[t].kind = "rollback" => x.tx = mem.tx /\ x.plan = mem.plan
      /\ Fits(cmd[t].kind, mem.tx[t].status)
  BY <1>1, BegunFields
<1>3. x \in Mem
  BY <1>2 DEF Edited
<1>4. Lighter(x, m) /\ Spares(x, m)
  BY <1>1, <1>3, CappedFields
<1>5. /\ undone \in Mem /\ undone.repo = m.repo /\ undone.terminal = m.terminal /\ undone.tx = m.tx
      /\ undone.plan = m.plan /\ undone.pending[t] = None
      /\ \A u \in Txs \ {t} : undone.pending[u] = m.pending[u]
  <2>1. PICK q : q = [m.pending EXCEPT ![t] = None]
    OBVIOUS
  <2>2. m \in Mem
    BY <1>4 DEF Lighter
  <2>3. q \in [Txs -> RecordTypes \cup {None}] /\ q[t] = None /\ \A u \in Txs \ {t} : q[u] = m.pending[u]
    BY <2>1, <2>2 DEF Mem
  <2>4. undone = [m EXCEPT !.pending = q]
    BY <2>1, <2>2 DEF Mem
  <2> QED BY <2>2, <2>3, <2>4 DEF Mem
<1>6. Known(undone) = Known(m)
  BY <1>5 DEF Known
<1>7. Trimmed(undone, t)
  <2>1. ToSet(undone.terminal) \subseteq Known(undone)
    BY <1>2, <1>4, <1>5, <1>6 DEF Lighter
  <2>2. ASSUME NEW u \in Txs \ {t}
        PROVE  /\ undone.tx[u] = mem.tx[u] /\ undone.pending[u] = mem.pending[u]
               /\ u \in Known(undone) => u \in Known(mem)
    BY <1>2, <1>4, <1>5, <1>6 DEF Edited, Lighter
  <2>3. ASSUME NEW u \in Txs \ {t}
        PROVE  \/ undone.plan[u] = mem.plan[u]
               \/ undone.plan[u] = None /\ mem.pending[u] = None /\ u \notin Known(undone)
    BY <1>2, <1>4, <1>5, <1>6 DEF Edited, Lighter, Spares
  <2> QED BY <1>5, <2>1, <2>2, <2>3 DEF Trimmed
<1>8. exposed \subseteq exposed' /\ exposed' \subseteq Txs
  BY <1>0 DEF Types
<1>9. mem'.pending[t] = None => Recorded(t)'
  <2>1. mem.pending[t] = None => t \in exposed' \cup replanned' \/ \A f \in Files : undo'[t][f] = None
    BY <1>0 DEF Recorded
  <2>2. mem.pending[t] # None => t \in exposed'
    OBVIOUS
  <2> QED BY <2>1, <2>2 DEF Recorded
<1>10. CASE cmd[t].kind = "apply"
  <2>1. PICK s : s = cmd[t].saved
    OBVIOUS
  <2>2. s \in Captured
    BY <1>0, <2>1 DEF Stage
  <2>5. mem' = PutBack(t, undone) /\ replanned' = replanned \cup Replanned(t, undone)
    BY <1>10
  <2>6. undone \in Mem
    BY <1>5
  <2>3. mem'.pending = undone.pending
    BY ONLY t \in Txs, <2>6, <2>1, <2>2, <2>5, PutBackFields
  <2>4. Recorded(t)' /\ undone.pending[t] \in {mem.pending[t], None}
    BY <1>5, <1>9, <2>3
  <2> QED BY <1>7, <1>8, <1>10, <2>4, <2>5, PutBackStep
<1>11. CASE cmd[t].kind # "apply"
  <2>1. mem' = undone /\ replanned' = replanned /\ x.tx = mem.tx /\ x.plan = mem.plan
    BY <1>2, <1>11 DEF Fits
  <2>2. ASSUME NEW u \in Txs \ {t} PROVE Spared(u)
    <3>1. PlanFor(u, mem.plan[u])
      BY DEF TxInv, Local, SoundAt
    <3>2. mem'.plan[u] = mem.plan[u] \/ (mem'.plan[u] = None /\ mem.pending[u] = None /\ u \notin Known(mem'))
      BY <1>7, <2>1 DEF Trimmed
    <3>3. mem'.tx[u] = mem.tx[u] /\ mem'.pending[u] = mem.pending[u] /\ (u \in Known(mem') => u \in Known(mem))
      BY <1>7, <2>1 DEF Trimmed
    <3> QED BY <3>1, <3>2, <3>3 DEF Spared, PlanFor
  <2>3. cmd' \in [Txs -> Cmd] /\ cmd'[t] = Idle /\ \A u \in Txs \ {t} : cmd'[u] = cmd[u]
    BY <1>0, IdleIsCommand, StepFields DEF End, Types
  <2>4. SoundAt(t, mem'.tx[t], mem'.plan[t], mem'.pending[t], t \in Known(mem'), t \in replanned')
    <3>1. mem'.tx[t] = mem.tx[t] /\ mem'.pending[t] = None
      BY <1>4, <1>5, <2>1 DEF Lighter
    <3>2. mem'.plan[t] = mem.plan[t] \/ (mem'.plan[t] = None /\ t \notin Known(mem'))
      BY <1>4, <1>5, <1>6, <2>1 DEF Lighter
    <3>3. t \in Known(mem') => t \in Known(mem)
      BY <1>2, <1>4, <1>6, <2>1 DEF Lighter
    <3> QED BY <1>0, <2>1, <3>1, <3>2, <3>3 DEF SoundAt, PlanFor
  <2>5. Stage(t, cmd[t], mem.tx[t], mem.plan[t], mem.pending[t])'
    BY <2>3, IdleIsFine
  <2>6. Recorded(t)' /\ mem' \in Mem /\ ToSet(mem'.terminal) \subseteq Known(mem')
    BY <1>5, <1>7, <1>9, <2>1 DEF Trimmed
  <2>7. (Locked(t)' => Locked(t)) /\ \A u \in Txs \ {t} : Continues(u)
    BY <2>3 DEF Locked, Idle, Continues
  <2>8. Saves /\ Forgets
    BY <1>8, <2>1 DEF Saves, Forgets
  <2> QED BY <1>0, <1>8, <2>1, <2>2, <2>3, <2>4, <2>5, <2>6, <2>7, <2>8, MemoryStep DEF Types
<1> QED BY <1>10, <1>11

LEMMA BeginDurableKeeps ==
  ASSUME TxInv, NEW t \in Txs, BeginDurable(t)
  PROVE  TxInv'
<1> DEFINE m == Capped(Begun(t))
           undone == [m EXCEPT !.pending[t] = None]
<1>1. /\ life = "up" /\ cmd[t].at = "reading" /\ files' = files /\ life' = life /\ undo' = undo
      /\ exposed' = IF mem.pending[t] = None THEN exposed ELSE exposed \cup {t}
      /\ \/ /\ StoreOk(m) /\ mem' = m /\ replanned' = replanned
            /\ Step(t, [cmd[t] EXCEPT !.at = "writing", !.todo = Changes[t], !.saved = None])
         \/ /\ disk' = disk /\ End(t)
            /\ IF cmd[t].kind = "apply"
               THEN mem' = PutBack(t, undone) /\ replanned' = replanned \cup Replanned(t, undone)
               ELSE mem' = undone /\ replanned' = replanned
  BY DEF BeginDurable, Begun, Planned, StoreFails
<1>2. CASE /\ StoreOk(m) /\ mem' = m /\ replanned' = replanned
           /\ Step(t, [cmd[t] EXCEPT !.at = "writing", !.todo = Changes[t], !.saved = None])
  BY <1>1, <1>2, BeginStored
<1>3. CASE /\ disk' = disk /\ End(t)
           /\ IF cmd[t].kind = "apply"
              THEN mem' = PutBack(t, undone) /\ replanned' = replanned \cup Replanned(t, undone)
              ELSE mem' = undone /\ replanned' = replanned
  <2>1. PICK a : a = m
    OBVIOUS
  <2>2. PICK b : b = undone
    OBVIOUS
  <2>3. a = Capped(Begun(t)) /\ b = [a EXCEPT !.pending[t] = None]
    BY <2>1, <2>2
  <2>4. IF cmd[t].kind = "apply"
        THEN mem' = PutBack(t, b) /\ replanned' = replanned \cup Replanned(t, b)
        ELSE mem' = b /\ replanned' = replanned
    BY <1>3, <2>2
  <2> HIDE DEF m, undone
  <2> QED BY <1>1, <1>3, <2>3, <2>4, BeginFails
<1> HIDE DEF m, undone
<1> QED BY <1>1, <1>2, <1>3

-----------------------------------------------------------------------------
(* The end of an operation. *)

\* The record is dropped from memory and the status is s.
Dropped(t, s) == [mem EXCEPT !.tx[t].status = s, !.pending[t] = None]

LEMMA DroppedFields ==
  ASSUME TxInv, NEW t \in Txs, NEW s \in Statuses \cup {"new"}, NEW x, x = Dropped(t, s)
  PROVE  /\ Edited(x, t) /\ Known(x) = Known(mem) /\ ToSet(x.terminal) \subseteq Known(x)
         /\ x.tx[t].status = s /\ x.tx[t].old = mem.tx[t].old
         /\ x.plan = mem.plan /\ x.pending[t] = None
<1>0. Types /\ mem \in Mem /\ mem.tx[t] \in TxRecord /\ ToSet(mem.terminal) \subseteq Known(mem)
  BY Here DEF Types, TxInv
<1>1. PICK z : z = [mem.tx[t] EXCEPT !.status = s]
  OBVIOUS
<1>2. z \in TxRecord /\ z.status = s /\ z.old = mem.tx[t].old
  BY <1>0, <1>1 DEF TxRecord
<1>3. PICK tx : tx = [mem.tx EXCEPT ![t] = z]
  OBVIOUS
<1>4. PICK q : q = [mem.pending EXCEPT ![t] = None]
  OBVIOUS
<1>5. x = [mem EXCEPT !.tx = tx, !.pending = q]
  BY <1>0, <1>1, <1>3, <1>4 DEF Mem, Dropped
<1>6. /\ tx \in [Txs -> TxRecord] /\ tx[t] = z /\ \A u \in Txs \ {t} : tx[u] = mem.tx[u]
      /\ q \in [Txs -> RecordTypes \cup {None}] /\ q[t] = None /\ \A u \in Txs \ {t} : q[u] = mem.pending[u]
  BY <1>0, <1>2, <1>3, <1>4 DEF Mem
<1>7. /\ x \in Mem /\ x.repo = mem.repo /\ x.terminal = mem.terminal /\ x.plan = mem.plan
      /\ x.tx = tx /\ x.pending = q
  BY <1>0, <1>5, <1>6 DEF Mem
<1>8. Known(x) = Known(mem) /\ Edited(x, t)
  BY <1>6, <1>7 DEF Known, Edited
<1> QED BY <1>0, <1>2, <1>6, <1>7, <1>8

LEMMA CommitStored ==
  ASSUME TxInv, NEW t \in Txs, life = "up", cmd[t].at = "writing", cmd[t].todo = {},
         NEW done, done = Dropped(t, Result(t)),
         StoreOk(Capped(done)), mem' = Capped(done),
         undo' = [undo EXCEPT ![t] = Nothing], Goto(t, "finishing"), exposed' = exposed,
         files' = files, life' = life, replanned' = replanned
  PROVE  TxInv'
<1> DEFINE d == [cmd[t] EXCEPT !.at = "finishing"]
<1>0. /\ Types /\ cmd[t] \in Cmd /\ cmd \in [Txs -> Cmd] /\ undo \in [Txs -> Partial]
      /\ SoundAt(t, mem.tx[t], mem.plan[t], mem.pending[t], t \in Known(mem), t \in replanned)
      /\ Stage(t, cmd[t], mem.tx[t], mem.plan[t], mem.pending[t])
  BY Here DEF Types
<1>1. PICK s : s = Result(t)
  OBVIOUS
<1>2. s \in Statuses \cup {"new"} /\ (s = "applied" => cmd[t].kind = "apply")
  BY <1>1 DEF Result, Statuses
<1>3. /\ Edited(done, t) /\ Known(done) = Known(mem) /\ ToSet(done.terminal) \subseteq Known(done)
      /\ done.tx[t].status = s /\ done.tx[t].old = mem.tx[t].old
      /\ done.plan = mem.plan /\ done.pending[t] = None
  BY <1>1, <1>2, DroppedFields
<1>4. Lighter(done, mem') /\ Saves /\ Storable(mem')
  BY <1>3, CappedFields, StoreSaves DEF Edited
<1>5. SoundAt(t, done.tx[t], done.plan[t], done.pending[t], t \in Known(done), t \in replanned)
  BY <1>0, <1>2, <1>3 DEF SoundAt, Stage, Past
<1>6. d \in Cmd /\ d.at = "finishing" /\ d.todo = cmd[t].todo /\ d.seen = cmd[t].seen
  BY <1>0 DEF Cmd, Labels
<1> HIDE DEF d
<1>7. cmd' \in [Txs -> Cmd] /\ cmd'[t] = d /\ \A u \in Txs \ {t} : cmd'[u] = cmd[u]
  <2>1. Step(t, d)
    BY DEF d, Goto
  <2> QED BY <1>0, <1>6, <2>1, StepFields
<1>8. Stage(t, cmd[t], mem.tx[t], mem.plan[t], mem.pending[t])'
  BY <1>0, <1>6, <1>7 DEF Stage, InHand, Past, Restoring
<1>9. /\ undo' \in [Txs -> Partial] /\ undo'[t] = Nothing
      /\ \A u \in Txs \ {t} : undo'[u] = undo[u]
  BY <1>0, Absent
<1>10. Recorded(t)'
  <2>1. \A f \in Files : undo'[t][f] = None
    BY <1>9 DEF Nothing
  <2>2. mem'.pending[t] = None
    BY <1>3, <1>4 DEF Lighter
  <2> QED BY <2>1, <2>2 DEF Recorded
<1>11. (Locked(t)' => Locked(t)) /\ \A u \in Txs \ {t} : Continues(u)
  BY <1>7 DEF Locked, Continues
<1> QED BY <1>0, <1>3, <1>4, <1>5, <1>7, <1>8, <1>9, <1>10, <1>11, EditStep DEF Types

\* The memory in which the record is dropped and the status is the one the operation began with.
Withdrawn(t) == Dropped(t, cmd[t].from)

LEMMA WithdrawnFields ==
  ASSUME TxInv, NEW t \in Txs, cmd[t].at \in Past, NEW x, x = Withdrawn(t)
  PROVE  /\ Edited(x, t) /\ ToSet(x.terminal) \subseteq Known(x)
         /\ x.tx[t].status = mem.tx[t].status /\ x.tx[t].old = mem.tx[t].old
         /\ x.plan = mem.plan /\ x.pending[t] = None
         /\ SoundAt(t, x.tx[t], x.plan[t], x.pending[t], t \in Known(x), t \in replanned)
<1>0. /\ cmd[t] \in Cmd /\ mem.tx[t] \in TxRecord
      /\ SoundAt(t, mem.tx[t], mem.plan[t], mem.pending[t], t \in Known(mem), t \in replanned)
      /\ Stage(t, cmd[t], mem.tx[t], mem.plan[t], mem.pending[t])
  BY Here
<1>1. PICK s : s = cmd[t].from
  OBVIOUS
<1>2. s \in Statuses \cup {"new"} /\ s = mem.tx[t].status
  BY <1>0, <1>1 DEF Stage, TxRecord
<1>3. x = Dropped(t, s)
  BY <1>1 DEF Withdrawn
<1>4. /\ Edited(x, t) /\ Known(x) = Known(mem) /\ ToSet(x.terminal) \subseteq Known(x)
      /\ x.tx[t].status = s /\ x.tx[t].old = mem.tx[t].old
      /\ x.plan = mem.plan /\ x.pending[t] = None
  BY <1>2, <1>3, DroppedFields
<1>5. SoundAt(t, x.tx[t], x.plan[t], x.pending[t], t \in Known(x), t \in replanned)
  BY <1>0, <1>2, <1>4 DEF SoundAt
<1> QED BY <1>2, <1>4, <1>5

LEMMA CommitFails ==
  ASSUME TxInv, NEW t \in Txs, life = "up", cmd[t].at = "writing", cmd[t].todo = {},
         mem' = Withdrawn(t), disk' = disk, undo' = undo, Goto(t, "restoring"), exposed' = exposed \cup {t},
         files' = files, life' = life, replanned' = replanned
  PROVE  TxInv'
<1> DEFINE d == [cmd[t] EXCEPT !.at = "restoring"]
<1>0. /\ Types /\ cmd[t] \in Cmd /\ cmd \in [Txs -> Cmd]
      /\ Stage(t, cmd[t], mem.tx[t], mem.plan[t], mem.pending[t])
  BY Here DEF Types
<1>1. PICK x : x = Withdrawn(t)
  OBVIOUS
<1>2. /\ Edited(x, t) /\ ToSet(x.terminal) \subseteq Known(x)
      /\ x.tx[t].status = mem.tx[t].status
      /\ x.plan = mem.plan /\ x.pending[t] = None
      /\ SoundAt(t, x.tx[t], x.plan[t], x.pending[t], t \in Known(x), t \in replanned)
  BY <1>1, WithdrawnFields DEF Past
<1>3. Lighter(x, mem') /\ Spares(x, mem') /\ mem' = x
  BY <1>1, <1>2 DEF Lighter, Spares, Edited
<1>4. /\ d \in Cmd /\ d.at = "restoring" /\ d.todo = cmd[t].todo /\ d.kind = cmd[t].kind
      /\ d.from = cmd[t].from /\ d.read = cmd[t].read /\ d.seen = cmd[t].seen
  BY <1>0 DEF Cmd, Labels, Past, Restoring
<1> HIDE DEF d
<1>5. cmd' \in [Txs -> Cmd] /\ cmd'[t] = d /\ \A u \in Txs \ {t} : cmd'[u] = cmd[u]
  <2>1. Step(t, d)
    BY DEF d, Goto
  <2> QED BY <1>0, <1>4, <2>1, StepFields
<1>6. Stage(t, cmd[t], mem.tx[t], mem.plan[t], mem.pending[t])'
  BY <1>0, <1>2, <1>3, <1>4, <1>5 DEF Stage, InHand, Past, Restoring
<1>7. Recorded(t)'
  BY <1>2, <1>3 DEF Recorded
<1>8. (Locked(t)' => Locked(t)) /\ \A u \in Txs \ {t} : Continues(u)
  BY <1>5 DEF Locked, Continues
<1>9. Saves /\ exposed' \subseteq Txs /\ undo' \in [Txs -> Partial]
  BY <1>0 DEF Saves, Types
<1> QED BY <1>0, <1>2, <1>3, <1>5, <1>6, <1>7, <1>8, <1>9, EditStep DEF Types

LEMMA CommitKeeps ==
  ASSUME TxInv, NEW t \in Txs, Commit(t)
  PROVE  TxInv'
<1>1. PICK done : done = Dropped(t, Result(t))
  OBVIOUS
<1>2. /\ life = "up" /\ cmd[t].at = "writing" /\ cmd[t].todo = {} /\ files' = files /\ life' = life 
      /\ replanned' = replanned
      /\ \/ /\ StoreOk(Capped(done)) /\ mem' = Capped(done)
            /\ undo' = [undo EXCEPT ![t] = Nothing] /\ Goto(t, "finishing") /\ exposed' = exposed
         \/ /\ StoreFails(done)
            /\ mem' = [mem EXCEPT !.pending[t] = None, !.tx[t].status = cmd[t].from]
            /\ Goto(t, "restoring") /\ exposed' = exposed \cup {t} /\ undo' = undo
  BY <1>1 DEF Commit, Dropped
<1>3. [mem EXCEPT !.pending[t] = None, !.tx[t].status = cmd[t].from] = Withdrawn(t)
  BY DEF Withdrawn, Dropped, TxInv, Types, Mem
<1>4. StoreFails(done) => disk' = disk
  BY DEF StoreFails
<1> QED BY <1>1, <1>2, <1>3, <1>4, CommitStored, CommitFails

LEMMA FinishKeeps ==
  ASSUME TxInv, NEW t \in Txs, Finish(t)
  PROVE  TxInv'
<1>0. Types /\ mem \in Mem /\ ToSet(mem.terminal) \subseteq Known(mem)
  BY DEF TxInv, Types
<1>1. PICK r : r = RetainTerminal(mem, t)
  OBVIOUS
<1>2. /\ mem' = Capped(r) /\ (StoreOk(mem') \/ StoreFails(mem'))
      /\ replanned' = replanned \cup {u \in Known(mem) \ Known(mem') : mem.pending[u] # None}
      /\ End(t) /\ files' = files /\ life' = life /\ undo' = undo /\ exposed' = exposed
  BY <1>1 DEF Finish
<1>3. Lighter(mem, r)
  BY <1>0, <1>1, RetainFields
<1>4. Lighter(mem, mem')
  BY <1>2, <1>3, CappedFields, LighterTwice DEF Lighter
<1>5. Saves
  BY <1>2 DEF StoreOk, StoreFails, Saves
<1>6. ToSet(mem.repo) \subseteq Txs
  BY <1>0, ElementOfSeq DEF ToSet, Mem
<1>7. replanned' \subseteq Txs /\ Forgets
  BY <1>0, <1>2, <1>6 DEF Types, Forgets, Known
<1>8. cmd' \in [Txs -> Cmd] /\ cmd'[t] = Idle /\ \A u \in Txs \ {t} : cmd'[u] = cmd[u]
  BY <1>0, <1>2, IdleIsCommand, StepFields DEF End, Types
<1>9. ASSUME NEW u \in Txs PROVE Spared(u)
  <2>1. PlanFor(u, mem.plan[u])
    BY DEF TxInv, Local, SoundAt
  <2>2. mem'.tx[u] = mem.tx[u] /\ mem'.pending[u] = mem.pending[u] /\ (u \in Known(mem') => u \in Known(mem))
    BY <1>4 DEF Lighter
  <2>3. \/ mem'.plan[u] = mem.plan[u]
        \/ mem'.plan[u] = None /\ u \in Known(mem) /\ u \notin Known(mem')
    BY <1>4 DEF Lighter
  <2>4. u \in replanned' \/ mem'.plan[u] = mem.plan[u] \/ (mem'.plan[u] = None /\ mem.pending[u] = None)
    BY <1>2, <2>3
  <2> QED BY <2>1, <2>2, <2>3, <2>4 DEF Spared, PlanFor
<1>10. \A u \in Txs : Elsewhere(u)
  BY <1>0, <1>2, <1>8, <1>9 DEF Elsewhere, Continues, Types
<1>11. disk' \in Disk /\ mem' \in Mem /\ ToSet(mem'.terminal) \subseteq Known(mem')
  BY <1>0, <1>4, <1>5 DEF Saves, Stored, Lighter, Types, Mem, Disk
<1>12. Types'
  BY <1>0, <1>2, <1>7, <1>8, <1>11 DEF Types
<1>13. {} \in SUBSET Txs /\ \A u \in Txs \ {} : Elsewhere(u)
  BY <1>10
<1> HIDE DEF Elsewhere
<1> QED BY <1>5, <1>7, <1>11, <1>12, <1>13, StepKeeps

LEMMA RestoredKeeps ==
  ASSUME TxInv, NEW t \in Txs, Restored(t)
  PROVE  TxInv'
<1>0. /\ Types /\ cmd[t] \in Cmd /\ cmd \in [Txs -> Cmd] /\ undo \in [Txs -> Partial]
      /\ Stage(t, cmd[t], mem.tx[t], mem.plan[t], mem.pending[t])
      /\ Recorded(t)
  BY Here DEF Types
<1>1. PICK x : x = Withdrawn(t)
  OBVIOUS
<1>2. /\ cmd[t].at = "rewriting" /\ mem' = Capped(x)
      /\ \/ StoreOk(mem') /\ End(t) /\ life' = life
         \/ StoreFails(mem') /\ GiveUp(t)
      /\ undo' = [undo EXCEPT ![t] = [f \in Files |-> IF @[f] = cmd[t].read[f] THEN None ELSE @[f]]]
      /\ files' = files /\ exposed' = exposed /\ replanned' = replanned
  BY <1>1 DEF Restored, Withdrawn, Dropped
<1>3. /\ Edited(x, t) /\ ToSet(x.terminal) \subseteq Known(x) /\ x.pending[t] = None
      /\ SoundAt(t, x.tx[t], x.plan[t], x.pending[t], t \in Known(x), t \in replanned)
  BY <1>1, <1>2, WithdrawnFields DEF Past, Restoring
<1>4. Lighter(x, mem') /\ Spares(x, mem')
  BY <1>2, <1>3, CappedFields DEF Edited
<1>5. Saves
  BY <1>2 DEF StoreOk, StoreFails, Saves
<1>6. /\ cmd' \in [Txs -> Cmd] /\ cmd'[t] = Idle /\ life' \in {"up", "recovering", "down"}
      /\ \A u \in Txs \ {t} : Continues(u)
  <2>1. CASE End(t) /\ life' = life
    <3>1. cmd' \in [Txs -> Cmd] /\ cmd'[t] = Idle /\ \A u \in Txs \ {t} : cmd'[u] = cmd[u]
      BY <1>0, <2>1, IdleIsCommand, StepFields DEF End
    <3> QED BY <1>0, <2>1, <3>1 DEF Continues, Types
  <2>2. CASE cmd' = [u \in Txs |-> Idle] /\ life' = "down"
    BY <2>2, IdleIsCommand DEF Continues
  <2> QED BY <1>2, <2>1, <2>2 DEF GiveUp
<1>7. Stage(t, cmd[t], mem.tx[t], mem.plan[t], mem.pending[t])'
  BY <1>6, IdleIsFine
<1>8. /\ undo' \in [Txs -> Partial] /\ \A u \in Txs \ {t} : undo'[u] = undo[u]
      /\ \A f \in Files : undo'[t][f] = IF undo[t][f] = cmd[t].read[f] THEN None ELSE undo[t][f]
  <2>1. PICK w : w = [f \in Files |-> IF undo[t][f] = cmd[t].read[f] THEN None ELSE undo[t][f]]
    OBVIOUS
  <2>2. w \in Partial
    BY <1>0, <2>1 DEF Partial
  <2>3. undo' = [undo EXCEPT ![t] = w]
    BY <1>0, <1>2, <2>1
  <2> QED BY <1>0, <2>1, <2>2, <2>3
<1>9. Recorded(t)'
  <2>1. t \in exposed \cup replanned \/ \A f \in Files : undo[t][f] # None => undo[t][f] = cmd[t].read[f]
    BY <1>0, <1>2 DEF Stage, Restoring, Recorded
  <2>2. t \in exposed' \cup replanned' \/ \A f \in Files : undo'[t][f] = None
    BY <1>2, <1>8, <2>1
  <2>3. mem'.pending[t] = None
    BY <1>3, <1>4 DEF Lighter
  <2> QED BY <2>2, <2>3 DEF Recorded
<1>10. Locked(t)' => Locked(t)
  BY <1>6 DEF Locked, Idle
<1>11. exposed \subseteq exposed' /\ exposed' \subseteq Txs
  BY <1>0, <1>2 DEF Types
<1> QED BY <1>2, <1>3, <1>4, <1>5, <1>6, <1>7, <1>8, <1>9, <1>10, <1>11, EditStep

LEMMA RestartKeeps ==
  ASSUME TxInv, Restart
  PROVE  TxInv'
<1> DEFINE ended == {t \in Txs : disk.tx[t].status \in Terminal}
           k == Kept(disk.repo, ended)
<1>0. Types /\ disk \in Disk
  BY DEF TxInv, Types
<1>1. /\ life = "down" /\ life' = "recovering" /\ files' = files /\ disk' = disk /\ cmd' = cmd
      /\ undo' = undo /\ exposed' = exposed /\ replanned' = replanned
      /\ mem' = [repo |-> disk.repo, tx |-> disk.tx, plan |-> disk.plan, pending |-> disk.pending, terminal |-> k]
  BY DEF Restart, History
<1>2. disk.repo \in Seq(Txs)
  BY <1>0 DEF Disk
<1>3. k \in Seq(Txs) /\ \A x \in Txs : (\E i \in DOMAIN k : k[i] = x) => \E i \in DOMAIN disk.repo : disk.repo[i] = x
  <2>1. PICK q \in Seq(Txs) : q = disk.repo
    BY <1>2
  <2>2. PICK e : e = ended
    OBVIOUS
  <2>3. /\ Kept(q, e) \in Seq(Txs)
        /\ \A x \in Txs : (\E i \in DOMAIN Kept(q, e) : Kept(q, e)[i] = x) => \E i \in DOMAIN q : q[i] = x
    BY KeptElements
  <2>4. k = Kept(q, e)
    BY <2>1, <2>2
  <2> HIDE DEF k
  <2> QED BY <2>1, <2>3, <2>4
<1> HIDE DEF k
<1>4. /\ mem'.repo = disk.repo /\ mem'.tx = disk.tx /\ mem'.plan = disk.plan
      /\ mem'.pending = disk.pending /\ mem'.terminal = k
  BY <1>1
<1>5. mem' \in Mem
  BY <1>0, <1>1, <1>3 DEF Disk, Mem
<1>6. Known(mem') = Known(disk)
  BY <1>4 DEF Known
<1>7. ToSet(mem'.terminal) \subseteq Known(mem')
  <2>1. ASSUME NEW i \in DOMAIN k PROVE k[i] \in ToSet(disk.repo)
    <3>1. k[i] \in Txs
      BY <1>3, ElementOfSeq
    <3> QED BY <1>3, <3>1 DEF ToSet
  <2>2. ToSet(k) \subseteq ToSet(disk.repo)
    BY <2>1 DEF ToSet
  <2> QED BY <1>4, <1>6, <2>2 DEF Known
<1>8. ASSUME NEW u \in Txs PROVE Local(u)' /\ ~Locked(u)'
  <2>1. /\ SoundAt(u, disk.tx[u], disk.plan[u], disk.pending[u], u \in Known(disk), u \in replanned)
        /\ Stage(u, cmd[u], mem.tx[u], mem.plan[u], mem.pending[u])
        /\ Recorded(u)
    BY DEF TxInv, Local
  <2>2. SoundAt(u, mem'.tx[u], mem'.plan[u], mem'.pending[u], u \in Known(mem'), u \in replanned')
    BY <1>1, <1>4, <1>6, <2>1
  <2>3. SoundAt(u, disk'.tx[u], disk'.plan[u], disk'.pending[u], u \in Known(disk'), u \in replanned')
    BY <1>1, <2>1
  <2>4. Stage(u, cmd[u], mem.tx[u], mem.plan[u], mem.pending[u])'
    BY <1>1, <2>1 DEF Stage, InHand, Past, Restoring
  <2>5. Recorded(u)'
    BY <1>1, <1>4, <2>1 DEF Recorded
  <2> QED BY <1>1, <2>2, <2>3, <2>4, <2>5 DEF Local, Locked
<1>9. Types' /\ Storable(disk)' /\ Apart'
  BY <1>0, <1>1, <1>5, <1>8 DEF Types, TxInv, Storable, Known, Apart
<1>10. ToSet(mem.terminal)' \subseteq Known(mem)'
  BY <1>7 DEF Known
<1> QED BY <1>8, <1>9, <1>10 DEF TxInv

-----------------------------------------------------------------------------
(* The theorems. *)

LEMMA TxInit == Init => TxInv
<1> SUFFICES ASSUME Init PROVE TxInv
  OBVIOUS
<1>1. PICK x : x = [t \in Txs |-> [status |-> "new", old |-> Nothing]]
  OBVIOUS
<1>2. x \in [Txs -> TxRecord] /\ \A t \in Txs : x[t].status = "new"
  BY <1>1, Absent DEF TxRecord
<1>3. PICK n : n = [t \in Txs |-> None]
  OBVIOUS
<1>4. n \in PlanMap /\ n \in [Txs -> RecordTypes \cup {None}] /\ \A t \in Txs : n[t] = None
  BY <1>3 DEF PlanMap
<1>5. <<>> \in Seq(Txs) /\ ToSet(<<>>) = {}
  BY EmptySeq DEF ToSet
<1>6. mem = [repo |-> <<>>, terminal |-> <<>>, tx |-> x, plan |-> n, pending |-> n]
  BY <1>1, <1>3 DEF Init
<1>7. disk = [repo |-> <<>>, tx |-> x, plan |-> n, pending |-> n]
  BY <1>6 DEF Init
<1>8. /\ mem \in Mem /\ mem.repo = <<>> /\ mem.terminal = <<>> /\ mem.tx = x /\ mem.plan = n /\ mem.pending = n
      /\ disk \in Disk /\ disk.repo = <<>> /\ disk.tx = x /\ disk.plan = n /\ disk.pending = n
  BY <1>2, <1>4, <1>5, <1>6, <1>7 DEF Mem, Disk
<1>9. /\ files \in [Files -> Contents] /\ cmd \in [Txs -> Cmd] /\ undo \in [Txs -> Partial]
      /\ life = "up" /\ exposed = {} /\ replanned = {}
      /\ \A u \in Txs : cmd[u] = Idle /\ undo[u] = Nothing
  BY IdleIsCommand, Absent DEF Init, Contents
<1>10. Types
  BY <1>8, <1>9 DEF Types
<1>11. ASSUME NEW u \in Txs PROVE Local(u)
  <2>1. SoundAt(u, mem.tx[u], mem.plan[u], mem.pending[u], u \in Known(mem), u \in replanned)
    BY <1>2, <1>4, <1>8 DEF SoundAt, PlanFor
  <2>2. SoundAt(u, disk.tx[u], disk.plan[u], disk.pending[u], u \in Known(disk), u \in replanned)
    BY <1>2, <1>4, <1>8 DEF SoundAt, PlanFor
  <2>3. Stage(u, cmd[u], mem.tx[u], mem.plan[u], mem.pending[u])
    BY <1>9 DEF Stage, InHand, Nothing, Idle, Past, Restoring
  <2>4. Recorded(u)
    BY <1>4, <1>8, <1>9 DEF Recorded, Nothing
  <2> QED BY <2>1, <2>2, <2>3, <2>4 DEF Local
<1>12. Storable(disk) /\ Apart /\ ToSet(mem.terminal) \subseteq Known(mem)
  BY <1>4, <1>5, <1>8, <1>9 DEF Storable, Apart, Locked, Idle
<1> QED BY <1>10, <1>11, <1>12 DEF TxInv

LEMMA TxStep == TxInv /\ [Next]_vars => TxInv'
<1> SUFFICES ASSUME TxInv, [Next]_vars PROVE TxInv'
  OBVIOUS
<1>1. CASE UNCHANGED vars
  <2>1. Still /\ cmd' = cmd /\ life' = life
    BY <1>1 DEF vars, Still
  <2>2. Saves /\ Forgets /\ ToSet(mem'.terminal) \subseteq Known(mem') /\ \A u \in Txs : Spared(u)
    BY <2>1, StillIsFine
  <2>3. Types'
    BY <2>1 DEF TxInv, Types, Still
  <2>4. \A u \in Txs : Elsewhere(u)
    BY <2>1, <2>2 DEF Elsewhere, Continues, Still
  <2>5. {} \in SUBSET Txs /\ \A u \in Txs \ {} : Elsewhere(u)
    BY <2>4
  <2> HIDE DEF Elsewhere
  <2> QED BY <2>2, <2>3, <2>5, StepKeeps
<1>2. CASE Creation
  BY <1>2, RestartKeeps, RecoveredKeeps, RecoverKeeps DEF Creation
<1>3. CASE Environment
  BY <1>3, CrashKeeps, EditKeeps DEF Environment
<1>4. ASSUME NEW t \in Txs, Request(t) PROVE TxInv'
  BY <1>4, PrepareKeeps, AmendKeeps, DiscardKeeps, RollbackKeeps, ValidateKeeps DEF Request
<1>5. ASSUME NEW t \in Txs, Command(t) PROVE TxInv'
  <2>1. CASE Restore(t)
    BY <2>1, CheckRestoreKeeps, RestoredKeeps, CheckRewriteKeeps, RewriteKeeps, RewriteFailsKeeps DEF Restore
  <2>2. CASE (\E f \in Files : CheckWrite(t, f) \/ Write(t, f)) \/ WriteFails(t)
    BY <2>2, CheckWriteKeeps, WriteKeeps, WriteFailsKeeps
  <2>3. CASE PublishPrepared(t) \/ Validated(t) \/ Lock(t) \/ Refuse(t) \/ BeginDurable(t) \/ Commit(t) \/ Finish(t)
    BY <2>3, PublishPreparedKeeps, ValidatedKeeps, LockKeeps, RefuseKeeps, BeginDurableKeeps, CommitKeeps, FinishKeeps
  <2> QED BY <1>5, <2>1, <2>2, <2>3 DEF Command
<1> QED BY <1>1, <1>2, <1>3, <1>4, <1>5 DEF Next

\* The invariant on which the other theorems rest: what recovery and rollback will read is
\* complete in memory and on disk, and every command finds after each of its awaits what
\* beginDurableOperation and restoreDurableOperation took for granted before it.
THEOREM TransactionsInvariant == Spec => []TxInv
<1>1. Init => TxInv
  BY TxInit
<1>2. TxInv /\ [Next]_vars => TxInv'
  BY TxStep
<1> QED BY <1>1, <1>2, PTL DEF Spec

\* The types, and that between the write-ahead store and the commit the record is kept, for
\* which the snapshot check (assertTransactionStateSnapshot) and the path locks suffice.
THEOREM TransactionsSound == Spec => []TransactionInv
<1>1. TxInv => TransactionInv
  <2> SUFFICES ASSUME TxInv PROVE TransactionInv
    OBVIOUS
  <2>1. Types /\ Apart /\ Storable(disk)
    BY DEF TxInv
  <2>2. ASSUME NEW t \in Txs
        PROVE  /\ mem.pending[t] \in RecordTypes \cup {None} /\ disk.pending[t] \in RecordTypes \cup {None}
               /\ mem.tx[t].status \in Statuses \cup {"new"}
               /\ undo[t] \in [Files -> Contents \cup {None}]
    BY <2>1, Here DEF Types, Disk, TxRecord, Partial
  <2>3. ASSUME NEW t \in Txs
        PROVE  /\ cmd[t].todo \subseteq Changes[t]
               /\ cmd[t].at = "writing" => mem.pending[t] # None /\ mem.pending[t].read = cmd[t].read
    BY Here DEF Stage
  <2>4. Storable([mem EXCEPT !.repo = disk.repo, !.tx = disk.tx, !.pending = disk.pending])
    <3>1. PICK n : n = [mem EXCEPT !.repo = disk.repo, !.tx = disk.tx, !.pending = disk.pending]
      OBVIOUS
    <3>2. n.repo = disk.repo /\ n.tx = disk.tx /\ n.pending = disk.pending
      BY <2>1, <3>1 DEF Types, Mem
    <3> QED BY <2>1, <3>1, <3>2 DEF Storable, Known
  <2>5. \A t, u \in Txs : t # u /\ Locked(t) /\ Locked(u) => Changes[t] \cap Changes[u] = {}
    BY <2>1 DEF Apart
  <2> QED BY <2>1, <2>2, <2>3, <2>4, <2>5 DEF TransactionInv, Types
<1> QED BY <1>1, TransactionsInvariant, PTL

\* All or nothing across a crash: a file that an unfinished operation has written can be put
\* back from the record in the state file, whenever the process dies, to what was in it when
\* its bytes were last compared, but for the transactions whose record was given up or
\* overwritten (exposed) or whose byte plan another command replaced (replanned).
THEOREM RecoverableFromDisk == Spec => []AllOrNothingUnlessExposed
<1>1. TxInv => AllOrNothingUnlessExposed
  <2> SUFFICES ASSUME TxInv, NEW t \in Txs \ (exposed \cup replanned) PROVE Recoverable(t)
    BY DEF AllOrNothingUnlessExposed
  <2>1. Recorded(t)
    BY DEF TxInv, Local
  <2> QED BY <2>1 DEF Recorded, Recoverable
<1> QED BY <1>1, TransactionsInvariant, PTL

\* A step that changes the files is Edit, Write or Rewrite.
LEMMA WhoWrites ==
  ASSUME Next, NEW f \in Files, files'[f] # files[f]
  PROVE  \/ \E g \in Files : Edit(g)
         \/ \E t \in Txs, g \in Files : Write(t, g) \/ Rewrite(t, g)
<1>1. ASSUME NEW t \in Txs, Command(t) PROVE (\E g \in Files : Write(t, g) \/ Rewrite(t, g)) \/ files' = files
  BY <1>1 DEF Command, Restore, PublishPrepared, Validated, Lock, Refuse, BeginDurable, CheckWrite, WriteFails,
              Commit, Finish, CheckRestore, CheckRewrite, Restored, RewriteFails
<1>2. ASSUME NEW t \in Txs, Request(t) PROVE files' = files
  BY <1>2 DEF Request, Prepare, Amend, Discard, Rollback, Validate
<1>3. Creation \/ Crash => files' = files
  BY DEF Creation, Restart, Recovered, Recover, Crash
<1> QED BY <1>1, <1>2, <1>3 DEF Next, Environment

\* An edit that somebody else has made is overwritten by writePatch, removePatch or the
\* restoring only when this command had read it before, or when it came after the last
\* comparison, while the rename or the rm was awaited: what was compared is what the command
\* has read or has written itself.
THEOREM EditsFromOutsideAreKept == Spec => OutsideEditsKept
<1> DEFINE A == \A f \in Files : files[f] = External /\ files'[f] # External =>
                  \E t \in Txs : /\ cmd[t].at \in {"writing", "rewriting"}
                                 /\ \/ t \in replanned \/ External \in {cmd[t].read[f], cmd[t].own[f]}
                                    \/ cmd[t].seen[f] \notin {External, None}
<1>1. TxInv /\ [Next]_vars => A
  <2> SUFFICES ASSUME TxInv, [Next]_vars, NEW f \in Files, files[f] = External, files'[f] # External
               PROVE  \E t \in Txs : /\ cmd[t].at \in {"writing", "rewriting"}
                                     /\ \/ t \in replanned \/ External \in {cmd[t].read[f], cmd[t].own[f]}
                                        \/ cmd[t].seen[f] \notin {External, None}
    OBVIOUS
  <2>0. files \in [Files -> Contents] /\ files'[f] # files[f]
    BY DEF TxInv, Types
  <2>1. Next
    BY <2>0 DEF vars
  <2>2. ASSUME NEW g \in Files PROVE ~Edit(g)
    BY <2>0 DEF Edit
  <2>3. PICK t \in Txs, g \in Files : Write(t, g) \/ Rewrite(t, g)
    BY <2>0, <2>1, <2>2, WhoWrites
  <2>4. InHand(t, cmd[t])
    BY Here DEF Stage
  <2>5. CASE Write(t, g)
    <3>1. cmd[t].at = "writing" /\ g = f /\ cmd[t].seen[f] # None
      BY <2>0, <2>5 DEF Write
    <3>2. ASSUME t \notin replanned, cmd[t].seen[f] = External PROVE External = cmd[t].read[f]
      BY <2>4, <3>1, <3>2 DEF InHand
    <3> QED BY <3>1, <3>2
  <2>6. CASE Rewrite(t, g)
    <3>1. cmd[t].at = "rewriting" /\ g = f /\ cmd[t].seen[f] # None
      BY <2>0, <2>6 DEF Rewrite
    <3>2. cmd[t].seen[f] = External => External = cmd[t].own[f]
      BY <2>4, <3>1 DEF InHand
    <3> QED BY <3>1, <3>2
  <2> QED BY <2>3, <2>5, <2>6
<1>2. TxInv /\ [Next]_vars => [A]_vars
  BY <1>1
<1>3. Spec => [][A]_vars
  BY <1>2, TransactionsInvariant, PTL DEF Spec
<1> QED BY <1>3 DEF OutsideEditsKept

\* A memory has these fields.
Shaped(m) == m = [repo |-> m.repo, terminal |-> m.terminal, tx |-> m.tx, plan |-> m.plan, pending |-> m.pending]

LEMMA EvictStatus ==
  ASSUME NEW m, Shaped(m), NEW S
  PROVE  Shaped(Evict(m, S)) /\ Evict(m, S).tx = m.tx
<1>1. PICK a : a = Without(m.repo, S)
  OBVIOUS
<1>2. PICK b : b = Without(m.terminal, S)
  OBVIOUS
<1>3. PICK p : p = [t \in Txs |-> IF t \in S THEN None ELSE m.plan[t]]
  OBVIOUS
<1>4. m = [repo |-> m.repo, terminal |-> m.terminal, tx |-> m.tx, plan |-> m.plan, pending |-> m.pending]
  BY DEF Shaped
<1>5. Evict(m, S) = [m EXCEPT !.repo = a, !.terminal = b, !.plan = p]
  BY <1>1, <1>2, <1>3, <1>4 DEF Evict
<1>6. Evict(m, S) = [repo |-> a, terminal |-> b, tx |-> m.tx, plan |-> p, pending |-> m.pending]
  BY <1>4, <1>5
<1> QED BY <1>6 DEF Shaped

LEMMA CappedStatus ==
  ASSUME NEW m, Shaped(m)
  PROVE  Capped(m).tx = m.tx
BY EvictStatus DEF Capped

\* What a command of u makes of the status of t.
Keeps(t) == mem'.tx[t].status = mem.tx[t].status
Ends(t, status) == mem'.tx[t].status = status

LEMMA RequestStatus ==
  ASSUME TxInv, NEW t \in Txs, NEW u \in Txs, Request(u)
  PROVE  Keeps(t) \/ Ends(t, "prepared")
<1>0. mem \in Mem /\ \A v \in Txs : mem.tx[v] \in TxRecord
  BY DEF TxInv, Types, Mem
<1>1. CASE Amend(u)
  <2>1. PICK x : x = [mem EXCEPT !.tx[u].status = "prepared", !.plan[u] = None]
    OBVIOUS
  <2>2. Shaped(x) /\ x.tx = [mem.tx EXCEPT ![u].status = "prepared"]
    BY <1>0, <2>1 DEF Mem, Shaped
  <2>3. mem'.tx = x.tx
    BY <1>1, <2>1, <2>2, CappedStatus DEF Amend
  <2> QED BY <1>0, <2>2, <2>3 DEF Keeps, Ends, Mem, TxRecord
<1>2. CASE Discard(u)
  <2>1. Shaped(mem)
    BY <1>0 DEF Mem, Shaped
  <2>2. mem'.tx = mem.tx
    BY <1>2, <2>1, EvictStatus, CappedStatus DEF Discard
  <2> QED BY <2>2 DEF Keeps
<1>3. CASE Prepare(u) \/ Rollback(u) \/ \E kind \in {"validate", "apply"} : Validate(u, kind)
  BY <1>3 DEF Prepare, Rollback, Validate, Keeps
<1> QED BY <1>1, <1>2, <1>3 DEF Request

LEMMA PublishStatus ==
  ASSUME TxInv, NEW t \in Txs, NEW u \in Txs, PublishPrepared(u)
  PROVE  Keeps(t) \/ Ends(t, "prepared")
<1>0. mem \in Mem /\ \A v \in Txs : mem.tx[v] \in TxRecord
  BY DEF TxInv, Types, Mem
<1> DEFINE all == Append(mem.repo, u)
           over == IF Len(all) > MaxTransactions THEN {Head(all)} ELSE {}
           x == [mem EXCEPT !.repo = all, !.tx[u].status = "prepared"]
<1>1. \/ mem' = Capped(Evict(x, over))
      \/ mem' = [mem EXCEPT !.repo = cmd[u].saved.repo, !.terminal = cmd[u].saved.terminal,
                            !.plan = cmd[u].saved.plan]
  BY DEF PublishPrepared
<1>2. Shaped(x) /\ x.tx = [mem.tx EXCEPT ![u].status = "prepared"]
  <2>1. PICK a : a = all
    OBVIOUS
  <2>2. PICK y : y = [mem EXCEPT !.tx[u].status = "prepared"]
    OBVIOUS
  <2>3. Shaped(y) /\ y.tx = [mem.tx EXCEPT ![u].status = "prepared"]
    BY <1>0, <2>2 DEF Mem, Shaped
  <2>4. x = [y EXCEPT !.repo = a]
    BY <1>0, <2>1, <2>2 DEF Mem
  <2> HIDE DEF x
  <2>5. Shaped(x) /\ x.tx = y.tx
    BY <2>3, <2>4 DEF Shaped
  <2> QED BY <2>3, <2>5
<1> HIDE DEF x, over
<1>3. CASE mem' = Capped(Evict(x, over))
  <2>1. mem'.tx = x.tx
    BY <1>2, <1>3, EvictStatus, CappedStatus
  <2> QED BY <1>0, <1>2, <2>1 DEF Keeps, Ends, Mem, TxRecord
<1>4. CASE mem' = [mem EXCEPT !.repo = cmd[u].saved.repo, !.terminal = cmd[u].saved.terminal,
                              !.plan = cmd[u].saved.plan]
  BY <1>0, <1>4 DEF Keeps, Mem
<1> QED BY <1>1, <1>3, <1>4

LEMMA ValidatedStatus ==
  ASSUME TxInv, NEW t \in Txs, NEW u \in Txs, Validated(u)
  PROVE  Keeps(t) \/ Ends(t, "validated")
<1>0. mem \in Mem /\ \A v \in Txs : mem.tx[v] \in TxRecord
  BY DEF TxInv, Types, Mem
<1> DEFINE x == [mem EXCEPT !.tx[u].status = IF @ = "prepared" THEN "validated" ELSE @]
<1>1. mem' = mem \/ mem' = Capped(x) \/ mem' = Capped(mem)
  BY DEF Validated
<1>2. PICK s : s = IF mem.tx[u].status = "prepared" THEN "validated" ELSE mem.tx[u].status
  OBVIOUS
<1>3. x = [mem EXCEPT !.tx[u].status = s]
  BY <1>0, <1>2 DEF Mem, TxRecord
<1> HIDE DEF x
<1>4. Shaped(x) /\ Shaped(mem) /\ x.tx = [mem.tx EXCEPT ![u].status = s]
  BY <1>0, <1>3 DEF Mem, Shaped
<1>5. mem'.tx \in {mem.tx, x.tx}
  BY <1>1, <1>4, CappedStatus
<1> QED BY <1>0, <1>2, <1>4, <1>5 DEF Keeps, Ends, Mem, TxRecord

\* Putting a transaction back does not change a status: nobody else has changed that one.
LEMMA PutBackStatus ==
  ASSUME TxInv, NEW t \in Txs, NEW u \in Txs, cmd[u].at = "reading", NEW m, Shaped(m),
         m.tx \in [Txs -> TxRecord], m.tx[t].status = mem.tx[t].status, mem' = PutBack(u, m)
  PROVE  Keeps(t)
<1>1. Stage(u, cmd[u], mem.tx[u], mem.plan[u], mem.pending[u])
  BY Here
<1>2. PICK s : s = cmd[u].saved
  OBVIOUS
<1>3. s.tx = mem.tx[u]
  BY <1>1, <1>2 DEF Stage
<1>4. mem'.tx = [m.tx EXCEPT ![u] = s.tx]
  BY <1>2 DEF PutBack, Shaped
<1> QED BY <1>3, <1>4 DEF Keeps

LEMMA BeginStatus ==
  ASSUME TxInv, NEW t \in Txs, NEW u \in Txs, BeginDurable(u)
  PROVE  Keeps(t)
<1>1. PICK x : x = Begun(u)
  OBVIOUS
<1>2. PICK m : m = Capped(x)
  OBVIOUS
<1>3. PICK undone : undone = [m EXCEPT !.pending[u] = None]
  OBVIOUS
<1>4. cmd[u].at = "reading" /\ (mem' = m \/ mem' = PutBack(u, undone) \/ mem' = undone)
  BY <1>1, <1>2, <1>3 DEF BeginDurable, Begun, Planned
<1>5. Edited(x, u) /\ x.tx[u].status = mem.tx[u].status
  BY <1>1, <1>4, BegunFields
<1>6. x \in Mem /\ x.tx[t].status = mem.tx[t].status
  BY <1>5 DEF Edited
<1>7. m \in Mem /\ m.tx = x.tx
  BY <1>2, <1>6, CappedFields DEF Lighter
<1>8. Shaped(undone) /\ undone.tx = x.tx
  BY <1>3, <1>7 DEF Mem, Shaped
<1>9. undone.tx \in [Txs -> TxRecord]
  BY <1>6, <1>8 DEF Mem
<1>10. CASE mem' = m \/ mem' = undone
  BY <1>6, <1>7, <1>8, <1>10 DEF Keeps
<1>11. CASE mem' = PutBack(u, undone)
  <2>1. undone.tx[t].status = mem.tx[t].status
    BY <1>6, <1>8
  <2> QED BY <1>4, <1>8, <1>9, <1>11, <2>1, PutBackStatus
<1> QED BY <1>4, <1>10, <1>11

LEMMA EndStatus ==
  ASSUME TxInv, NEW t \in Txs, NEW u \in Txs, Commit(u) \/ Finish(u) \/ Restored(u) \/ Refuse(u)
  PROVE  Keeps(t) \/ (u = t /\ Commit(t))
<1>0. mem \in Mem /\ \A v \in Txs : mem.tx[v] \in TxRecord
  BY DEF TxInv, Types, Mem
<1>1. CASE Commit(u) /\ u # t
  <2>1. PICK x : x = Dropped(u, Result(u))
    OBVIOUS
  <2>2. PICK y : y = Withdrawn(u)
    OBVIOUS
  <2>3. mem' = Capped(x) \/ mem' = y
    <3>1. [mem EXCEPT !.pending[u] = None, !.tx[u].status = cmd[u].from] = y
      BY <1>0, <2>2 DEF Withdrawn, Dropped, Mem
    <3> QED BY <1>1, <2>1, <3>1 DEF Commit, Dropped
  <2>4. Shaped(x) /\ x.tx[t] = mem.tx[t]
    BY <1>0, <1>1, <2>1 DEF Dropped, Mem, Shaped
  <2>5. y.tx[t] = mem.tx[t]
    BY <1>0, <1>1, <2>2 DEF Withdrawn, Dropped, Mem
  <2>6. Capped(x).tx = x.tx
    BY <2>4, CappedStatus
  <2> QED BY <2>3, <2>4, <2>5, <2>6 DEF Keeps
<1>2. CASE Finish(u)
  <2>1. PICK r : r = RetainTerminal(mem, u)
    OBVIOUS
  <2>2. mem' = Capped(r) /\ Lighter(mem, r)
    BY <1>0, <1>2, <2>1, RetainFields DEF Finish, TxInv
  <2>3. mem'.tx = mem.tx
    BY <2>2, CappedFields DEF Lighter
  <2> QED BY <2>3 DEF Keeps
<1>3. CASE Restored(u)
  <2>1. PICK x : x = Withdrawn(u)
    OBVIOUS
  <2>2. mem' = Capped(x) /\ cmd[u].at = "rewriting"
    BY <1>3, <2>1 DEF Restored, Withdrawn, Dropped
  <2>3. Edited(x, u) /\ x.tx[u].status = mem.tx[u].status
    BY <2>1, <2>2, WithdrawnFields DEF Past, Restoring
  <2>4. mem'.tx = x.tx
    BY <2>2, <2>3, CappedFields DEF Edited, Lighter
  <2> QED BY <2>3, <2>4 DEF Edited, Keeps
<1>4. CASE Refuse(u)
  <2>1. mem' = mem \/ (cmd[u].at = "reading" /\ mem' = PutBack(u, mem))
    BY <1>4 DEF Refuse
  <2>2. Shaped(mem) /\ mem.tx \in [Txs -> TxRecord]
    BY <1>0 DEF Mem, Shaped
  <2>3. CASE cmd[u].at = "reading" /\ mem' = PutBack(u, mem)
    BY <2>2, <2>3, PutBackStatus
  <2> QED BY <2>1, <2>3 DEF Keeps
<1> QED BY <1>1, <1>2, <1>3, <1>4

\* Only the commit of a rollback rolls a transaction back, while the kernel is up.
LEMMA StatusChanges ==
  ASSUME TxInv, [Next]_vars, NEW t \in Txs,
         mem.tx[t].status = "applied", mem'.tx[t].status = "rolled_back", life' = "up"
  PROVE  Commit(t)
<1>1. ~Keeps(t) /\ ~Ends(t, "prepared") /\ ~Ends(t, "validated")
  BY DEF Keeps, Ends
<1>2. Next /\ mem' # mem
  BY DEF vars
<1>3. ~Creation /\ ~Environment
  BY <1>2 DEF Creation, Restart, Recovered, Recover, Environment, Crash, Edit
<1>4. \A u \in Txs : ~Request(u)
  BY <1>1, RequestStatus
<1>5. PICK u \in Txs : Command(u)
  BY <1>2, <1>3, <1>4 DEF Next
<1>6. ~PublishPrepared(u) /\ ~Validated(u) /\ ~BeginDurable(u)
  BY <1>1, PublishStatus, ValidatedStatus, BeginStatus
<1>7. /\ ~Lock(u) /\ ~CheckRestore(u) /\ ~WriteFails(u) /\ ~RewriteFails(u)
      /\ \A f \in Files : ~CheckWrite(u, f) /\ ~Write(u, f) /\ ~CheckRewrite(u, f) /\ ~Rewrite(u, f)
  BY <1>2 DEF Lock, CheckRestore, CheckWrite, Write, WriteFails, CheckRewrite, Rewrite, RewriteFails
<1>8. Commit(u) \/ Finish(u) \/ Restored(u) \/ Refuse(u)
  BY <1>5, <1>6, <1>7 DEF Command, Restore
<1> QED BY <1>1, <1>8, EndStatus

\* A rollback that succeeds leaves in every file what the apply found there, or an edit from
\* outside: nothing of a third transaction, for the paths were locked since they were checked.
THEOREM RollbacksRestore == Spec => RollbackRestores
<1> DEFINE B(t) == mem.tx[t].status = "applied" /\ mem'.tx[t].status = "rolled_back" /\ life' = "up" =>
                     \A f \in Changes[t] : t \in replanned \/ files[f] \in {mem.tx[t].old[f], External}
           A == \A t \in Txs : B(t)
<1>1. TxInv /\ [Next]_vars => A
  <2> SUFFICES ASSUME TxInv, [Next]_vars, NEW t \in Txs, t \notin replanned,
                      mem.tx[t].status = "applied", mem'.tx[t].status = "rolled_back", life' = "up"
               PROVE  \A f \in Changes[t] : files[f] \in {mem.tx[t].old[f], External}
    OBVIOUS
  <2>1. Commit(t)
    BY StatusChanges
  <2>2. /\ cmd[t].at = "writing" /\ cmd[t].todo = {}
        /\ Stage(t, cmd[t], mem.tx[t], mem.plan[t], mem.pending[t])
    BY <2>1, Here DEF Commit
  <2>3. cmd[t].kind = "rollback"
    BY <2>2 DEF Stage, Past, Fits, Allowed
  <2> QED BY <2>2, <2>3 DEF Stage
<1>2. TxInv /\ [Next]_vars => [A]_vars
  BY <1>1
<1>3. Spec => [][A]_vars
  BY <1>2, TransactionsInvariant, PTL DEF Spec
<1> QED BY <1>3 DEF RollbackRestores

=============================================================================
