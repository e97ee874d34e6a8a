-------------------------- MODULE ActRunServiceProofs --------------------------
(***************************************************************************)
(* The act run service, for any inputs and any number of runs and faults:  *)
(* an input that is stored is consumed once, what has not been consumed is *)
(* given back or waits for the next run, and nothing follows the event     *)
(* that tells how a run ended.                                             *)
(***************************************************************************)
EXTENDS ActRunService, SubsequencesProofs

-----------------------------------------------------------------------------
(* The inductive invariant, part by part. *)

Loop == {"turn", "gated", "taken", "applying", "applyingOwn", "work", "completing"}
Places == Loop \cup {"none", "began", "verified", "erring", "pausing", "retaining", "telling", "closing", "ending"}
Writes == [by : {"run", "steer"},
           kind : {"input", "applied", "verification", "error", "paused", "retained", "terminal"},
           input : Inputs \cup {"none"}]

ActRun == [at : Places, own : SUBSET Inputs, ends : {"none", "completed", "cancelled", "failed", "paused"},
           aborted : BOOLEAN, restored : BOOLEAN, awaited : SUBSET Inputs, told : Nat, failing : BOOLEAN]

ActTypes ==
  /\ run \in ActRun
  /\ status \in {"idle", "on", "over"}
  /\ inputs \in Seq(Inputs) /\ prepared \in Seq(Inputs) /\ unapplied \in Seq(Inputs)
  /\ steers \in [Inputs -> {"new", "submitted", "queued", "stale", "ingested", "writing",
                            "accepted", "refused", "lost"}]
  /\ inputLine \in Seq(Inputs)
  /\ writes \in Seq(Writes)
  /\ goals \in [fresh : BOOLEAN, completed : BOOLEAN]
  /\ eventLog \in Seq({"input", "applied"} \X Inputs)
  /\ said \in [terminal : BOOLEAN, retained : SUBSET Inputs, late : BOOLEAN]

\* A run has the input it was submitted with; it restores what earlier runs left in a turn.
OwnInv ==
  /\ run.at # "none" => \E i \in Inputs : run.own = {i} /\ steers[i] = "submitted"
  /\ run.at = "began" => ~run.restored

\* The line holds the steers that have not settled; the first of them is past its turn.
LineInv ==
  /\ IsInjective(inputLine)
  /\ \A i \in Inputs : i \in InLine <=> steers[i] \in {"queued", "stale", "ingested", "writing"}
  /\ \A i \in Inputs : steers[i] \in {"ingested", "writing"} => inputLine # <<>> /\ i = Head(inputLine)

\* The event the run waits for, by where it is.
RunWrites ==
  CASE run.at = "began" -> {OwnEvent("input")}
    [] run.at = "applying" -> {Event("run", "applied", Head(prepared))}
    [] run.at = "applyingOwn" -> {OwnEvent("applied")}
    [] run.at = "verified" -> {Told("verification")}
    [] run.at = "erring" -> {Told("error")}
    [] run.at = "pausing" -> {Told("paused")}
    [] run.at = "telling" -> {Event("run", "retained", unapplied[run.told])}
    [] run.at = "closing" -> {Told("terminal")}
    [] OTHER -> {}

SteerWrites == {Event("steer", "input", i) : i \in {j \in Inputs : steers[j] = "writing"}}

WritesInv == IsInjective(writes) /\ ToSet(writes) \subseteq RunWrites \cup SteerWrites

\* What has yet to be written is not in the storage.
LogInv ==
  /\ ConsumedOnce
  /\ \A i \in Inputs : steers[i] \in {"new", "queued", "stale", "ingested", "writing"} => i \notin Stored("input")
  /\ run.at = "began" => run.own \cap Stored("input") = {}
  /\ run.at \in Loop => run.own \subseteq Stored("input")
  /\ run.at = "applyingOwn" => run.own \cap Stored("applied") = {}

\* A list of inputs that are stored, not applied, and not the run's own.
Waiting(list) ==
  /\ IsInjective(list)
  /\ ToSet(list) \subseteq Stored("input") \ (Stored("applied") \cup run.own)

InputsInv ==
  /\ run.at \in Loop \cup {"began"} => Waiting(inputs)
  /\ run.at \in {"taken", "applying"} => Waiting(prepared)
  /\ run.at = "applying" => prepared # <<>>

\* A run that has told how it ends takes no steers, and it waits for the last one of the line.
EndInv ==
  /\ ~said.late
  /\ said.terminal => /\ run.at \in {"ending", "none"} /\ inputLine = <<>> /\ writes = <<>>
                      /\ run.at # "none" => status = "over" /\ ToSet(unapplied) \subseteq said.retained
  /\ run.at \in {"retaining", "telling", "closing"} /\ run.ends # "paused" => status = "over"
  /\ run.at = "retaining" /\ run.ends # "paused" /\ inputLine # <<>> => inputLine[Len(inputLine)] \in run.awaited
  /\ run.at \in {"telling", "closing"} /\ run.ends # "paused" => inputLine = <<>>
  /\ run.at = "telling" => run.told \in DOMAIN unapplied
  /\ run.at = "telling" /\ run.ends # "paused" => \A k \in 1..(run.told - 1) : unapplied[k] \in said.retained
  /\ run.at = "closing" => run.ends # "paused" /\ ToSet(unapplied) \subseteq said.retained

\* The inductive invariant.
ActInv == ActTypes /\ OwnInv /\ LineInv /\ WritesInv /\ LogInv /\ InputsInv /\ NothingForgotten /\ EndInv

-----------------------------------------------------------------------------
(* An element is taken out of a list. *)

\* A list of distinct elements from which one is taken out.
LEMMA ListWithout ==
  ASSUME NEW S, NEW s \in Seq(S), NEW x, IsInjective(s)
  PROVE  /\ Without(s, x) \in Seq(S)
         /\ ToSet(Without(s, x)) = ToSet(s) \ {x}
         /\ IsInjective(Without(s, x))
<1>1. CASE x \notin ToSet(s)
  BY <1>1 DEF Without
<1>2. CASE x \in ToSet(s)
  <2>1. PICK k \in DOMAIN s : s[k] = x /\ (\A j \in 1..(k - 1) : s[j] # x) /\ Without(s, x) = RemoveAt(s, k)
    <3>1. \E k \in DOMAIN s : s[k] = x /\ \A j \in 1..(k - 1) : s[j] # x
      BY <1>2, FirstPlace
    <3>. QED  BY <1>2, <3>1 DEF Without
  <2>2. Len(s) \in Nat /\ DOMAIN s = 1..Len(s) /\ ToSet(s) \subseteq S /\ \A y : y \in ToSet(s) <=> \E i \in 1..Len(s) : s[i] = y
    BY ListElements
  <2>. DEFINE l == SubSeq(s, 1, k - 1)
  <2>. DEFINE r == SubSeq(s, k + 1, Len(s))
  <2>3. k \in 1..Len(s) /\ \A i \in 1..Len(s) : s[i] \in S
    BY <2>2, ElementOfSeq
  <2>4. l \in Seq(S) /\ Len(l) = k - 1 /\ \A i \in 1..(k - 1) : l[i] = s[i]
    <3>1. \A i \in 1..(k - 1) : s[i] \in S
      BY <2>3
    <3>2. /\ l \in Seq(S) /\ Len(l) = IF 1 <= k - 1 THEN k - 1 - 1 + 1 ELSE 0
          /\ \A i \in 1..(k - 1 - 1 + 1) : l[i] = s[1 + i - 1]
      BY <2>3, <3>1, SubSeqProperties
    <3>. HIDE DEF l
    <3>. QED  BY <2>3, <3>2
  <2>5. r \in Seq(S) /\ Len(r) = Len(s) - k /\ \A i \in 1..(Len(s) - k) : r[i] = s[k + i]
    <3>1. \A i \in (k + 1)..Len(s) : s[i] \in S
      BY <2>3
    <3>2. /\ r \in Seq(S) /\ Len(r) = IF k + 1 <= Len(s) THEN Len(s) - (k + 1) + 1 ELSE 0
          /\ \A i \in 1..(Len(s) - (k + 1) + 1) : r[i] = s[k + 1 + i - 1]
      BY <2>2, <2>3, <3>1, SubSeqProperties
    <3>. HIDE DEF r
    <3>3. Len(s) - (k + 1) + 1 = Len(s) - k /\ (~(k + 1 <= Len(s)) => Len(s) - k = 0)
      BY <2>2, <2>3
    <3>4. \A i \in 1..(Len(s) - k) : k + 1 + i - 1 = k + i
      BY <2>2, <2>3
    <3>. QED  BY ONLY <3>2, <3>3, <3>4
  <2>6. Without(s, x) = l \o r
    BY <2>1 DEF RemoveAt
  <2>. HIDE DEF l, r
  <2>7. DOMAIN l = 1..(k - 1) /\ \A y : y \in ToSet(l) <=> \E i \in 1..(k - 1) : l[i] = y
    BY <2>4, ListElements
  <2>8. DOMAIN r = 1..(Len(s) - k) /\ \A y : y \in ToSet(r) <=> \E i \in 1..(Len(s) - k) : r[i] = y
    BY <2>5, ListElements
  <2>9. \A i \in 1..(k - 1) : i \in 1..Len(s) /\ i # k
    BY <2>3
  <2>10. \A i \in 1..(Len(s) - k) : k + i \in 1..Len(s) /\ k + i # k
    BY <2>2, <2>3
  <2>11. \A i, j \in 1..Len(s) : s[i] = s[j] => i = j
    BY <2>2 DEF IsInjective
  <2>12. IsInjective(l)
    BY <2>4, <2>7, <2>9, <2>11 DEF IsInjective
  <2>13. IsInjective(r)
    <3>1. \A i, j \in 1..(Len(s) - k) : r[i] = r[j] => k + i = k + j
      BY <2>5, <2>10, <2>11
    <3>. QED  BY <2>2, <2>3, <2>8, <3>1 DEF IsInjective
  <2>14. ToSet(l) \cap ToSet(r) = {}
    <3>1. \A i \in 1..(k - 1), j \in 1..(Len(s) - k) : l[i] # r[j]
      <4>1. \A i \in 1..(k - 1), j \in 1..(Len(s) - k) : i # k + j
        BY <2>2, <2>3
      <4>. QED  BY <2>4, <2>5, <2>9, <2>10, <2>11, <4>1
    <3>. QED  BY <2>7, <2>8, <3>1
  <2>15. ToSet(l) \cup ToSet(r) = ToSet(s) \ {x}
    <3>1. \A y \in ToSet(l) : y \in ToSet(s) /\ y # x
      BY <2>1, <2>2, <2>3, <2>4, <2>7, <2>9, <2>11
    <3>2. \A y \in ToSet(r) : y \in ToSet(s) /\ y # x
      BY <2>1, <2>2, <2>3, <2>5, <2>8, <2>10, <2>11
    <3>3. \A y \in ToSet(s) : y # x => y \in ToSet(l) \cup ToSet(r)
      <4>1. TAKE y \in ToSet(s)
      <4>2. HAVE y # x
      <4>3. PICK i \in 1..Len(s) : s[i] = y
        BY <2>2
      <4>4. CASE i < k
        <5>1. i \in 1..(k - 1)
          BY <2>2, <2>3, <4>4
        <5>. QED  BY <2>4, <2>7, <4>3, <5>1
      <4>5. CASE i > k
        <5>1. i - k \in 1..(Len(s) - k) /\ k + (i - k) = i
          BY <2>2, <2>3, <4>5
        <5>. QED  BY <2>5, <2>8, <4>3, <5>1
      <4>6. i # k
        BY <2>1, <4>2, <4>3
      <4>. QED  BY <2>2, <2>3, <4>4, <4>5, <4>6
    <3>. QED  BY <3>1, <3>2, <3>3
  <2>. QED  BY <2>4, <2>5, <2>6, <2>12, <2>13, <2>14, <2>15, ListsJoin
<1>. QED  BY <1>1, <1>2

-----------------------------------------------------------------------------
(* The storage and the events that are written. *)

\* The inputs of one kind of event in a log.
LEMMA LogElements ==
  ASSUME NEW log \in SUBSET ({"input", "applied"} \X Inputs), NEW kind
  PROVE  /\ {e[2] : e \in {x \in log : x[1] = kind}} \subseteq Inputs
         /\ \A i : i \in {e[2] : e \in {x \in log : x[1] = kind}} <=> <<kind, i>> \in log
OBVIOUS

\* What is stored, read off the log.
LEMMA StoredElements ==
  ASSUME eventLog \in Seq({"input", "applied"} \X Inputs), NEW kind
  PROVE  /\ Stored(kind) \subseteq Inputs
         /\ \A i : i \in Stored(kind) <=> <<kind, i>> \in ToSet(eventLog)
<1>1. ToSet(eventLog) \subseteq {"input", "applied"} \X Inputs
  BY ListElements
<1>. QED  BY <1>1 DEF Stored

\* An event that is not in the log is added to it, and nothing else changes in what is stored.
LEMMA LogGrows ==
  ASSUME eventLog \in Seq({"input", "applied"} \X Inputs), ConsumedOnce,
         NEW kind \in {"input", "applied"}, NEW i \in Inputs,
         eventLog' = Append(eventLog, <<kind, i>>),
         i \notin Stored(kind), kind = "applied" => i \in Stored("input")
  PROVE  /\ eventLog' \in Seq({"input", "applied"} \X Inputs)
         /\ ConsumedOnce'
         /\ Stored("input")' = Stored("input") \cup (IF kind = "input" THEN {i} ELSE {})
         /\ Stored("applied")' = Stored("applied") \cup (IF kind = "applied" THEN {i} ELSE {})
<1>1. <<kind, i>> \in {"input", "applied"} \X Inputs /\ <<kind, i>> \notin ToSet(eventLog)
  BY StoredElements
<1>2. /\ eventLog' \in Seq({"input", "applied"} \X Inputs)
      /\ ToSet(eventLog') = ToSet(eventLog) \cup {<<kind, i>>}
      /\ IsInjective(eventLog) => IsInjective(eventLog')
  BY <1>1, ListGrows
<1>3. \A k, j : j \in Stored(k) <=> <<k, j>> \in ToSet(eventLog)
  BY StoredElements
<1>4. ToSet(eventLog') \subseteq {"input", "applied"} \X Inputs
  <2>1. ToSet(eventLog) \subseteq {"input", "applied"} \X Inputs
    BY ListElements
  <2>. QED  BY <1>1, <1>2, <2>1
<1>5. \A j : j \in Stored("input")' <=> <<"input", j>> \in ToSet(eventLog')
  BY <1>4, LogElements DEF Stored
<1>6. \A j : j \in Stored("applied")' <=> <<"applied", j>> \in ToSet(eventLog')
  BY <1>4, LogElements DEF Stored
<1>7. Stored("input")' = Stored("input") \cup (IF kind = "input" THEN {i} ELSE {})
  BY <1>2, <1>3, <1>5
<1>8. Stored("applied")' = Stored("applied") \cup (IF kind = "applied" THEN {i} ELSE {})
  BY <1>2, <1>3, <1>6
<1>9. ConsumedOnce'
  BY <1>2, <1>7, <1>8 DEF ConsumedOnce
<1>. QED  BY <1>2, <1>7, <1>8, <1>9

\* An input is recorded: it is stored, and has not been applied.
LEMMA InputRecorded ==
  ASSUME ActTypes, LogInv, NEW by, NEW i \in Inputs, i \notin Stored("input"),
         Record(Event(by, "input", i))
  PROVE  /\ eventLog' \in Seq({"input", "applied"} \X Inputs)
         /\ ConsumedOnce'
         /\ Stored("input")' = Stored("input") \cup {i} /\ Stored("applied")' = Stored("applied")
         /\ unapplied' = Append(unapplied, i) /\ unapplied' \in Seq(Inputs)
<1>1. eventLog' = Append(eventLog, <<"input", i>>) /\ unapplied' = Append(unapplied, i)
  BY DEF Record, Event
<1>2. /\ eventLog' \in Seq({"input", "applied"} \X Inputs)
      /\ ConsumedOnce'
      /\ Stored("input")' = Stored("input") \cup {i} /\ Stored("applied")' = Stored("applied") \cup {}
  BY <1>1, LogGrows DEF ActTypes, LogInv
<1>3. unapplied' \in Seq(Inputs)
  BY <1>1, ListGrows DEF ActTypes
<1>. QED  BY <1>1, <1>2, <1>3

\* An input is recorded as applied.
LEMMA AppliedRecorded ==
  ASSUME ActTypes, LogInv, NEW by, NEW i \in Inputs, i \in Stored("input"), i \notin Stored("applied"),
         Record(Event(by, "applied", i))
  PROVE  /\ eventLog' \in Seq({"input", "applied"} \X Inputs)
         /\ ConsumedOnce'
         /\ Stored("input")' = Stored("input") /\ Stored("applied")' = Stored("applied") \cup {i}
         /\ unapplied' \in Seq(Inputs)
<1>1. eventLog' = Append(eventLog, <<"applied", i>>) /\ unapplied' = Kept(unapplied, Inputs \ {i})
  BY DEF Record, Event
<1>2. /\ eventLog' \in Seq({"input", "applied"} \X Inputs)
      /\ ConsumedOnce'
      /\ Stored("input")' = Stored("input") \cup {} /\ Stored("applied")' = Stored("applied") \cup {i}
  BY <1>1, LogGrows DEF ActTypes, LogInv
<1>3. unapplied' \in Seq(Inputs)
  BY <1>1, ListKept DEF ActTypes
<1>. QED  BY <1>2, <1>3

\* The storage of an unchanged log.
LEMMA LogStays ==
  ASSUME eventLog' = eventLog
  PROVE  /\ Stored("input")' = Stored("input") /\ Stored("applied")' = Stored("applied")
         /\ ConsumedOnce' <=> ConsumedOnce
<1>1. Stored("input")' = Stored("input") /\ Stored("applied")' = Stored("applied")
  BY DEF Stored
<1>. QED  BY <1>1 DEF ConsumedOnce

\* Who waits for an event.
LEMMA WhoWaits ==
  /\ \A e \in RunWrites : e.by = "run"
  /\ \A e \in SteerWrites : e.by = "steer"
<1>1. \A e \in SteerWrites : e.by = "steer"
  BY DEF SteerWrites, Event
<1>2. \A e \in RunWrites : e.by = "run"
  BY DEF RunWrites, OwnEvent, Told, Event
<1>. QED  BY <1>1, <1>2

\* The run goes on without an event.
LEMMA RunSilent ==
  ASSUME ActTypes, WritesInv, RunWrites = {}, SteerWrites' = SteerWrites, writes' = writes
  PROVE  WritesInv' /\ writes' \in Seq(Writes)
<1>1. ToSet(writes') = ToSet(writes)
  OBVIOUS
<1>. QED  BY <1>1 DEF WritesInv, ActTypes

\* The run has an event written, and waits for it.
LEMMA RunEmits ==
  ASSUME ActTypes, WritesInv, RunWrites = {}, SteerWrites' = SteerWrites,
         NEW e \in Writes, e.by = "run", writes' = Append(writes, e), RunWrites' = {e}
  PROVE  WritesInv' /\ writes' \in Seq(Writes)
<1>1. e \notin ToSet(writes)
  BY WhoWaits DEF WritesInv
<1>2. /\ writes' \in Seq(Writes) /\ ToSet(writes') = ToSet(writes) \cup {e}
      /\ IsInjective(writes) => IsInjective(writes')
  BY <1>1, ListGrows DEF ActTypes
<1>. QED  BY <1>2 DEF WritesInv

\* The first event, that of the run, leaves; the run has none left.
LEMMA RunWritten ==
  ASSUME ActTypes, WritesInv, writes # <<>>, RunWrites = {Head(writes)}, SteerWrites' = SteerWrites,
         writes' = Tail(writes)
  PROVE  /\ IsInjective(writes') /\ ToSet(writes') \subseteq SteerWrites' /\ WritesInv'
         /\ writes' \in Seq(Writes)
<1>1. /\ writes' \in Seq(Writes) /\ ToSet(writes') = ToSet(writes) \ {Head(writes)} /\ IsInjective(writes')
  BY ListShrinks DEF ActTypes, WritesInv
<1>. QED  BY <1>1 DEF WritesInv

\* The first event, that of the run, leaves, and the run has another one written.
LEMMA RunWritesNext ==
  ASSUME ActTypes, WritesInv, writes # <<>>, RunWrites = {Head(writes)}, SteerWrites' = SteerWrites,
         NEW e \in Writes, e.by = "run", writes' = Append(Tail(writes), e), RunWrites' = {e}
  PROVE  WritesInv' /\ writes' \in Seq(Writes)
<1>1. Tail(writes) \in Seq(Writes) /\ ToSet(Tail(writes)) = ToSet(writes) \ {Head(writes)} /\ IsInjective(Tail(writes))
  BY ListShrinks DEF ActTypes, WritesInv
<1>2. ToSet(Tail(writes)) \subseteq SteerWrites
  BY <1>1 DEF WritesInv
<1>3. e \notin ToSet(Tail(writes))
  BY <1>2, WhoWaits
<1>4. /\ writes' \in Seq(Writes) /\ ToSet(writes') = ToSet(Tail(writes)) \cup {e}
      /\ IsInjective(Tail(writes)) => IsInjective(writes')
  <2>1. PICK rest : rest = Tail(writes)
    OBVIOUS
  <2>2. /\ Append(rest, e) \in Seq(Writes) /\ ToSet(Append(rest, e)) = ToSet(rest) \cup {e}
        /\ IsInjective(rest) => IsInjective(Append(rest, e))
    <3>1. rest \in Seq(Writes) /\ e \in Writes /\ e \notin ToSet(rest)
      BY <1>1, <1>3, <2>1
    <3>. QED  BY ONLY <3>1, ListGrows
  <2>. QED  BY <2>1, <2>2
<1>. QED  BY <1>1, <1>2, <1>4 DEF WritesInv

\* The first event, that of the steer in front, leaves.
LEMMA SteerWritten ==
  ASSUME ActTypes, WritesInv, writes # <<>>, NEW i \in Inputs, Head(writes) = Event("steer", "input", i),
         \A j \in Inputs : steers[j] = "writing" => j = i,
         writes' = Tail(writes)
  PROVE  ToSet(writes') \subseteq RunWrites /\ IsInjective(writes') /\ writes' \in Seq(Writes)
<1>1. /\ writes' \in Seq(Writes) /\ ToSet(writes') = ToSet(writes) \ {Head(writes)} /\ IsInjective(writes')
  BY ListShrinks DEF ActTypes, WritesInv
<1>2. SteerWrites \subseteq {Head(writes)}
  BY DEF SteerWrites
<1>. QED  BY <1>1, <1>2 DEF WritesInv

-----------------------------------------------------------------------------
(* The turns of a run. *)

\* A step of the loop that leaves the inputs and the storage alone keeps the invariant.
LEMMA LoopMoves ==
  ASSUME ActInv, run.at \in Loop,
         run' \in ActRun, run'.at \in Loop \cup {"verified", "erring", "pausing"},
         run'.own = run.own, run'.restored = run.restored, run'.aborted = run.aborted,
         status' \in {"idle", "on", "over"}, goals' \in [fresh : BOOLEAN, completed : BOOLEAN],
         UNCHANGED <<inputs, prepared, unapplied, steers, inputLine, eventLog, said>>,
         writes' \in Seq(Writes), WritesInv',
         run'.at \in {"taken", "applying"} => run.at \in {"taken", "applying"},
         run'.at = "applying" => prepared # <<>>,
         run'.at = "applyingOwn" => run.own \cap Stored("applied") = {}
  PROVE  ActInv'
<1>1. Stored("input")' = Stored("input") /\ Stored("applied")' = Stored("applied") /\ (ConsumedOnce' <=> ConsumedOnce)
  BY LogStays
<1>2. InLine' = InLine /\ ToSet(inputs') = ToSet(inputs) /\ ToSet(prepared') = ToSet(prepared) /\ ToSet(unapplied') = ToSet(unapplied)
  BY DEF InLine
<1>3. ActTypes'
  BY DEF ActInv, ActTypes
<1>4. OwnInv'
  BY DEF ActInv, OwnInv, Loop
<1>5. LineInv'
  BY <1>2 DEF ActInv, LineInv
<1>6. LogInv'
  BY <1>1 DEF ActInv, LogInv, Loop
<1>7. Waiting(inputs)' /\ (run.at \in {"taken", "applying"} => Waiting(prepared)')
  BY <1>1, <1>2 DEF ActInv, InputsInv, Waiting
<1>8. InputsInv'
  BY <1>7 DEF InputsInv
<1>9. NothingForgotten'
  BY <1>1, <1>2 DEF ActInv, NothingForgotten, Loop
<1>10. EndInv'
  BY DEF ActInv, EndInv, Loop
<1>. QED  BY <1>3, <1>4, <1>5, <1>6, <1>8, <1>9, <1>10 DEF ActInv

\* The steps of the loop that only move it.
LEMMA QuietTurns ==
  ASSUME ActInv, BeginTurn \/ TurnGivenUp \/ NextTurn \/ Completion
  PROVE  ActInv'
<1>1. run \in ActRun /\ run.at \in {"turn", "taken", "completing", "work"} /\ LastInLine \subseteq Inputs
  <2>1. inputLine # <<>> => inputLine[Len(inputLine)] \in Inputs
    BY EmptySeq, LenProperties, ElementOfSeq DEF ActInv, ActTypes
  <2>. QED  BY <2>1 DEF BeginTurn, TurnGivenUp, NextTurn, Completion, ActInv, ActTypes, LastInLine
<1>2. /\ run' \in ActRun /\ run'.at \in {"gated", "turn", "completing"}
      /\ run'.own = run.own /\ run'.restored = run.restored /\ run'.aborted = run.aborted
  BY <1>1 DEF BeginTurn, TurnGivenUp, NextTurn, Completion, ActRun, Places, Loop
<1>3. UNCHANGED <<status, inputs, prepared, unapplied, steers, inputLine, writes, goals, eventLog, said>>
  BY DEF BeginTurn, TurnGivenUp, NextTurn, Completion
<1>4. RunWrites = {} /\ SteerWrites' = SteerWrites
  BY <1>1, <1>3 DEF RunWrites, SteerWrites
<1>5. WritesInv' /\ writes' \in Seq(Writes)
  BY <1>3, <1>4, RunSilent DEF ActInv
<1>6. status' \in {"idle", "on", "over"} /\ goals' \in [fresh : BOOLEAN, completed : BOOLEAN]
  BY <1>3 DEF ActInv, ActTypes
<1>7. run.at \in Loop
  BY <1>1 DEF Loop
<1>8. run'.at \in Loop /\ run'.at \notin {"taken", "applying", "applyingOwn"}
  BY <1>2 DEF Loop
<1>. QED  BY ONLY ActInv, <1>2, <1>3, <1>5, <1>6, <1>7, <1>8, LoopMoves

\* The ways to pause.
Pauses == Pause \/ Stalled \/ BudgetSpent \/ InputAskedFor

\* The end of the loop is told, whatever it is.
LEMMA TellingTurns ==
  ASSUME ActInv, Completed \/ Pauses \/ LoopFails
  PROVE  ActInv'
<1>1. run \in ActRun /\ run.at \in {"turn", "gated", "taken", "work", "completing"}
  BY DEF Completed, Pauses, Pause, Stalled, BudgetSpent, InputAskedFor, Pausing, LoopFails, ActInv, ActTypes
<1>2. PICK at, kind : /\ \/ at = "verified" /\ kind = "verification"
                         \/ at = "pausing" /\ kind = "paused"
                         \/ at = "erring" /\ kind = "error"
                      /\ run' = [run EXCEPT !.at = at] /\ writes' = Append(writes, Told(kind))
  <2>1. CASE Completed
    <3>1. run' = [run EXCEPT !.at = "verified"] /\ writes' = Append(writes, Told("verification"))
      BY <2>1 DEF Completed
    <3>. QED  BY <3>1
  <2>2. CASE Pauses
    <3>1. run' = [run EXCEPT !.at = "pausing"] /\ writes' = Append(writes, Told("paused"))
      BY <2>2 DEF Pauses, Pause, Stalled, BudgetSpent, InputAskedFor, Pausing
    <3>. QED  BY <3>1
  <2>3. CASE LoopFails
    <3>1. run' = [run EXCEPT !.at = "erring"] /\ writes' = Append(writes, Told("error"))
      BY <2>3 DEF LoopFails
    <3>. QED  BY <3>1
  <2>. QED  BY <2>1, <2>2, <2>3
<1>3. /\ run' \in ActRun /\ run'.at = at /\ run'.own = run.own /\ run'.restored = run.restored
      /\ run'.aborted = run.aborted
  BY <1>1, <1>2 DEF ActRun, Places
<1>4. UNCHANGED <<status, inputs, prepared, unapplied, steers, inputLine, eventLog, said>>
  BY DEF Completed, Pauses, Pause, Stalled, BudgetSpent, InputAskedFor, Pausing, LoopFails
<1>5. PICK e : e = Told(kind)
  OBVIOUS
<1>6. e \in Writes /\ e.by = "run"
  BY <1>2, <1>5 DEF Told, Event, Writes
<1>7. RunWrites = {} /\ SteerWrites' = SteerWrites
  BY <1>1, <1>4 DEF RunWrites, SteerWrites
<1>8. RunWrites' = {e}
  BY <1>2, <1>3, <1>5 DEF RunWrites, Told, Event
<1>9. WritesInv' /\ writes' \in Seq(Writes)
  BY <1>2, <1>5, <1>6, <1>7, <1>8, RunEmits DEF ActInv
<1>10. status' \in {"idle", "on", "over"} /\ goals' \in [fresh : BOOLEAN, completed : BOOLEAN]
  BY <1>4 DEF ActInv, ActTypes, Completed, Pauses, Pause, Stalled, BudgetSpent, InputAskedFor, Pausing, LoopFails
<1>11. run.at \in Loop
  BY <1>1 DEF Loop
<1>12. run'.at \in {"verified", "erring", "pausing"}
  BY <1>2, <1>3
<1>. QED  BY ONLY ActInv, <1>3, <1>4, <1>9, <1>10, <1>11, <1>12, LoopMoves

\* The run has one input of its own.
LEMMA OwnOne ==
  ASSUME ActInv, run.at # "none"
  PROVE  \E i \in Inputs : /\ run.own = {i} /\ steers[i] = "submitted"
                           /\ OwnEvent("input") = Event("run", "input", i)
                           /\ OwnEvent("applied") = Event("run", "applied", i)
<1>1. PICK i \in Inputs : run.own = {i} /\ steers[i] = "submitted"
  BY DEF ActInv, OwnInv
<1>2. (CHOOSE j \in run.own : TRUE) = i
  BY <1>1
<1>. QED  BY <1>1, <1>2 DEF OwnEvent

\* What is reported next: the run's place fits the event that is written.
LEMMA NextReport ==
  ASSUME ActInv, run.at # "none", NEW list \in Seq(Inputs), NEW ownApplied \in BOOLEAN,
         NEW at, NEW emits, ReportNext(list, ownApplied) = [at |-> at, emits |-> emits]
  PROVE  \/ at = "work" /\ emits = <<>>
         \/ /\ at = "applying" /\ list # <<>>
            /\ \E e \in Writes : e = Event("run", "applied", Head(list)) /\ emits = <<e>> /\ e.by = "run"
         \/ /\ at = "applyingOwn" /\ ~ownApplied
            /\ \E e \in Writes : e = OwnEvent("applied") /\ emits = <<e>> /\ e.by = "run"
<1>1. PICK i \in Inputs : OwnEvent("applied") = Event("run", "applied", i)
  BY OwnOne
<1>2. list # <<>> => Head(list) \in Inputs
  BY ListShrinks
<1>3. \A j \in Inputs : Event("run", "applied", j) \in Writes /\ Event("run", "applied", j).by = "run"
  BY DEF Event, Writes
<1>4. CASE list # <<>>
  <2>1. at = "applying" /\ emits = <<Event("run", "applied", Head(list))>>
    BY <1>4 DEF ReportNext
  <2>. QED  BY <1>2, <1>3, <1>4, <2>1
<1>5. CASE list = <<>> /\ ~ownApplied
  <2>1. at = "applyingOwn" /\ emits = <<OwnEvent("applied")>>
    BY <1>5 DEF ReportNext
  <2>. QED  BY <1>1, <1>3, <1>5, <2>1
<1>6. CASE list = <<>> /\ ownApplied
  BY <1>6 DEF ReportNext
<1>. QED  BY <1>4, <1>5, <1>6

\* The request of a turn is recorded.
LEMMA RequestRecordedKeeps == ActInv /\ RequestRecorded => ActInv'
<1>. SUFFICES ASSUME ActInv, RequestRecorded PROVE ActInv'
  OBVIOUS
<1>1. run \in ActRun /\ run.at = "taken" /\ prepared \in Seq(Inputs)
  BY DEF RequestRecorded, ActInv, ActTypes
<1>2. PICK at, emits : /\ ReportNext(prepared, run.own \subseteq Stored("applied")) = [at |-> at, emits |-> emits]
                       /\ run' = [run EXCEPT !.at = at] /\ writes' = writes \o emits
  <2>1. PICK next : /\ next = ReportNext(prepared, run.own \subseteq Stored("applied"))
                    /\ run' = [run EXCEPT !.at = next.at] /\ writes' = writes \o next.emits
    BY DEF RequestRecorded
  <2>2. next = [at |-> next.at, emits |-> next.emits]
    BY <2>1 DEF ReportNext
  <2>. QED  BY <2>1, <2>2
<1>3. PICK ownApplied \in BOOLEAN : ownApplied <=> run.own \subseteq Stored("applied")
  OBVIOUS
<1>4. PICK list \in Seq(Inputs) : list = prepared
  BY <1>1
<1>5. \/ at = "work" /\ emits = <<>>
      \/ /\ at = "applying" /\ list # <<>>
         /\ \E e \in Writes : e = Event("run", "applied", Head(list)) /\ emits = <<e>> /\ e.by = "run"
      \/ /\ at = "applyingOwn" /\ ~ownApplied
         /\ \E e \in Writes : e = OwnEvent("applied") /\ emits = <<e>> /\ e.by = "run"
  <2>1. ownApplied = (run.own \subseteq Stored("applied"))
    BY <1>3
  <2>2. ReportNext(list, ownApplied) = [at |-> at, emits |-> emits]
    BY ONLY <1>2, <1>4, <2>1
  <2>3. run.at # "none"
    BY <1>1
  <2>. QED  BY ONLY ActInv, <2>2, <2>3, NextReport
<1>6. /\ run' \in ActRun /\ run'.at = at /\ run'.own = run.own /\ run'.restored = run.restored
      /\ run'.aborted = run.aborted
  BY <1>1, <1>2, <1>5 DEF ActRun, Places, Loop
<1>7. status' = "on" /\ UNCHANGED <<inputs, prepared, unapplied, steers, inputLine, goals, eventLog, said>>
  BY DEF RequestRecorded
<1>8. RunWrites = {} /\ SteerWrites' = SteerWrites
  BY <1>1, <1>7 DEF RunWrites, SteerWrites
<1>9. WritesInv' /\ writes' \in Seq(Writes)
  <2>1. CASE at = "work" /\ emits = <<>>
    <3>1. writes' = writes
      BY <1>2, <2>1, ConcatEmptySeq DEF ActInv, ActTypes
    <3>. QED  BY <1>8, <3>1, RunSilent DEF ActInv
  <2>2. ASSUME NEW e \in Writes, emits = <<e>>, e.by = "run",
               \/ at = "applying" /\ e = Event("run", "applied", Head(list))
               \/ at = "applyingOwn" /\ e = OwnEvent("applied")
        PROVE  WritesInv' /\ writes' \in Seq(Writes)
    <3>1. writes' = Append(writes, e)
      BY <1>2, <2>2, AppendIsConcat DEF ActInv, ActTypes
    <3>2. RunWrites' = {e}
      <4>1. OwnEvent("applied")' = OwnEvent("applied")
        BY <1>6 DEF OwnEvent
      <4>. QED  BY <1>4, <1>6, <1>7, <2>2, <4>1 DEF RunWrites, Event
    <3>. QED  BY <1>8, <2>2, <3>1, <3>2, RunEmits DEF ActInv
  <2>. QED  BY <1>5, <2>1, <2>2
<1>10. status' \in {"idle", "on", "over"} /\ goals' \in [fresh : BOOLEAN, completed : BOOLEAN]
  BY <1>7 DEF ActInv, ActTypes
<1>11. run'.at = "applyingOwn" => run.own \cap Stored("applied") = {}
  <2>1. PICK i \in Inputs : run.own = {i}
    BY <1>1, OwnOne
  <2>. QED  BY <1>3, <1>5, <1>6, <2>1
<1>12. run.at \in Loop /\ run.at \in {"taken", "applying"} /\ run'.at \in Loop /\ (run'.at = "applying" => prepared # <<>>)
  BY <1>1, <1>4, <1>5, <1>6 DEF Loop
<1>. QED  BY ONLY ActInv, <1>6, <1>7, <1>9, <1>10, <1>11, <1>12, LoopMoves

\* What a run restores: what is stored and neither applied, nor its own, nor at hand.
LEMMA WhatIsLeft ==
  ASSUME ActInv
  PROVE  /\ LeftOver \in Seq(Inputs) /\ IsInjective(LeftOver)
         /\ ToSet(LeftOver) = Stored("input") \ (Stored("applied") \cup run.own \cup ToSet(inputs) \cup InLine)
<1>. DEFINE left == {i \in Stored("input") : /\ i \notin Stored("applied") \cup run.own \cup ToSet(inputs)
                                             /\ i \notin InLine}
<1>. DEFINE events == Kept(eventLog, {"input"} \X left)
<1>1. eventLog \in Seq({"input", "applied"} \X Inputs) /\ IsInjective(eventLog)
  BY DEF ActInv, ActTypes, LogInv, ConsumedOnce
<1>2. /\ events \in Seq({"input", "applied"} \X Inputs)
      /\ ToSet(events) = ToSet(eventLog) \cap ({"input"} \X left)
      /\ IsInjective(events)
  BY <1>1, ListKept
<1>3. \A i : i \in left => <<"input", i>> \in ToSet(eventLog)
  BY <1>1, StoredElements
<1>4. LeftOver = [k \in DOMAIN events |-> events[k][2]]
  BY DEF LeftOver
<1>5. left = Stored("input") \ (Stored("applied") \cup run.own \cup ToSet(inputs) \cup InLine)
  OBVIOUS
<1>6. left \subseteq Inputs
  BY <1>1, StoredElements
<1>. HIDE DEF events, left
<1>7. /\ Len(events) \in Nat /\ DOMAIN events = 1..Len(events)
      /\ \A x : x \in ToSet(events) <=> \E k \in 1..Len(events) : events[k] = x
  BY <1>2, ListElements
<1>8. \A k \in 1..Len(events) : events[k] \in {"input"} \X left
  BY <1>2, <1>7
<1>9. \A k \in 1..Len(events) : events[k] = <<"input", events[k][2]>> /\ events[k][2] \in left
  BY <1>8
<1>10. LeftOver \in Seq(Inputs) /\ DOMAIN LeftOver = 1..Len(events)
  <2>1. LeftOver = [k \in 1..Len(events) |-> events[k][2]]
    BY <1>4, <1>7
  <2>2. \A k \in 1..Len(events) : events[k][2] \in Inputs
    BY <1>6, <1>9
  <2>3. LeftOver \in [1..Len(events) -> Inputs]
    BY <2>1, <2>2
  <2>4. Seq(Inputs) = UNION {[1..n -> Inputs] : n \in Nat}
    BY SeqDef
  <2>. QED  BY <1>7, <2>3, <2>4
<1>11. \A k \in 1..Len(events) : LeftOver[k] = events[k][2]
  BY <1>4, <1>7
<1>12. IsInjective(LeftOver)
  <2>1. \A k, l \in 1..Len(events) : LeftOver[k] = LeftOver[l] => events[k] = events[l]
    BY <1>9, <1>11
  <2>2. \A k, l \in 1..Len(events) : events[k] = events[l] => k = l
    BY <1>2, <1>7 DEF IsInjective
  <2>. QED  BY <1>10, <2>1, <2>2 DEF IsInjective
<1>13. ToSet(LeftOver) = left
  <2>1. \A x : x \in ToSet(LeftOver) <=> \E k \in 1..Len(events) : events[k][2] = x
    BY <1>10, <1>11 DEF ToSet
  <2>2. \A x \in left : <<"input", x>> \in ToSet(events)
    BY <1>2, <1>3
  <2>3. \A x \in left : \E k \in 1..Len(events) : events[k] = <<"input", x>> /\ events[k][2] = x
    <3>1. TAKE x \in left
    <3>2. PICK k \in 1..Len(events) : events[k] = <<"input", x>>
      BY <1>7, <2>2
    <3>3. events[k][2] = x
      BY <3>2
    <3>. QED  BY <3>2, <3>3
  <2>. QED  BY <1>9, <2>1, <2>3
<1>. QED  BY <1>5, <1>10, <1>12, <1>13

\* A turn takes up what has come in, and in the first turn what earlier runs left.
LEMMA TakeInputsKeeps == ActInv /\ TakeInputs => ActInv'
<1>. SUFFICES ASSUME ActInv, TakeInputs PROVE ActInv'
  OBVIOUS
<1>1. run \in ActRun /\ run.at = "gated" /\ ~run.aborted
  BY DEF TakeInputs, ActInv, ActTypes
<1>2. /\ run' \in ActRun /\ run'.at = "taken" /\ run'.own = run.own /\ run'.restored
      /\ run'.aborted = run.aborted
  BY <1>1 DEF TakeInputs, ActRun, Places, Loop
<1>3. UNCHANGED <<status, steers, inputLine, writes, eventLog, said>>
  BY DEF TakeInputs
<1>4. /\ Restored \in Seq(Inputs) /\ IsInjective(Restored)
      /\ ToSet(Restored) \subseteq Stored("input") \ (Stored("applied") \cup run.own \cup ToSet(inputs))
      /\ ~run.restored => ToSet(Restored) = Stored("input") \ (Stored("applied") \cup run.own \cup ToSet(inputs) \cup InLine)
  <2>1. <<>> \in Seq(Inputs) /\ IsInjective(<<>>) /\ ToSet(<<>>) = {}
    BY EmptySeq, ListElements DEF IsInjective
  <2>. QED  BY <2>1, WhatIsLeft DEF Restored
<1>5. Waiting(inputs) /\ inputs \in Seq(Inputs) /\ unapplied \in Seq(Inputs)
  BY <1>1 DEF ActInv, InputsInv, ActTypes, Loop
<1>6. /\ inputs' \in Seq(Inputs) /\ ToSet(inputs') = ToSet(inputs) \cup ToSet(Restored) /\ IsInjective(inputs')
  <2>1. inputs' = inputs \o Restored
    BY DEF TakeInputs
  <2>2. ToSet(inputs) \cap ToSet(Restored) = {} /\ IsInjective(inputs)
    BY <1>4, <1>5 DEF Waiting
  <2>. QED  BY <1>4, <1>5, <2>1, <2>2, ListsJoin
<1>7. prepared' = inputs'
  BY DEF TakeInputs
<1>8. unapplied' \in Seq(Inputs)
  <2>1. Kept(Restored, Inputs \ ToSet(unapplied)) \in Seq(Inputs)
    BY <1>4, ListKept
  <2>. QED  BY <1>5, <2>1, ListsJoin DEF TakeInputs
<1>9. Stored("input")' = Stored("input") /\ Stored("applied")' = Stored("applied") /\ (ConsumedOnce' <=> ConsumedOnce)
  BY <1>3, LogStays
<1>10. InLine' = InLine
  BY <1>3 DEF InLine
<1>11. goals' \in [fresh : BOOLEAN, completed : BOOLEAN]
  BY DEF TakeInputs, ActInv, ActTypes
<1>12. ActTypes'
  BY <1>2, <1>3, <1>6, <1>7, <1>8, <1>11 DEF ActInv, ActTypes
<1>13. OwnInv'
  BY <1>1, <1>2, <1>3 DEF ActInv, OwnInv
<1>14. LineInv'
  BY <1>3, <1>10 DEF ActInv, LineInv
<1>15. WritesInv'
  <2>1. RunWrites = {} /\ SteerWrites' = SteerWrites
    BY <1>1, <1>3 DEF RunWrites, SteerWrites
  <2>. QED  BY <1>3, <2>1, RunSilent DEF ActInv
<1>16. LogInv'
  BY <1>1, <1>2, <1>3, <1>9 DEF ActInv, LogInv, Loop
<1>17. InputsInv'
  <2>1. Waiting(inputs)'
    BY <1>2, <1>4, <1>5, <1>6, <1>9 DEF Waiting
  <2>2. Waiting(prepared)'
    BY <1>7, <2>1 DEF Waiting
  <2>. QED  BY <1>2, <2>1, <2>2 DEF InputsInv
<1>18. NothingForgotten'
  <2>1. run.restored => Stored("input") \ Stored("applied") \subseteq run.own \cup ToSet(inputs) \cup InLine
    BY <1>1 DEF ActInv, NothingForgotten
  <2>2. Stored("input") \ Stored("applied") \subseteq run.own \cup ToSet(inputs) \cup ToSet(Restored) \cup InLine
    BY <1>4, <2>1
  <2>. QED  BY <1>2, <1>6, <1>9, <1>10, <2>2 DEF NothingForgotten
<1>19. EndInv'
  BY <1>1, <1>2, <1>3 DEF ActInv, EndInv
<1>. QED  BY <1>12, <1>13, <1>14, <1>15, <1>16, <1>17, <1>18, <1>19 DEF ActInv

\* What the consumer has been told after an event that is neither retained nor terminal.
LEMMA EmittedSays ==
  ASSUME ActInv, NEW by, NEW kind \in {"input", "applied", "verification", "error", "paused"}, NEW i, NEW next,
         Emitted(Event(by, kind, i), next)
  PROVE  /\ said' = [terminal |-> said.terminal, retained |-> said.retained, late |-> said.late \/ said.terminal]
         /\ writes # <<>> /\ Head(writes) = Event(by, kind, i) /\ writes' = Tail(writes) \o next
         /\ ~said.terminal
         /\ said' = said
<1>1. said \in [terminal : BOOLEAN, retained : SUBSET Inputs, late : BOOLEAN] /\ ~said.late
  BY DEF ActInv, ActTypes, EndInv
<1>2. writes # <<>> /\ Head(writes) = Event(by, kind, i) /\ writes' = Tail(writes) \o next
  BY DEF Emitted
<1>3. ~said.terminal
  BY <1>2 DEF ActInv, EndInv
<1>4. Event(by, kind, i).kind = kind
  BY DEF Event
<1>5. /\ said'.terminal = said.terminal /\ said'.retained = said.retained /\ said'.late = (said.late \/ said.terminal)
      /\ said' = [terminal |-> said.terminal, retained |-> said.retained, late |-> said.late \/ said.terminal]
  BY <1>1, <1>3, <1>4 DEF Emitted
<1>6. said = [terminal |-> said.terminal, retained |-> said.retained, late |-> said.late]
  BY <1>1
<1>. QED  BY <1>1, <1>2, <1>3, <1>5, <1>6

\* The run's own input is stored: its first turn begins.
LEMMA OwnInputKeeps == ActInv /\ OwnInputWritten => ActInv'
<1>. SUFFICES ASSUME ActInv, OwnInputWritten PROVE ActInv'
  OBVIOUS
<1>1. run \in ActRun /\ run.at = "began" /\ ~run.restored
  BY DEF OwnInputWritten, ActInv, ActTypes, OwnInv
<1>2. PICK i \in Inputs : run.own = {i} /\ steers[i] = "submitted" /\ OwnEvent("input") = Event("run", "input", i)
  BY <1>1, OwnOne
<1>3. Emitted(Event("run", "input", i), <<>>) /\ run' = [run EXCEPT !.at = "turn"]
  BY <1>2 DEF OwnInputWritten
<1>4. /\ run' \in ActRun /\ run'.at = "turn" /\ run'.own = run.own /\ run'.restored = run.restored
      /\ run'.aborted = run.aborted
  BY <1>1, <1>3 DEF ActRun, Places, Loop
<1>5. UNCHANGED <<status, inputs, prepared, steers, inputLine, goals>>
  BY DEF OwnInputWritten
<1>6. /\ writes # <<>> /\ Head(writes) = Event("run", "input", i) /\ writes' = Tail(writes) \o <<>>
      /\ ~said.terminal /\ said' = said
  BY <1>3, EmittedSays
<1>7. i \notin Stored("input")
  BY <1>1, <1>2 DEF ActInv, LogInv
<1>8. /\ eventLog' \in Seq({"input", "applied"} \X Inputs) /\ ConsumedOnce'
      /\ Stored("input")' = Stored("input") \cup {i} /\ Stored("applied")' = Stored("applied")
      /\ unapplied' \in Seq(Inputs)
  BY <1>3, <1>7, InputRecorded DEF ActInv, Emitted
<1>9. InLine' = InLine
  BY <1>5 DEF InLine
<1>10. WritesInv' /\ writes' \in Seq(Writes)
  <2>1. writes' = Tail(writes)
    BY <1>6, HeadTailProperties, ConcatEmptySeq DEF ActInv, ActTypes
  <2>2. RunWrites = {Head(writes)} /\ SteerWrites' = SteerWrites
    BY <1>1, <1>2, <1>5, <1>6 DEF RunWrites, SteerWrites
  <2>. QED  BY <1>6, <2>1, <2>2, RunWritten DEF ActInv
<1>11. ActTypes'
  BY <1>4, <1>5, <1>6, <1>8, <1>10 DEF ActInv, ActTypes
<1>12. OwnInv'
  BY <1>1, <1>4, <1>5 DEF ActInv, OwnInv
<1>13. LineInv'
  BY <1>5, <1>9 DEF ActInv, LineInv
<1>14. LogInv'
  BY <1>2, <1>4, <1>5, <1>8 DEF ActInv, LogInv, Loop
<1>15. InputsInv'
  <2>1. i \notin Stored("applied")
    BY <1>7 DEF ActInv, LogInv, ConsumedOnce
  <2>2. Waiting(inputs)
    BY <1>1 DEF ActInv, InputsInv
  <2>3. Waiting(inputs)'
    BY <1>4, <1>5, <1>8, <2>2 DEF Waiting
  <2>. QED  BY <1>4, <2>3 DEF InputsInv
<1>16. NothingForgotten'
  BY <1>1, <1>4 DEF NothingForgotten
<1>17. EndInv'
  BY <1>4, <1>6 DEF ActInv, EndInv
<1>. QED  BY <1>10, <1>11, <1>12, <1>13, <1>14, <1>15, <1>16, <1>17 DEF ActInv

\* The run's own input is reported as applied.
LEMMA OwnAppliedKeeps == ActInv /\ OwnAppliedWritten => ActInv'
<1>. SUFFICES ASSUME ActInv, OwnAppliedWritten PROVE ActInv'
  OBVIOUS
<1>1. run \in ActRun /\ run.at = "applyingOwn"
  BY DEF OwnAppliedWritten, ActInv, ActTypes
<1>2. PICK i \in Inputs : run.own = {i} /\ steers[i] = "submitted" /\ OwnEvent("applied") = Event("run", "applied", i)
  BY <1>1, OwnOne
<1>3. Emitted(Event("run", "applied", i), <<>>) /\ run' = [run EXCEPT !.at = "work"]
  BY <1>2 DEF OwnAppliedWritten
<1>4. /\ run' \in ActRun /\ run'.at = "work" /\ run'.own = run.own /\ run'.restored = run.restored
      /\ run'.aborted = run.aborted
  BY <1>1, <1>3 DEF ActRun, Places, Loop
<1>5. UNCHANGED <<status, inputs, prepared, steers, inputLine, goals>>
  BY DEF OwnAppliedWritten
<1>6. /\ writes # <<>> /\ Head(writes) = Event("run", "applied", i) /\ writes' = Tail(writes) \o <<>>
      /\ ~said.terminal /\ said' = said
  BY <1>3, EmittedSays
<1>7. i \in Stored("input") /\ i \notin Stored("applied")
  BY <1>1, <1>2 DEF ActInv, LogInv, Loop
<1>8. /\ eventLog' \in Seq({"input", "applied"} \X Inputs) /\ ConsumedOnce'
      /\ Stored("input")' = Stored("input") /\ Stored("applied")' = Stored("applied") \cup {i}
      /\ unapplied' \in Seq(Inputs)
  BY <1>3, <1>7, AppliedRecorded DEF ActInv, Emitted
<1>9. InLine' = InLine
  BY <1>5 DEF InLine
<1>10. WritesInv' /\ writes' \in Seq(Writes)
  <2>1. writes' = Tail(writes)
    BY <1>6, HeadTailProperties, ConcatEmptySeq DEF ActInv, ActTypes
  <2>2. RunWrites = {Head(writes)} /\ SteerWrites' = SteerWrites
    BY <1>1, <1>2, <1>5, <1>6 DEF RunWrites, SteerWrites
  <2>. QED  BY <1>6, <2>1, <2>2, RunWritten DEF ActInv
<1>11. ActTypes'
  BY <1>4, <1>5, <1>6, <1>8, <1>10 DEF ActInv, ActTypes
<1>12. OwnInv'
  BY <1>1, <1>4, <1>5 DEF ActInv, OwnInv
<1>13. LineInv'
  BY <1>5, <1>9 DEF ActInv, LineInv
<1>14. LogInv'
  BY <1>1, <1>4, <1>5, <1>8 DEF ActInv, LogInv, Loop
<1>15. InputsInv'
  <2>1. Waiting(inputs)
    BY <1>1 DEF ActInv, InputsInv, Loop
  <2>2. Waiting(inputs)'
    BY <1>2, <1>4, <1>5, <1>8, <2>1 DEF Waiting
  <2>. QED  BY <1>4, <2>2 DEF InputsInv
<1>16. NothingForgotten'
  BY <1>1, <1>4, <1>5, <1>8, <1>9 DEF ActInv, NothingForgotten
<1>17. EndInv'
  BY <1>4, <1>6 DEF ActInv, EndInv
<1>. QED  BY <1>10, <1>11, <1>12, <1>13, <1>14, <1>15, <1>16, <1>17 DEF ActInv

\* An input of the turn is reported as applied, and the next one follows.
LEMMA AppliedKeeps == ActInv /\ AppliedWritten => ActInv'
<1>. SUFFICES ASSUME ActInv, AppliedWritten PROVE ActInv'
  OBVIOUS
<1>1. /\ run \in ActRun /\ run.at = "applying" /\ prepared \in Seq(Inputs) /\ prepared # <<>>
      /\ inputs \in Seq(Inputs)
  BY DEF AppliedWritten, ActInv, ActTypes, InputsInv
<1>2. Waiting(inputs) /\ Waiting(prepared)
  BY <1>1 DEF ActInv, InputsInv, Loop
<1>3. PICK x \in Inputs, list \in Seq(Inputs) : x = Head(prepared) /\ list = Tail(prepared)
  BY <1>1, ListShrinks
<1>4. PICK ownApplied \in BOOLEAN : ownApplied = (run.own \subseteq Stored("applied"))
  OBVIOUS
<1>5. PICK at, emits : /\ ReportNext(list, ownApplied) = [at |-> at, emits |-> emits]
                       /\ run' = [run EXCEPT !.at = at] /\ Emitted(Event("run", "applied", x), emits)
  <2>1. PICK next : /\ next = ReportNext(list, ownApplied)
                    /\ run' = [run EXCEPT !.at = next.at] /\ Emitted(Event("run", "applied", x), next.emits)
    BY <1>3, <1>4 DEF AppliedWritten
  <2>2. next = [at |-> next.at, emits |-> next.emits]
    BY <2>1 DEF ReportNext
  <2>. QED  BY <2>1, <2>2
<1>6. \/ at = "work" /\ emits = <<>>
      \/ /\ at = "applying" /\ list # <<>>
         /\ \E e \in Writes : e = Event("run", "applied", Head(list)) /\ emits = <<e>> /\ e.by = "run"
      \/ /\ at = "applyingOwn" /\ ~ownApplied
         /\ \E e \in Writes : e = OwnEvent("applied") /\ emits = <<e>> /\ e.by = "run"
  <2>1. run.at # "none"
    BY <1>1
  <2>. QED  BY ONLY ActInv, <1>5, <2>1, NextReport
<1>7. /\ run' \in ActRun /\ run'.at = at /\ run'.own = run.own /\ run'.restored = run.restored
      /\ run'.aborted = run.aborted
  BY <1>1, <1>5, <1>6 DEF ActRun, Places, Loop
<1>8. inputs' = Without(inputs, x) /\ prepared' = list /\ UNCHANGED <<status, steers, inputLine, goals>>
  BY <1>3 DEF AppliedWritten
<1>9. /\ writes # <<>> /\ Head(writes) = Event("run", "applied", x) /\ writes' = Tail(writes) \o emits
      /\ ~said.terminal /\ said' = said
  BY <1>5, EmittedSays
<1>10. x \in ToSet(prepared) /\ ToSet(list) = ToSet(prepared) \ {x} /\ IsInjective(list)
  BY <1>1, <1>2, <1>3, ListShrinks DEF Waiting
<1>11. x \in Stored("input") /\ x \notin Stored("applied") /\ x \notin run.own
  BY <1>2, <1>10 DEF Waiting
<1>12. /\ eventLog' \in Seq({"input", "applied"} \X Inputs) /\ ConsumedOnce'
       /\ Stored("input")' = Stored("input") /\ Stored("applied")' = Stored("applied") \cup {x}
       /\ unapplied' \in Seq(Inputs)
  BY <1>5, <1>11, AppliedRecorded DEF ActInv, Emitted
<1>13. inputs' \in Seq(Inputs) /\ ToSet(inputs') = ToSet(inputs) \ {x} /\ IsInjective(inputs')
  BY <1>1, <1>2, <1>8, ListWithout DEF Waiting
<1>14. InLine' = InLine
  BY <1>8 DEF InLine
<1>15. WritesInv' /\ writes' \in Seq(Writes)
  <2>1. RunWrites = {Head(writes)} /\ SteerWrites' = SteerWrites
    BY <1>1, <1>3, <1>8, <1>9 DEF RunWrites, SteerWrites
  <2>2. Tail(writes) \in Seq(Writes)
    BY <1>9, HeadTailProperties DEF ActInv, ActTypes
  <2>3. CASE at = "work" /\ emits = <<>>
    <3>1. writes' = Tail(writes)
      BY <1>9, <2>2, <2>3, ConcatEmptySeq
    <3>. QED  BY <1>9, <2>1, <3>1, RunWritten DEF ActInv
  <2>4. ASSUME NEW e \in Writes, emits = <<e>>, e.by = "run",
               \/ at = "applying" /\ e = Event("run", "applied", Head(list))
               \/ at = "applyingOwn" /\ e = OwnEvent("applied")
        PROVE  WritesInv' /\ writes' \in Seq(Writes)
    <3>1. writes' = Append(Tail(writes), e)
      BY <1>9, <2>2, <2>4, AppendIsConcat
    <3>2. RunWrites' = {e}
      <4>1. OwnEvent("applied")' = OwnEvent("applied")
        BY <1>7 DEF OwnEvent
      <4>. QED  BY <1>7, <1>8, <2>4, <4>1 DEF RunWrites, Event
    <3>. QED  BY <1>9, <2>1, <2>4, <3>1, <3>2, RunWritesNext DEF ActInv
  <2>. QED  BY <1>6, <2>3, <2>4
<1>16. ActTypes'
  BY <1>7, <1>8, <1>9, <1>12, <1>13, <1>15 DEF ActInv, ActTypes
<1>17. OwnInv'
  BY <1>1, <1>6, <1>7, <1>8 DEF ActInv, OwnInv
<1>18. LineInv'
  BY <1>8, <1>14 DEF ActInv, LineInv
<1>19. LogInv'
  <2>1. at = "applyingOwn" => run.own \cap (Stored("applied") \cup {x}) = {}
    <3>1. PICK i \in Inputs : run.own = {i}
      BY <1>1, OwnOne
    <3>. QED  BY <1>4, <1>6, <1>11, <3>1
  <2>2. run.own \subseteq Stored("input")
    BY <1>1 DEF ActInv, LogInv, Loop
  <2>3. at # "began"
    BY <1>6
  <2>. QED  BY <1>7, <1>8, <1>12, <2>1, <2>2, <2>3 DEF ActInv, LogInv
<1>20. InputsInv'
  <2>1. Waiting(inputs)'
    BY <1>2, <1>7, <1>12, <1>13 DEF Waiting
  <2>2. Waiting(prepared)'
    BY <1>2, <1>7, <1>8, <1>10, <1>12 DEF Waiting
  <2>. QED  BY <1>6, <1>7, <1>8, <2>1, <2>2 DEF InputsInv
<1>21. NothingForgotten'
  BY <1>1, <1>7, <1>8, <1>12, <1>13, <1>14 DEF ActInv, NothingForgotten
<1>22. EndInv'
  BY <1>6, <1>7, <1>9 DEF ActInv, EndInv
<1>. QED  BY <1>15, <1>16, <1>17, <1>18, <1>19, <1>20, <1>21, <1>22 DEF ActInv

-----------------------------------------------------------------------------
(* The end of a run. *)

\* A step that leads to the end of the run, or on in it, and stores at most what the run
\* itself has to write, keeps the invariant.
LEMMA EndMoves ==
  ASSUME ActInv, run.at # "none",
         run' \in ActRun, run'.at \in {"erring", "retaining", "telling", "closing", "ending"}, run'.own = run.own,
         UNCHANGED <<inputs, prepared, steers, inputLine, goals>>,
         status' \in {"idle", "on", "over"}, said' \in [terminal : BOOLEAN, retained : SUBSET Inputs, late : BOOLEAN],
         eventLog' \in Seq({"input", "applied"} \X Inputs), ConsumedOnce',
         Stored("input")' \subseteq Stored("input") \cup run.own, unapplied' \in Seq(Inputs),
         writes' \in Seq(Writes), WritesInv', EndInv'
  PROVE  ActInv'
<1>1. ActTypes'
  BY DEF ActInv, ActTypes
<1>2. OwnInv'
  BY DEF ActInv, OwnInv
<1>3. LineInv'
  BY DEF ActInv, LineInv, InLine
<1>4. LogInv'
  BY DEF ActInv, OwnInv, LogInv, Loop
<1>5. InputsInv'
  BY DEF InputsInv, Loop
<1>6. NothingForgotten'
  BY DEF NothingForgotten
<1>. QED  BY <1>1, <1>2, <1>3, <1>4, <1>5, <1>6 DEF ActInv

\* The last input of the line.
LEMMA TheLast ==
  ASSUME ActTypes
  PROVE  /\ LastInLine \subseteq Inputs
         /\ inputLine # <<>> => inputLine[Len(inputLine)] \in LastInLine /\ inputLine[Len(inputLine)] \in InLine
<1>1. /\ Len(inputLine) \in Nat /\ ToSet(inputLine) \subseteq Inputs
      /\ \A x : x \in ToSet(inputLine) <=> \E k \in 1..Len(inputLine) : inputLine[k] = x
  BY ListElements DEF ActTypes
<1>2. inputLine # <<>> => Len(inputLine) \in 1..Len(inputLine)
  BY <1>1, EmptySeq DEF ActTypes
<1>. QED  BY <1>1, <1>2 DEF LastInLine, InLine

\* The end of the loop has been told: the run waits for the inputs under way.
LEMMA LoopEndsKeeps == ActInv /\ LoopEnds => ActInv'
<1>. SUFFICES ASSUME ActInv, LoopEnds PROVE ActInv'
  OBVIOUS
<1>1. run \in ActRun /\ run.at \in {"verified", "erring", "pausing"}
  BY DEF LoopEnds, ActInv, ActTypes
<1>2. PICK kind, ends : /\ kind \in {"verification", "error", "paused"}
                        /\ ends \in {"completed", "cancelled", "failed", "paused"}
                        /\ Emitted(Told(kind), <<>>) /\ run' = Retaining(ends)
                        /\ RunWrites = {Told(kind)}
                        /\ status' \in {status, "over"} /\ (ends # "paused" => status' = "over")
  <2>1. CASE run.at = "verified"
    <3>1. Emitted(Told("verification"), <<>>) /\ run' = Retaining("completed") /\ status' = "over"
      BY <2>1 DEF LoopEnds
    <3>2. RunWrites = {Told("verification")}
      BY <2>1 DEF RunWrites
    <3>. QED  BY <3>1, <3>2
  <2>2. CASE run.at = "erring"
    <3>1. PICK ends \in {"cancelled", "failed"} : Emitted(Told("error"), <<>>) /\ run' = Retaining(ends) /\ status' = "over"
      BY <2>2 DEF LoopEnds
    <3>2. RunWrites = {Told("error")}
      BY <2>2 DEF RunWrites
    <3>. QED  BY <3>1, <3>2
  <2>3. CASE run.at = "pausing"
    <3>1. Emitted(Told("paused"), <<>>) /\ run' = Retaining("paused") /\ status' = status
      BY <2>3 DEF LoopEnds
    <3>2. RunWrites = {Told("paused")}
      BY <2>3 DEF RunWrites
    <3>. QED  BY <3>1, <3>2
  <2>. QED  BY <1>1, <2>1, <2>2, <2>3
<1>3. /\ LastInLine \subseteq Inputs
      /\ inputLine # <<>> => inputLine[Len(inputLine)] \in LastInLine /\ inputLine[Len(inputLine)] \in InLine
  BY TheLast DEF ActInv
<1>4. /\ run' \in ActRun /\ run'.at = "retaining" /\ run'.own = run.own /\ run'.ends = ends
      /\ run'.awaited = LastInLine
  BY <1>1, <1>2, <1>3 DEF Retaining, ActRun, Places
<1>5. UNCHANGED <<inputs, prepared, steers, inputLine, goals>>
  BY DEF LoopEnds
<1>6. Emitted(Event("run", kind, "none"), <<>>)
  BY <1>2 DEF Told
<1>7. /\ writes # <<>> /\ Head(writes) = Event("run", kind, "none") /\ writes' = Tail(writes) \o <<>>
      /\ ~said.terminal /\ said' = said
  BY <1>2, <1>6, EmittedSays
<1>8. eventLog' = eventLog /\ unapplied' = unapplied
  BY <1>2, <1>6 DEF Emitted, Record, Event
<1>9. WritesInv' /\ writes' \in Seq(Writes)
  <2>1. writes' = Tail(writes)
    BY <1>7, HeadTailProperties, ConcatEmptySeq DEF ActInv, ActTypes
  <2>2. RunWrites = {Head(writes)} /\ SteerWrites' = SteerWrites
    BY <1>2, <1>5, <1>7 DEF SteerWrites, Told
  <2>. QED  BY <1>7, <2>1, <2>2, RunWritten DEF ActInv
<1>10. Stored("input")' = Stored("input") /\ ConsumedOnce'
  BY <1>8, LogStays DEF ActInv, LogInv
<1>11. EndInv'
  BY <1>2, <1>3, <1>4, <1>5, <1>7 DEF ActInv, EndInv
<1>12. /\ status' \in {"idle", "on", "over"} /\ said' \in [terminal : BOOLEAN, retained : SUBSET Inputs, late : BOOLEAN]
       /\ eventLog' \in Seq({"input", "applied"} \X Inputs) /\ unapplied' \in Seq(Inputs)
  BY <1>2, <1>7, <1>8 DEF ActInv, ActTypes
<1>13. run.at # "none" /\ Stored("input")' \subseteq Stored("input") \cup run.own
  BY <1>1, <1>10
<1>14. run'.at \in {"erring", "retaining", "telling", "closing", "ending"}
  BY <1>4
<1>. QED  BY ONLY ActInv, <1>4, <1>5, <1>9, <1>10, <1>11, <1>12, <1>13, <1>14, EndMoves

\* What is told next: an input that was not applied, or the terminal state.
LEMMA NextTold ==
  ASSUME ActInv, NEW k \in Nat \ {0}, NEW r, NEW emits, NEW list \in Seq(Inputs),
         TellNext(k, list) = [run |-> r, emits |-> emits]
  PROVE  \/ /\ k \in 1..Len(list) /\ r = [run EXCEPT !.at = "telling", !.told = k]
            /\ \E e \in Writes : e = Event("run", "retained", list[k]) /\ emits = <<e>> /\ e.by = "run"
         \/ /\ k > Len(list) /\ run.ends # "paused" /\ r = [run EXCEPT !.at = "closing"]
            /\ \E e \in Writes : e = Told("terminal") /\ emits = <<e>> /\ e.by = "run"
         \/ k > Len(list) /\ run.ends = "paused" /\ r = [run EXCEPT !.at = "ending", !.awaited = LastInLine] /\ emits = <<>>
<1>1. Len(list) \in Nat /\ \A j \in 1..Len(list) : list[j] \in Inputs
  BY LenProperties, ElementOfSeq
<1>2. CASE k <= Len(list)
  <2>1. r = [run EXCEPT !.at = "telling", !.told = k] /\ emits = <<Event("run", "retained", list[k])>>
    BY <1>2 DEF TellNext
  <2>2. k \in 1..Len(list)
    BY <1>1, <1>2
  <2>3. Event("run", "retained", list[k]) \in Writes /\ Event("run", "retained", list[k]).by = "run"
    BY <1>1, <2>2 DEF Event, Writes
  <2>. QED  BY <2>1, <2>2, <2>3
<1>3. CASE ~(k <= Len(list)) /\ run.ends # "paused"
  <2>1. r = [run EXCEPT !.at = "closing"] /\ emits = <<Told("terminal")>>
    BY <1>3 DEF TellNext
  <2>2. Told("terminal") \in Writes /\ Told("terminal").by = "run"
    BY DEF Told, Event, Writes
  <2>. QED  BY <1>1, <1>3, <2>1, <2>2
<1>4. CASE ~(k <= Len(list)) /\ run.ends = "paused"
  BY <1>1, <1>4 DEF TellNext
<1>. QED  BY <1>2, <1>3, <1>4

\* The inputs under way have settled: the first unapplied input is told, or the end.
LEMMA RetainKeeps == ActInv /\ Retain => ActInv'
<1>. SUFFICES ASSUME ActInv, Retain PROVE ActInv'
  OBVIOUS
<1>1. run \in ActRun /\ run.at = "retaining" /\ AwaitedSettled /\ unapplied \in Seq(Inputs)
  BY DEF Retain, ActInv, ActTypes
<1>2. PICK list \in Seq(Inputs) : list = unapplied
  BY <1>1
<1>3. PICK r, emits : TellNext(1, list) = [run |-> r, emits |-> emits] /\ run' = r /\ writes' = writes \o emits
  <2>1. PICK next : next = TellNext(1, list) /\ run' = next.run /\ writes' = writes \o next.emits
    BY <1>2 DEF Retain
  <2>2. next = [run |-> next.run, emits |-> next.emits]
    BY <2>1 DEF TellNext
  <2>. QED  BY <2>1, <2>2
<1>4. \/ /\ 1 \in 1..Len(list) /\ r = [run EXCEPT !.at = "telling", !.told = 1]
         /\ \E e \in Writes : e = Event("run", "retained", list[1]) /\ emits = <<e>> /\ e.by = "run"
      \/ /\ 1 > Len(list) /\ run.ends # "paused" /\ r = [run EXCEPT !.at = "closing"]
         /\ \E e \in Writes : e = Told("terminal") /\ emits = <<e>> /\ e.by = "run"
      \/ 1 > Len(list) /\ run.ends = "paused" /\ r = [run EXCEPT !.at = "ending", !.awaited = LastInLine] /\ emits = <<>>
  <2>1. PICK k \in Nat \ {0} : k = 1
    OBVIOUS
  <2>2. list \in Seq(Inputs) /\ TellNext(k, list) = [run |-> r, emits |-> emits] /\ k \in Nat \ {0}
    BY <1>2, <1>3, <2>1
  <2>3. \/ /\ k \in 1..Len(list) /\ r = [run EXCEPT !.at = "telling", !.told = k]
           /\ \E e \in Writes : e = Event("run", "retained", list[k]) /\ emits = <<e>> /\ e.by = "run"
        \/ /\ k > Len(list) /\ run.ends # "paused" /\ r = [run EXCEPT !.at = "closing"]
           /\ \E e \in Writes : e = Told("terminal") /\ emits = <<e>> /\ e.by = "run"
        \/ k > Len(list) /\ run.ends = "paused" /\ r = [run EXCEPT !.at = "ending", !.awaited = LastInLine] /\ emits = <<>>
    BY ONLY ActInv, <2>2, NextTold
  <2>. QED  BY <2>1, <2>3
<1>5. UNCHANGED <<status, inputs, prepared, unapplied, steers, inputLine, goals, eventLog, said>>
  BY DEF Retain
<1>6. ~said.terminal /\ ~said.late /\ (run.ends # "paused" => status = "over" /\ inputLine = <<>>)
  <2>1. inputLine # <<>> => inputLine[Len(inputLine)] \in InLine
    BY TheLast DEF ActInv
  <2>. QED  BY <1>1, <2>1 DEF ActInv, EndInv, AwaitedSettled
<1>7. RunWrites = {} /\ SteerWrites' = SteerWrites
  BY <1>1, <1>5 DEF RunWrites, SteerWrites
<1>8. LastInLine \subseteq Inputs
  BY TheLast DEF ActInv
<1>9. /\ run' \in ActRun /\ run'.own = run.own /\ run'.ends = run.ends /\ run'.at \in {"telling", "closing", "ending"}
      /\ WritesInv' /\ writes' \in Seq(Writes) /\ EndInv'
  <2>1. CASE 1 \in 1..Len(list) /\ r = [run EXCEPT !.at = "telling", !.told = 1]
             /\ \E e \in Writes : e = Event("run", "retained", list[1]) /\ emits = <<e>> /\ e.by = "run"
    <3>1. PICK e \in Writes : e = Event("run", "retained", list[1]) /\ emits = <<e>> /\ e.by = "run"
      BY <2>1
    <3>2. run' \in ActRun /\ run'.own = run.own /\ run'.ends = run.ends /\ run'.at = "telling" /\ run'.told = 1
      BY <1>1, <1>3, <2>1 DEF ActRun, Places
    <3>3. writes' = Append(writes, e)
      BY <1>3, <3>1, AppendIsConcat DEF ActInv, ActTypes
    <3>4. RunWrites' = {e}
      BY <1>2, <1>5, <3>1, <3>2 DEF RunWrites
    <3>5. WritesInv' /\ writes' \in Seq(Writes)
      BY <1>7, <3>1, <3>3, <3>4, RunEmits DEF ActInv
    <3>6. 1 \in DOMAIN unapplied' /\ 1..(1 - 1) = {}
      BY <1>2, <1>5, <2>1, LenProperties
    <3>7. EndInv'
      BY <1>5, <1>6, <3>2, <3>6 DEF EndInv
    <3>. QED  BY <3>2, <3>5, <3>7
  <2>2. CASE 1 > Len(list) /\ run.ends # "paused" /\ r = [run EXCEPT !.at = "closing"]
             /\ \E e \in Writes : e = Told("terminal") /\ emits = <<e>> /\ e.by = "run"
    <3>1. PICK e \in Writes : e = Told("terminal") /\ emits = <<e>> /\ e.by = "run"
      BY <2>2
    <3>2. run' \in ActRun /\ run'.own = run.own /\ run'.ends = run.ends /\ run'.at = "closing"
      BY <1>1, <1>3, <2>2 DEF ActRun, Places
    <3>3. writes' = Append(writes, e)
      BY <1>3, <3>1, AppendIsConcat DEF ActInv, ActTypes
    <3>4. RunWrites' = {e}
      BY <3>1, <3>2 DEF RunWrites, Told, Event
    <3>5. WritesInv' /\ writes' \in Seq(Writes)
      BY <1>7, <3>1, <3>3, <3>4, RunEmits DEF ActInv
    <3>6. ToSet(unapplied') = {}
      <4>1. list = <<>>
        BY <2>2, EmptySeq, LenProperties
      <4>. QED  BY <1>1, <1>2, <1>5, <4>1, ListElements
    <3>7. EndInv'
      BY <1>5, <1>6, <2>2, <3>2, <3>6 DEF EndInv
    <3>. QED  BY <3>2, <3>5, <3>7
  <2>3. CASE 1 > Len(list) /\ run.ends = "paused" /\ r = [run EXCEPT !.at = "ending", !.awaited = LastInLine] /\ emits = <<>>
    <3>1. run' \in ActRun /\ run'.own = run.own /\ run'.ends = run.ends /\ run'.at = "ending"
      BY <1>1, <1>3, <1>8, <2>3 DEF ActRun, Places
    <3>2. writes' = writes
      BY <1>3, <2>3, ConcatEmptySeq DEF ActInv, ActTypes
    <3>3. WritesInv' /\ writes' \in Seq(Writes)
      BY <1>7, <3>2, RunSilent DEF ActInv
    <3>4. EndInv'
      BY <1>5, <1>6, <3>1 DEF EndInv
    <3>. QED  BY <3>1, <3>3, <3>4
  <2>. QED  BY <1>4, <2>1, <2>2, <2>3
<1>10. Stored("input")' = Stored("input") /\ ConsumedOnce'
  BY <1>5, LogStays DEF ActInv, LogInv
<1>11. /\ status' \in {"idle", "on", "over"} /\ said' \in [terminal : BOOLEAN, retained : SUBSET Inputs, late : BOOLEAN]
       /\ eventLog' \in Seq({"input", "applied"} \X Inputs) /\ unapplied' \in Seq(Inputs)
  BY <1>5 DEF ActInv, ActTypes
<1>12. run.at # "none" /\ Stored("input")' \subseteq Stored("input") \cup run.own
  BY <1>1, <1>10
<1>13. run'.at \in {"erring", "retaining", "telling", "closing", "ending"}
  BY <1>9
<1>. QED  BY ONLY ActInv, <1>5, <1>9, <1>10, <1>11, <1>12, <1>13, EndMoves

\* An input has been told: the next one follows, or the end.
LEMMA RetainedToldKeeps == ActInv /\ RetainedTold => ActInv'
<1>. SUFFICES ASSUME ActInv, RetainedTold PROVE ActInv'
  OBVIOUS
<1>1. run \in ActRun /\ run.at = "telling" /\ unapplied \in Seq(Inputs) /\ run.told \in DOMAIN unapplied
  BY DEF RetainedTold, ActInv, ActTypes, EndInv
<1>2. PICK list \in Seq(Inputs) : list = unapplied
  BY <1>1
<1>3. PICK told, x : told = run.told /\ x = list[told]
  OBVIOUS
<1>4. Len(list) \in Nat /\ DOMAIN list = 1..Len(list) /\ told \in 1..Len(list) /\ told + 1 \in Nat \ {0} /\ x \in Inputs
      /\ \A y \in ToSet(list) : \E k \in 1..Len(list) : list[k] = y
  <2>1. /\ Len(list) \in Nat /\ DOMAIN list = 1..Len(list)
        /\ \A y : y \in ToSet(list) <=> \E k \in 1..Len(list) : list[k] = y
    BY <1>2, ListElements
  <2>2. told \in 1..Len(list)
    BY <1>1, <1>2, <1>3, <2>1
  <2>. QED  BY <1>2, <1>3, <2>1, <2>2, ElementOfSeq
<1>5. PICK next : next = told + 1
  OBVIOUS
<1>6. PICK r, emits : /\ TellNext(next, list) = [run |-> r, emits |-> emits] /\ run' = r
                      /\ Emitted(Event("run", "retained", x), emits)
  <2>1. PICK n : n = TellNext(next, list) /\ run' = n.run /\ Emitted(Event("run", "retained", x), n.emits)
    BY <1>2, <1>3, <1>5 DEF RetainedTold
  <2>2. n = [run |-> n.run, emits |-> n.emits]
    BY <2>1 DEF TellNext
  <2>. QED  BY <2>1, <2>2
<1>7. \/ /\ next \in 1..Len(list) /\ r = [run EXCEPT !.at = "telling", !.told = next]
         /\ \E e \in Writes : e = Event("run", "retained", list[next]) /\ emits = <<e>> /\ e.by = "run"
      \/ /\ next > Len(list) /\ run.ends # "paused" /\ r = [run EXCEPT !.at = "closing"]
         /\ \E e \in Writes : e = Told("terminal") /\ emits = <<e>> /\ e.by = "run"
      \/ next > Len(list) /\ run.ends = "paused" /\ r = [run EXCEPT !.at = "ending", !.awaited = LastInLine] /\ emits = <<>>
  <2>1. next \in Nat \ {0} /\ list \in Seq(Inputs)
    BY <1>2, <1>4, <1>5
  <2>. QED  BY ONLY ActInv, <1>6, <2>1, NextTold
<1>8. UNCHANGED <<status, inputs, prepared, steers, inputLine, goals>>
  BY DEF RetainedTold
<1>9. /\ writes # <<>> /\ Head(writes) = Event("run", "retained", x) /\ writes' = Tail(writes) \o emits
      /\ eventLog' = eventLog /\ unapplied' = unapplied
  BY <1>6 DEF Emitted, Record, Event
<1>10. ~said.terminal /\ ~said.late
  BY <1>1 DEF ActInv, EndInv
<1>11. said' = [terminal |-> FALSE, retained |-> said.retained \cup {x}, late |-> FALSE]
  BY <1>6, <1>10 DEF Emitted, Event
<1>12. run.ends # "paused" => /\ status = "over" /\ inputLine = <<>>
                              /\ \A k \in 1..(told - 1) : list[k] \in said.retained
  BY <1>1, <1>2, <1>3 DEF ActInv, EndInv
<1>13. RunWrites = {Head(writes)} /\ SteerWrites' = SteerWrites
  BY <1>1, <1>2, <1>3, <1>8, <1>9 DEF RunWrites, SteerWrites
<1>14. LastInLine \subseteq Inputs /\ Tail(writes) \in Seq(Writes)
  BY <1>9, TheLast, HeadTailProperties DEF ActInv, ActTypes
<1>15. \A k \in 1..told : k = told \/ k \in 1..(told - 1)
  BY <1>4
<1>16. run.ends # "paused" => \A k \in 1..told : list[k] \in said'.retained
  BY <1>3, <1>11, <1>12, <1>15
<1>17. ~said'.terminal /\ ~said'.late
  BY <1>11
<1>18. /\ run' \in ActRun /\ run'.own = run.own /\ run'.at \in {"telling", "closing", "ending"}
       /\ WritesInv' /\ writes' \in Seq(Writes) /\ EndInv'
  <2>1. CASE next \in 1..Len(list) /\ r = [run EXCEPT !.at = "telling", !.told = next]
             /\ \E e \in Writes : e = Event("run", "retained", list[next]) /\ emits = <<e>> /\ e.by = "run"
    <3>1. PICK e \in Writes : e = Event("run", "retained", list[next]) /\ emits = <<e>> /\ e.by = "run"
      BY <2>1
    <3>2. run' \in ActRun /\ run'.own = run.own /\ run'.ends = run.ends /\ run'.at = "telling" /\ run'.told = next
      BY <1>1, <1>4, <1>5, <1>6, <2>1 DEF ActRun, Places
    <3>3. writes' = Append(Tail(writes), e)
      BY <1>9, <1>14, <3>1, AppendIsConcat
    <3>4. RunWrites' = {e}
      BY <1>2, <1>9, <3>1, <3>2 DEF RunWrites
    <3>5. WritesInv' /\ writes' \in Seq(Writes)
      BY <1>9, <1>13, <3>1, <3>3, <3>4, RunWritesNext DEF ActInv
    <3>6. run'.told \in DOMAIN unapplied' /\ 1..(run'.told - 1) = 1..told
      BY <1>2, <1>4, <1>5, <1>9, <2>1, <3>2
    <3>7. run'.ends # "paused" => \A k \in 1..(run'.told - 1) : unapplied'[k] \in said'.retained
      BY <1>2, <1>9, <1>16, <3>2, <3>6
    <3>8. EndInv'
      BY <1>8, <1>12, <1>17, <3>2, <3>6, <3>7 DEF EndInv
    <3>. QED  BY <3>2, <3>5, <3>8
  <2>2. CASE next > Len(list) /\ run.ends # "paused" /\ r = [run EXCEPT !.at = "closing"]
             /\ \E e \in Writes : e = Told("terminal") /\ emits = <<e>> /\ e.by = "run"
    <3>1. PICK e \in Writes : e = Told("terminal") /\ emits = <<e>> /\ e.by = "run"
      BY <2>2
    <3>2. run' \in ActRun /\ run'.own = run.own /\ run'.ends = run.ends /\ run'.at = "closing"
      BY <1>1, <1>6, <2>2 DEF ActRun, Places
    <3>3. writes' = Append(Tail(writes), e)
      BY <1>9, <1>14, <3>1, AppendIsConcat
    <3>4. RunWrites' = {e}
      BY <3>1, <3>2 DEF RunWrites, Told, Event
    <3>5. WritesInv' /\ writes' \in Seq(Writes)
      BY <1>9, <1>13, <3>1, <3>3, <3>4, RunWritesNext DEF ActInv
    <3>6. ToSet(unapplied') \subseteq said'.retained
      <4>1. 1..Len(list) = 1..told
        BY <1>4, <1>5, <2>2
      <4>2. \A y \in ToSet(list) : y \in said'.retained
        BY <1>4, <1>16, <2>2, <4>1
      <4>. QED  BY <1>2, <1>9, <4>2
    <3>7. EndInv'
      BY <1>8, <1>12, <1>17, <2>2, <3>2, <3>6 DEF EndInv
    <3>. QED  BY <3>2, <3>5, <3>7
  <2>3. CASE next > Len(list) /\ run.ends = "paused" /\ r = [run EXCEPT !.at = "ending", !.awaited = LastInLine] /\ emits = <<>>
    <3>1. run' \in ActRun /\ run'.own = run.own /\ run'.ends = run.ends /\ run'.at = "ending"
      BY <1>1, <1>6, <1>14, <2>3 DEF ActRun, Places
    <3>2. writes' = Tail(writes)
      BY <1>9, <1>14, <2>3, ConcatEmptySeq
    <3>3. WritesInv' /\ writes' \in Seq(Writes)
      BY <1>9, <1>13, <3>2, RunWritten DEF ActInv
    <3>4. EndInv'
      BY <1>8, <1>17, <3>1 DEF EndInv
    <3>. QED  BY <3>1, <3>3, <3>4
  <2>. QED  BY <1>7, <2>1, <2>2, <2>3
<1>19. Stored("input")' = Stored("input") /\ ConsumedOnce'
  BY <1>9, LogStays DEF ActInv, LogInv
<1>20. /\ status' \in {"idle", "on", "over"} /\ said' \in [terminal : BOOLEAN, retained : SUBSET Inputs, late : BOOLEAN]
       /\ eventLog' \in Seq({"input", "applied"} \X Inputs) /\ unapplied' \in Seq(Inputs)
  BY <1>4, <1>8, <1>9, <1>11 DEF ActInv, ActTypes
<1>21. run.at # "none" /\ Stored("input")' \subseteq Stored("input") \cup run.own
  BY <1>1, <1>19
<1>22. run'.at \in {"erring", "retaining", "telling", "closing", "ending"}
  BY <1>18
<1>. QED  BY ONLY ActInv, <1>8, <1>18, <1>19, <1>20, <1>21, <1>22, EndMoves

\* The terminal state has been told: nothing is left to be written or told.
LEMMA TerminalToldKeeps == ActInv /\ TerminalTold => ActInv'
<1>. SUFFICES ASSUME ActInv, TerminalTold PROVE ActInv'
  OBVIOUS
<1>1. run \in ActRun /\ run.at = "closing"
  BY DEF TerminalTold, ActInv, ActTypes
<1>2. /\ ~said.terminal /\ ~said.late /\ run.ends # "paused" /\ status = "over" /\ inputLine = <<>>
      /\ ToSet(unapplied) \subseteq said.retained
  BY <1>1 DEF ActInv, EndInv
<1>3. LastInLine \subseteq Inputs
  BY TheLast DEF ActInv
<1>4. run' \in ActRun /\ run'.own = run.own /\ run'.at = "ending"
  BY <1>1, <1>3 DEF TerminalTold, ActRun, Places
<1>5. UNCHANGED <<status, inputs, prepared, steers, inputLine, goals>>
  BY DEF TerminalTold
<1>6. Emitted(Event("run", "terminal", "none"), <<>>)
  BY DEF TerminalTold, Told
<1>7. /\ writes # <<>> /\ Head(writes) = Event("run", "terminal", "none") /\ writes' = Tail(writes) \o <<>>
      /\ eventLog' = eventLog /\ unapplied' = unapplied
  BY <1>6 DEF Emitted, Record, Event
<1>8. said' = [terminal |-> TRUE, retained |-> said.retained, late |-> FALSE]
  BY <1>2, <1>6 DEF Emitted, Event
<1>9. Tail(writes) \in Seq(Writes) /\ writes' = Tail(writes)
  BY <1>7, HeadTailProperties, ConcatEmptySeq DEF ActInv, ActTypes
<1>10. RunWrites = {Head(writes)} /\ SteerWrites' = SteerWrites
  BY <1>1, <1>5, <1>7 DEF RunWrites, SteerWrites, Told
<1>11. WritesInv' /\ writes' \in Seq(Writes) /\ ToSet(writes') \subseteq SteerWrites'
  BY <1>7, <1>9, <1>10, RunWritten DEF ActInv
<1>12. writes' = <<>>
  <2>1. \A i \in Inputs : steers[i] # "writing"
    BY <1>2 DEF ActInv, LineInv
  <2>2. SteerWrites' = {}
    BY <1>10, <2>1 DEF SteerWrites
  <2>3. ToSet(writes') = {}
    BY <1>11, <2>2
  <2>. QED  BY <1>11, <2>3, ListElements
<1>13. EndInv'
  <2>1. ToSet(unapplied') \subseteq said'.retained /\ ~said'.late
    BY <1>2, <1>7, <1>8
  <2>. QED  BY <1>2, <1>4, <1>5, <1>12, <2>1 DEF EndInv
<1>14. Stored("input")' = Stored("input") /\ ConsumedOnce'
  BY <1>7, LogStays DEF ActInv, LogInv
<1>15. /\ status' \in {"idle", "on", "over"} /\ said' \in [terminal : BOOLEAN, retained : SUBSET Inputs, late : BOOLEAN]
       /\ eventLog' \in Seq({"input", "applied"} \X Inputs) /\ unapplied' \in Seq(Inputs)
  BY <1>5, <1>7, <1>8 DEF ActInv, ActTypes
<1>16. run.at # "none" /\ Stored("input")' \subseteq Stored("input") \cup run.own
  BY <1>1, <1>14
<1>17. run'.at \in {"erring", "retaining", "telling", "closing", "ending"}
  BY <1>4
<1>. QED  BY ONLY ActInv, <1>4, <1>5, <1>11, <1>13, <1>14, <1>15, <1>16, <1>17, EndMoves

\* The consumer has seen every event: the run is gone, and what waits in the line is stale.
LEMMA EndRunKeeps == ActInv /\ EndRun => ActInv'
<1>. SUFFICES ASSUME ActInv, EndRun PROVE ActInv'
  OBVIOUS
<1>1. run.at = "ending" /\ run' = NoRun
  BY DEF EndRun
<1>2. run' \in ActRun /\ run'.at = "none" /\ run'.own = {}
  BY <1>1 DEF NoRun, ActRun, Places
<1>3. UNCHANGED <<status, inputs, prepared, unapplied, inputLine, writes, goals, eventLog, said>>
  BY DEF EndRun
<1>4. \A i \in Inputs : \/ steers[i] = "queued" /\ steers'[i] = "stale"
                        \/ steers[i] # "queued" /\ steers'[i] = steers[i]
  BY DEF EndRun
<1>5. steers' \in [Inputs -> {"new", "submitted", "queued", "stale", "ingested", "writing",
                              "accepted", "refused", "lost"}]
  BY DEF EndRun, ActInv, ActTypes
<1>6. SteerWrites' = SteerWrites
  BY <1>4 DEF SteerWrites
<1>7. WritesInv' /\ writes' \in Seq(Writes)
  <2>1. RunWrites = {}
    BY <1>1 DEF RunWrites
  <2>. QED  BY <1>3, <1>6, <2>1, RunSilent DEF ActInv
<1>8. Stored("input")' = Stored("input") /\ Stored("applied")' = Stored("applied") /\ ConsumedOnce'
  BY <1>3, LogStays DEF ActInv, LogInv
<1>9. ActTypes'
  BY <1>2, <1>3, <1>5 DEF ActInv, ActTypes
<1>10. OwnInv'
  BY <1>2 DEF OwnInv
<1>11. LineInv'
  BY <1>3, <1>4 DEF ActInv, LineInv, InLine
<1>12. LogInv'
  BY <1>2, <1>4, <1>8 DEF ActInv, LogInv, Loop
<1>13. InputsInv' /\ NothingForgotten'
  BY <1>2 DEF InputsInv, NothingForgotten, Loop
<1>14. EndInv'
  BY <1>1, <1>2, <1>3 DEF ActInv, EndInv
<1>. QED  BY <1>7, <1>9, <1>10, <1>11, <1>12, <1>13, <1>14 DEF ActInv

\* What a run waits for does not change with what it knows beside its place.
LEMMA SameWrites ==
  ASSUME run'.at = run.at, run'.own = run.own, run'.told = run.told, prepared' = prepared,
         run.at = "telling" => unapplied'[run.told] = unapplied[run.told]
  PROVE  RunWrites' = RunWrites
<1>1. OwnEvent("input")' = OwnEvent("input") /\ OwnEvent("applied")' = OwnEvent("applied")
  BY DEF OwnEvent
<1>. QED  BY <1>1 DEF RunWrites, Event, Told

\* A run that is aborted.
LEMMA CancelActKeeps == ActInv /\ CancelAct => ActInv'
<1>. SUFFICES ASSUME ActInv, CancelAct PROVE ActInv'
  OBVIOUS
<1>1. run \in ActRun /\ run' = [run EXCEPT !.aborted = TRUE]
  BY DEF CancelAct, ActInv, ActTypes
<1>2. /\ run' \in ActRun /\ run'.at = run.at /\ run'.own = run.own /\ run'.told = run.told /\ run'.ends = run.ends
      /\ run'.restored = run.restored /\ run'.awaited = run.awaited /\ run'.aborted
  BY <1>1 DEF ActRun
<1>3. UNCHANGED <<status, inputs, prepared, unapplied, steers, inputLine, writes, goals, eventLog, said>>
  BY DEF CancelAct
<1>4. WritesInv'
  <2>1. RunWrites' = RunWrites /\ SteerWrites' = SteerWrites
    BY <1>2, <1>3, SameWrites DEF SteerWrites
  <2>. QED  BY <1>3, <2>1 DEF ActInv, WritesInv
<1>5. Stored("input")' = Stored("input") /\ Stored("applied")' = Stored("applied") /\ ConsumedOnce'
  BY <1>3, LogStays DEF ActInv, LogInv
<1>6. ActTypes'
  BY <1>2, <1>3 DEF ActInv, ActTypes
<1>7. OwnInv'
  BY <1>2, <1>3 DEF ActInv, OwnInv
<1>8. LineInv'
  BY <1>3 DEF ActInv, LineInv, InLine
<1>9. LogInv'
  BY <1>2, <1>3, <1>5 DEF ActInv, LogInv
<1>10. InputsInv'
  <2>1. (Waiting(inputs)' <=> Waiting(inputs)) /\ (Waiting(prepared)' <=> Waiting(prepared))
    BY <1>2, <1>3, <1>5 DEF Waiting
  <2>. QED  BY <1>2, <1>3, <2>1 DEF ActInv, InputsInv
<1>11. NothingForgotten'
  BY <1>2 DEF NothingForgotten
<1>12. EndInv'
  BY <1>2, <1>3 DEF ActInv, EndInv
<1>. QED  BY <1>4, <1>6, <1>7, <1>8, <1>9, <1>10, <1>11, <1>12 DEF ActInv

-----------------------------------------------------------------------------
(* The inputs. *)

\* A run is submitted.
LEMMA SubmitKeeps == \A i \in Inputs : ActInv /\ Submit(i) => ActInv'
<1>. SUFFICES ASSUME NEW i \in Inputs, ActInv, Submit(i) PROVE ActInv'
  OBVIOUS
<1>1. run.at = "none" /\ steers[i] = "new" /\ steers' = [steers EXCEPT ![i] = "submitted"]
  BY DEF Submit
<1>2. run' \in ActRun /\ run'.at = "began" /\ run'.own = {i} /\ ~run'.restored
  BY DEF Submit, NoRun, ActRun, Places
<1>3. /\ status' = "idle" /\ inputs' = <<>> /\ prepared' = <<>> /\ unapplied' = <<>>
      /\ goals' = [fresh |-> FALSE, completed |-> FALSE] /\ said' = Unsaid
      /\ UNCHANGED <<inputLine, eventLog>>
  BY DEF Submit
<1>4. PICK e \in Writes : e = Event("run", "input", i) /\ e.by = "run" /\ writes' = Append(writes, e)
  BY DEF Submit, Event, Writes
<1>5. /\ steers' \in [Inputs -> {"new", "submitted", "queued", "stale", "ingested", "writing",
                                 "accepted", "refused", "lost"}]
      /\ steers'[i] = "submitted" /\ \A j \in Inputs \ {i} : steers'[j] = steers[j]
  BY <1>1 DEF ActInv, ActTypes
<1>6. WritesInv' /\ writes' \in Seq(Writes)
  <2>1. RunWrites = {}
    BY <1>1 DEF RunWrites
  <2>2. RunWrites' = {e}
    BY <1>2, <1>4 DEF RunWrites, OwnEvent, Event
  <2>3. SteerWrites' = SteerWrites
    BY <1>1, <1>5 DEF SteerWrites
  <2>. QED  BY <1>4, <2>1, <2>2, <2>3, RunEmits DEF ActInv
<1>7. Stored("input")' = Stored("input") /\ Stored("applied")' = Stored("applied") /\ ConsumedOnce'
  BY <1>3, LogStays DEF ActInv, LogInv
<1>8. <<>> \in Seq(Inputs) /\ ToSet(<<>>) = {} /\ IsInjective(<<>>)
  BY EmptySeq, ListElements DEF IsInjective
<1>9. ActTypes'
  BY <1>2, <1>3, <1>5, <1>6, <1>8 DEF ActInv, ActTypes, Unsaid
<1>10. OwnInv'
  BY <1>2, <1>5 DEF OwnInv
<1>11. LineInv'
  BY <1>1, <1>3, <1>5 DEF ActInv, LineInv, InLine
<1>12. LogInv'
  <2>1. i \notin Stored("input")
    BY <1>1 DEF ActInv, LogInv
  <2>. QED  BY <1>2, <1>5, <1>7, <2>1 DEF ActInv, LogInv, Loop
<1>13. InputsInv' /\ NothingForgotten'
  <2>1. Waiting(inputs)'
    BY <1>3, <1>8 DEF Waiting
  <2>. QED  BY <1>2, <2>1 DEF InputsInv, NothingForgotten
<1>14. EndInv'
  BY <1>2, <1>3 DEF EndInv, Unsaid
<1>. QED  BY <1>6, <1>9, <1>10, <1>11, <1>12, <1>13, <1>14 DEF ActInv

\* A step of one input in the line that stores nothing and leaves the run where it is.
LEMMA SteerMoves ==
  ASSUME ActInv, NEW i \in Inputs, NEW st \in {"queued", "ingested", "writing"},
         steers' = [steers EXCEPT ![i] = st], steers[i] \in {"new", "queued", "ingested"},
         UNCHANGED <<run, status, inputs, prepared, unapplied, eventLog, said>>,
         goals' \in [fresh : BOOLEAN, completed : BOOLEAN],
         LineInv', inputLine' \in Seq(Inputs), InLine \subseteq InLine',
         writes' \in Seq(Writes), WritesInv', EndInv'
  PROVE  ActInv'
<1>1. /\ steers' \in [Inputs -> {"new", "submitted", "queued", "stale", "ingested", "writing",
                                 "accepted", "refused", "lost"}]
      /\ \A j \in Inputs : j = i \/ steers'[j] = steers[j]
  BY DEF ActInv, ActTypes
<1>2. Stored("input")' = Stored("input") /\ Stored("applied")' = Stored("applied") /\ ConsumedOnce'
  BY LogStays DEF ActInv, LogInv
<1>3. ActTypes'
  BY <1>1 DEF ActInv, ActTypes
<1>4. OwnInv'
  BY <1>1 DEF ActInv, OwnInv
<1>5. LogInv'
  BY <1>1, <1>2 DEF ActInv, LogInv
<1>6. InputsInv'
  <2>1. (Waiting(inputs)' <=> Waiting(inputs)) /\ (Waiting(prepared)' <=> Waiting(prepared))
    BY <1>2 DEF Waiting
  <2>. QED  BY <2>1 DEF ActInv, InputsInv
<1>7. NothingForgotten'
  BY <1>2 DEF ActInv, NothingForgotten
<1>. QED  BY <1>3, <1>4, <1>5, <1>6, <1>7 DEF ActInv

\* An input is handed to the run.
LEMMA SteerKeeps == \A i \in Inputs : ActInv /\ Steer(i) => ActInv'
<1>. SUFFICES ASSUME NEW i \in Inputs, ActInv, Steer(i) PROVE ActInv'
  OBVIOUS
<1>1. /\ steers[i] = "new" /\ run.at # "none" /\ status # "over" /\ steers' = [steers EXCEPT ![i] = "queued"]
      /\ inputLine' = Append(inputLine, i)
      /\ UNCHANGED <<run, status, inputs, prepared, unapplied, writes, goals, eventLog, said>>
  BY DEF Steer, Over
<1>2. i \notin InLine /\ inputLine \in Seq(Inputs) /\ IsInjective(inputLine)
  BY <1>1 DEF ActInv, ActTypes, LineInv
<1>3. /\ inputLine' \in Seq(Inputs) /\ inputLine' # <<>> /\ ToSet(inputLine') = ToSet(inputLine) \cup {i}
      /\ IsInjective(inputLine') /\ (inputLine # <<>> => Head(inputLine') = Head(inputLine))
  BY <1>1, <1>2, ListGrows DEF InLine
<1>4. InLine' = InLine \cup {i}
  BY <1>3 DEF InLine
<1>5. steers'[i] = "queued" /\ \A j \in Inputs : j = i \/ steers'[j] = steers[j]
  BY <1>1 DEF ActInv, ActTypes
<1>6. LineInv'
  BY <1>3, <1>4, <1>5 DEF ActInv, LineInv
<1>7. WritesInv' /\ writes' \in Seq(Writes)
  <2>1. SteerWrites' = SteerWrites
    BY <1>1, <1>5 DEF SteerWrites
  <2>2. RunWrites' = RunWrites
    BY <1>1, SameWrites
  <2>. QED  BY <1>1, <2>1, <2>2 DEF ActInv, ActTypes, WritesInv
<1>8. EndInv'
  BY <1>1 DEF ActInv, EndInv
<1>9. goals' \in [fresh : BOOLEAN, completed : BOOLEAN] /\ InLine \subseteq InLine'
  BY <1>1, <1>4 DEF ActInv, ActTypes
<1>. QED  BY <1>1, <1>3, <1>6, <1>7, <1>8, <1>9, SteerMoves

\* The input in front has been written to the context: its event is to be written.
LEMMA SteerEmitsKeeps == \A i \in Inputs : ActInv /\ SteerEmits(i) => ActInv'
<1>. SUFFICES ASSUME NEW i \in Inputs, ActInv, SteerEmits(i) PROVE ActInv'
  OBVIOUS
<1>1. /\ steers[i] = "ingested" /\ steers' = [steers EXCEPT ![i] = "writing"]
      /\ UNCHANGED <<run, status, inputs, prepared, unapplied, inputLine, goals, eventLog, said>>
  BY DEF SteerEmits
<1>2. PICK e \in Writes : e = Event("steer", "input", i) /\ e.by = "steer" /\ writes' = Append(writes, e)
  BY DEF SteerEmits, Event, Writes
<1>3. steers'[i] = "writing" /\ \A j \in Inputs : j = i \/ steers'[j] = steers[j]
  BY <1>1 DEF ActInv, ActTypes
<1>4. LineInv' /\ InLine' = InLine /\ i = Head(inputLine) /\ inputLine # <<>>
  BY <1>1, <1>3 DEF ActInv, LineInv, InLine
<1>5. \A j \in Inputs : steers[j] # "writing"
  BY <1>1, <1>4 DEF ActInv, LineInv
<1>6. WritesInv' /\ writes' \in Seq(Writes)
  <2>1. SteerWrites = {} /\ SteerWrites' = {e}
    BY <1>2, <1>3, <1>5 DEF SteerWrites
  <2>2. RunWrites' = RunWrites
    BY <1>1, SameWrites
  <2>3. ToSet(writes) \subseteq RunWrites /\ e \notin ToSet(writes)
    BY <1>2, <2>1, WhoWaits DEF ActInv, WritesInv
  <2>4. /\ writes' \in Seq(Writes) /\ ToSet(writes') = ToSet(writes) \cup {e}
        /\ IsInjective(writes) => IsInjective(writes')
    BY <1>2, <2>3, ListGrows DEF ActInv, ActTypes
  <2>. QED  BY <2>1, <2>2, <2>3, <2>4 DEF ActInv, WritesInv
<1>7. EndInv'
  BY <1>1, <1>4 DEF ActInv, EndInv
<1>8. goals' \in [fresh : BOOLEAN, completed : BOOLEAN] /\ inputLine' \in Seq(Inputs)
  BY <1>1 DEF ActInv, ActTypes
<1>. QED  BY <1>1, <1>4, <1>6, <1>7, <1>8, SteerMoves

\* The first input leaves the line: whoever is then first has yet to be taken up.
LEMMA LineShrinks ==
  ASSUME ActInv, NEW i \in Inputs, NEW st \in {"refused", "accepted"},
         inputLine # <<>>, Head(inputLine) = i, inputLine' = Tail(inputLine),
         steers' = [steers EXCEPT ![i] = st]
  PROVE  /\ LineInv' /\ inputLine' \in Seq(Inputs) /\ InLine' = InLine \ {i} /\ i \in InLine
         /\ steers' \in [Inputs -> {"new", "submitted", "queued", "stale", "ingested", "writing",
                                    "accepted", "refused", "lost"}]
         /\ \A j \in Inputs : IF j = i THEN steers'[j] = st ELSE steers'[j] = steers[j]
         /\ SteerWrites' = {}
         /\ inputLine' # <<>> => inputLine'[Len(inputLine')] = inputLine[Len(inputLine)]
<1>1. inputLine \in Seq(Inputs) /\ IsInjective(inputLine)
  BY DEF ActInv, ActTypes, LineInv
<1>2. /\ inputLine' \in Seq(Inputs) /\ i \in ToSet(inputLine)
      /\ ToSet(inputLine') = ToSet(inputLine) \ {i} /\ IsInjective(inputLine')
      /\ inputLine' # <<>> => inputLine'[Len(inputLine')] = inputLine[Len(inputLine)]
  BY <1>1, ListShrinks
<1>3. /\ steers' \in [Inputs -> {"new", "submitted", "queued", "stale", "ingested", "writing",
                                 "accepted", "refused", "lost"}]
      /\ \A j \in Inputs : IF j = i THEN steers'[j] = st ELSE steers'[j] = steers[j]
  BY DEF ActInv, ActTypes
<1>4. InLine' = InLine \ {i} /\ i \in InLine
  BY <1>2 DEF InLine
<1>5. \A j \in Inputs : steers'[j] \notin {"ingested", "writing"}
  BY <1>3 DEF ActInv, LineInv
<1>6. LineInv'
  BY <1>2, <1>3, <1>4, <1>5 DEF ActInv, LineInv
<1>7. SteerWrites' = {}
  BY <1>5 DEF SteerWrites
<1>. QED  BY <1>2, <1>3, <1>4, <1>6, <1>7

\* The end of the run, after the first input has left the line.
LEMMA LineShrinksAtEnd ==
  ASSUME ActInv, NEW i \in Inputs, inputLine # <<>>,
         inputLine' # <<>> => inputLine'[Len(inputLine')] = inputLine[Len(inputLine)],
         run'.at = run.at, run'.ends = run.ends, run'.awaited = run.awaited, run'.told = run.told,
         status' = status, said' = said,
         unapplied' \in {unapplied, Append(unapplied, i)}
  PROVE  EndInv' /\ (run.at = "telling" => unapplied'[run.told] = unapplied[run.told])
<1>1. /\ ~said.terminal /\ ~said.late
      /\ run.at \in {"telling", "closing"} => run.ends = "paused"
      /\ run.at # "closing"
  BY DEF ActInv, EndInv
<1>2. run.at = "telling" => run.told \in DOMAIN unapplied' /\ unapplied'[run.told] = unapplied[run.told]
  <2>1. CASE unapplied' = unapplied
    BY <2>1 DEF ActInv, EndInv
  <2>2. CASE unapplied' = Append(unapplied, i)
    <3>1. /\ unapplied' \in Seq(Inputs) /\ Len(unapplied') = Len(unapplied) + 1
          /\ \A k \in 1..Len(unapplied) : unapplied'[k] = unapplied[k]
      BY <2>2, ListGrows DEF ActInv, ActTypes
    <3>2. Len(unapplied) \in Nat /\ DOMAIN unapplied = 1..Len(unapplied) /\ DOMAIN unapplied' = 1..(Len(unapplied) + 1)
      BY <3>1, LenProperties DEF ActInv, ActTypes
    <3>. QED  BY <3>1, <3>2 DEF ActInv, EndInv
  <2>. QED  BY <2>1, <2>2
<1>3. run.at = "retaining" /\ run.ends # "paused" /\ inputLine' # <<>> => inputLine'[Len(inputLine')] \in run.awaited
  BY DEF ActInv, EndInv
<1>4. run.at = "retaining" /\ run.ends # "paused" => status = "over"
  BY DEF ActInv, EndInv
<1>. QED  BY <1>1, <1>2, <1>3, <1>4 DEF EndInv

\* An input that is refused, before or after its event is stored, leaves the invariant as it is.
LEMMA RefusalKeeps ==
  ASSUME ActInv, NEW i \in Inputs, inputLine # <<>>, Head(inputLine) = i,
         steers[i] \in {"queued", "stale", "writing"}, RefuseInput(i),
         UNCHANGED <<status, inputs, prepared, goals, said>>,
         \/ UNCHANGED <<eventLog, unapplied>>
         \/ Record(Event("steer", "input", i)),
         writes' \in Seq(Writes), IsInjective(writes'), ToSet(writes') \subseteq RunWrites
  PROVE  ActInv'
<1>1. /\ inputLine' = Tail(inputLine) /\ steers' = [steers EXCEPT ![i] = "refused"]
      /\ run' = IF run.at = "none" THEN run ELSE [run EXCEPT !.aborted = TRUE]
  BY DEF RefuseInput
<1>2. /\ LineInv' /\ inputLine' \in Seq(Inputs) /\ InLine' = InLine \ {i} /\ i \in InLine
      /\ steers' \in [Inputs -> {"new", "submitted", "queued", "stale", "ingested", "writing",
                                 "accepted", "refused", "lost"}]
      /\ \A j \in Inputs : IF j = i THEN steers'[j] = "refused" ELSE steers'[j] = steers[j]
      /\ SteerWrites' = {}
      /\ inputLine' # <<>> => inputLine'[Len(inputLine')] = inputLine[Len(inputLine)]
  BY <1>1, LineShrinks
<1>3. run \in ActRun
  BY DEF ActInv, ActTypes
<1>4. /\ run' \in ActRun /\ run'.at = run.at /\ run'.own = run.own /\ run'.told = run.told /\ run'.ends = run.ends
      /\ run'.restored = run.restored /\ run'.awaited = run.awaited /\ (run.at # "none" => run'.aborted)
  BY <1>1, <1>3 DEF ActRun
<1>5. i \notin Stored("input") /\ \A j \in run.own : run.at # "none" => j # i
  BY DEF ActInv, LogInv, OwnInv
<1>6. /\ eventLog' \in Seq({"input", "applied"} \X Inputs) /\ ConsumedOnce'
      /\ Stored("input")' \in {Stored("input"), Stored("input") \cup {i}} /\ Stored("applied")' = Stored("applied")
      /\ unapplied' \in {unapplied, Append(unapplied, i)} /\ unapplied' \in Seq(Inputs)
  <2>1. CASE UNCHANGED <<eventLog, unapplied>>
    BY <2>1, LogStays DEF ActInv, ActTypes, LogInv
  <2>2. CASE Record(Event("steer", "input", i))
    BY <1>5, <2>2, InputRecorded DEF ActInv
  <2>. QED  BY <2>1, <2>2
<1>7. EndInv' /\ (run.at = "telling" => unapplied'[run.told] = unapplied[run.told])
  BY <1>2, <1>4, <1>6, LineShrinksAtEnd
<1>8. WritesInv'
  <2>1. RunWrites' = RunWrites
    BY <1>4, <1>7, SameWrites
  <2>. QED  BY <2>1 DEF WritesInv
<1>9. ActTypes'
  BY <1>2, <1>4, <1>6 DEF ActInv, ActTypes
<1>10. OwnInv'
  <2>1. run.at # "none" => \E j \in Inputs : run.own = {j} /\ steers[j] = "submitted"
    BY DEF ActInv, OwnInv
  <2>2. steers[i] # "submitted"
    OBVIOUS
  <2>3. \A j \in Inputs : steers[j] = "submitted" => steers'[j] = "submitted"
    BY <1>2, <2>2
  <2>. QED  BY <1>4, <2>1, <2>3 DEF ActInv, OwnInv
<1>11. LogInv'
  <2>1. LogInv
    BY DEF ActInv
  <2>2. \A j \in Inputs : steers'[j] \in {"new", "queued", "stale", "ingested", "writing"} =>
          j # i /\ steers'[j] = steers[j]
    BY ONLY <1>2
  <2>3. \A j \in Inputs : j # i /\ j \notin Stored("input") => j \notin Stored("input")'
    BY ONLY <1>6
  <2>4. /\ ConsumedOnce' /\ Stored("applied")' = Stored("applied")
        /\ Stored("input") \subseteq Stored("input")' /\ Stored("input")' \subseteq Stored("input") \cup {i}
    BY ONLY <1>6
  <2>5. run'.at = run.at /\ run'.own = run.own /\ (run.at # "none" => i \notin run.own)
    BY ONLY <1>4, <1>5
  <2>. QED  BY ONLY <2>1, <2>2, <2>3, <2>4, <2>5 DEF LogInv, Loop
<1>12. InputsInv'
  <2>1. (Waiting(inputs) => Waiting(inputs)') /\ (Waiting(prepared) => Waiting(prepared)')
    BY <1>4, <1>6 DEF Waiting
  <2>. QED  BY <1>4, <2>1 DEF ActInv, InputsInv
<1>13. NothingForgotten'
  BY <1>4 DEF NothingForgotten
<1>. QED  BY <1>2, <1>7, <1>8, <1>9, <1>10, <1>11, <1>12, <1>13 DEF ActInv

\* The first input of the line is written to the context, or refused.
LEMMA IngestKeeps == \A i \in Inputs : ActInv /\ Ingest(i) => ActInv'
<1>. SUFFICES ASSUME NEW i \in Inputs, ActInv, Ingest(i) PROVE ActInv'
  OBVIOUS
<1>1. /\ inputLine # <<>> /\ Head(inputLine) = i /\ steers[i] \in {"queued", "stale"}
      /\ UNCHANGED <<status, inputs, prepared, unapplied, writes, eventLog, said>>
  BY DEF Ingest
<1>2. SteerWrites = {} /\ writes \in Seq(Writes) /\ IsInjective(writes) /\ ToSet(writes) \subseteq RunWrites
  <2>1. \A j \in Inputs : steers[j] # "writing"
    BY <1>1 DEF ActInv, LineInv
  <2>2. SteerWrites = {}
    BY <2>1 DEF SteerWrites
  <2>. QED  BY <2>2 DEF ActInv, ActTypes, WritesInv
<1>3. CASE RefuseInput(i) /\ UNCHANGED goals
  BY <1>1, <1>2, <1>3, RefusalKeeps
<1>4. CASE /\ steers[i] # "stale" /\ steers' = [steers EXCEPT ![i] = "ingested"]
           /\ goals' = [goals EXCEPT !.fresh = @ \/ status # "idle"]
           /\ UNCHANGED <<run, inputLine>>
  <2>1. steers'[i] = "ingested" /\ \A j \in Inputs : j = i \/ steers'[j] = steers[j]
    BY <1>4 DEF ActInv, ActTypes
  <2>2. InLine' = InLine
    BY <1>4 DEF InLine
  <2>3. LineInv'
    BY <1>1, <1>4, <2>1, <2>2 DEF ActInv, LineInv
  <2>4. WritesInv'
    <3>1. SteerWrites' = {}
      BY <1>2, <2>1 DEF SteerWrites
    <3>2. RunWrites' = RunWrites
      BY <1>1, <1>4, SameWrites
    <3>. QED  BY <1>1, <1>2, <3>1, <3>2 DEF WritesInv
  <2>5. EndInv'
    BY <1>1, <1>4 DEF ActInv, EndInv
  <2>6. goals' \in [fresh : BOOLEAN, completed : BOOLEAN] /\ inputLine' \in Seq(Inputs) /\ writes' \in Seq(Writes)
    BY <1>1, <1>2, <1>4 DEF ActInv, ActTypes
  <2>7. steers[i] = "queued"
    BY <1>1, <1>4
  <2>. QED  BY <1>1, <1>4, <2>2, <2>3, <2>4, <2>5, <2>6, <2>7, SteerMoves
<1>. QED  BY <1>3, <1>4 DEF Ingest

\* The event of the input in front is written: it is in the storage and waits for a turn.
LEMMA SteerEndsKeeps == \A i \in Inputs : ActInv /\ SteerEnds(i) => ActInv'
<1>. SUFFICES ASSUME NEW i \in Inputs, ActInv, SteerEnds(i) PROVE ActInv'
  OBVIOUS
<1>1. /\ steers[i] = "writing" /\ Emitted(Event("steer", "input", i), <<>>)
      /\ steers' = [steers EXCEPT ![i] = "accepted"] /\ inputLine' = Tail(inputLine) /\ inputs' = Append(inputs, i)
      /\ UNCHANGED <<run, status, prepared, goals>>
  BY DEF SteerEnds
<1>2. inputLine # <<>> /\ Head(inputLine) = i /\ \A j \in Inputs : steers[j] = "writing" => j = i
  BY <1>1 DEF ActInv, LineInv
<1>3. /\ LineInv' /\ inputLine' \in Seq(Inputs) /\ InLine' = InLine \ {i} /\ i \in InLine
      /\ steers' \in [Inputs -> {"new", "submitted", "queued", "stale", "ingested", "writing",
                                 "accepted", "refused", "lost"}]
      /\ \A j \in Inputs : IF j = i THEN steers'[j] = "accepted" ELSE steers'[j] = steers[j]
      /\ SteerWrites' = {}
      /\ inputLine' # <<>> => inputLine'[Len(inputLine')] = inputLine[Len(inputLine)]
  BY <1>1, <1>2, LineShrinks
<1>4. /\ writes # <<>> /\ Head(writes) = Event("steer", "input", i) /\ writes' = Tail(writes) \o <<>>
      /\ ~said.terminal /\ said' = said
  BY <1>1, EmittedSays
<1>5. i \notin Stored("input") /\ i \notin Stored("applied") /\ (run.at # "none" => i \notin run.own)
  BY <1>1 DEF ActInv, LogInv, OwnInv, ConsumedOnce
<1>6. /\ eventLog' \in Seq({"input", "applied"} \X Inputs) /\ ConsumedOnce'
      /\ Stored("input")' = Stored("input") \cup {i} /\ Stored("applied")' = Stored("applied")
      /\ unapplied' = Append(unapplied, i) /\ unapplied' \in Seq(Inputs)
  BY <1>1, <1>5, InputRecorded DEF ActInv, Emitted
<1>7. writes' \in Seq(Writes) /\ IsInjective(writes') /\ ToSet(writes') \subseteq RunWrites
  <2>1. writes' = Tail(writes)
    BY <1>4, HeadTailProperties, ConcatEmptySeq DEF ActInv, ActTypes
  <2>. QED  BY <1>2, <1>4, <2>1, SteerWritten DEF ActInv
<1>8. EndInv' /\ (run.at = "telling" => unapplied'[run.told] = unapplied[run.told])
  BY <1>1, <1>2, <1>3, <1>4, <1>6, LineShrinksAtEnd
<1>9. WritesInv'
  <2>1. RunWrites' = RunWrites
    BY <1>1, <1>8, SameWrites
  <2>. QED  BY <1>7, <2>1 DEF WritesInv
<1>10. /\ inputs' \in Seq(Inputs) /\ ToSet(inputs') = ToSet(inputs) \cup {i}
       /\ IsInjective(inputs) /\ i \notin ToSet(inputs) => IsInjective(inputs')
  BY <1>1, ListGrows DEF ActInv, ActTypes
<1>11. ActTypes'
  BY <1>1, <1>3, <1>4, <1>6, <1>7, <1>10 DEF ActInv, ActTypes
<1>12. OwnInv'
  BY <1>1, <1>3 DEF ActInv, OwnInv
<1>13. LogInv'
  BY <1>1, <1>3, <1>5, <1>6 DEF ActInv, LogInv, Loop
<1>14. InputsInv'
  <2>1. run.at \in Loop \cup {"began"} => Waiting(inputs)'
    <3>1. ASSUME run.at \in Loop \cup {"began"} PROVE Waiting(inputs)'
      <4>1. Waiting(inputs) /\ i \notin run.own
        BY <1>5, <3>1 DEF ActInv, InputsInv, Loop
      <4>. QED  BY <1>1, <1>5, <1>6, <1>10, <4>1 DEF Waiting
    <3>. QED  BY <3>1
  <2>2. Waiting(prepared) => Waiting(prepared)'
    BY <1>1, <1>6 DEF Waiting
  <2>. QED  BY <1>1, <2>1, <2>2 DEF ActInv, InputsInv
<1>15. NothingForgotten'
  BY <1>1, <1>3, <1>6, <1>10 DEF ActInv, NothingForgotten
<1>. QED  BY <1>3, <1>8, <1>9, <1>11, <1>12, <1>13, <1>14, <1>15 DEF ActInv

-----------------------------------------------------------------------------
(* Faults. *)

\* What a failed write of the run itself may have stored.
LEMMA RunRecords ==
  ASSUME ActInv, run.at # "none", NEW e \in RunWrites, Record(e)
  PROVE  /\ eventLog' \in Seq({"input", "applied"} \X Inputs) /\ ConsumedOnce'
         /\ Stored("input")' \subseteq Stored("input") \cup run.own /\ unapplied' \in Seq(Inputs)
<1>1. PICK i \in Inputs : /\ run.own = {i}
                          /\ OwnEvent("input") = Event("run", "input", i)
                          /\ OwnEvent("applied") = Event("run", "applied", i)
  BY OwnOne
<1>2. CASE run.at = "began"
  <2>1. i \notin Stored("input")
    BY <1>1, <1>2 DEF ActInv, LogInv
  <2>2. Record(Event("run", "input", i))
    BY <1>1, <1>2 DEF RunWrites
  <2>3. /\ eventLog' \in Seq({"input", "applied"} \X Inputs) /\ ConsumedOnce'
        /\ Stored("input")' = Stored("input") \cup {i} /\ unapplied' \in Seq(Inputs)
    BY <2>1, <2>2, InputRecorded DEF ActInv
  <2>. QED  BY <1>1, <2>3
<1>3. CASE run.at \in {"applying", "applyingOwn"}
  <2>1. PICK x \in Inputs : x \in Stored("input") /\ x \notin Stored("applied") /\ e = Event("run", "applied", x)
    <3>1. CASE run.at = "applying"
      <4>1. /\ Head(prepared) \in Inputs /\ Head(prepared) \in ToSet(prepared)
            /\ e = Event("run", "applied", Head(prepared))
        BY <3>1, ListShrinks DEF ActInv, ActTypes, InputsInv, RunWrites
      <4>2. Waiting(prepared)
        BY <3>1 DEF ActInv, InputsInv
      <4>. QED  BY <4>1, <4>2 DEF Waiting
    <3>2. CASE run.at = "applyingOwn"
      <4>1. e = Event("run", "applied", i)
        BY <1>1, <3>2 DEF RunWrites
      <4>2. i \in Stored("input") /\ i \notin Stored("applied")
        BY <1>1, <3>2 DEF ActInv, LogInv, Loop
      <4>. QED  BY <4>1, <4>2
    <3>. QED  BY <1>3, <3>1, <3>2
  <2>2. Record(Event("run", "applied", x))
    BY <2>1
  <2>3. /\ eventLog' \in Seq({"input", "applied"} \X Inputs) /\ ConsumedOnce'
        /\ Stored("input")' = Stored("input") /\ unapplied' \in Seq(Inputs)
    BY <2>1, <2>2, AppliedRecorded DEF ActInv
  <2>. QED  BY <2>3
<1>4. CASE run.at \notin {"began", "applying", "applyingOwn"}
  <2>1. e.kind \notin {"input", "applied"}
    BY <1>4 DEF RunWrites, Told, Event
  <2>2. eventLog' = eventLog /\ unapplied' = unapplied
    BY <2>1 DEF Record
  <2>3. Stored("input")' = Stored("input") /\ ConsumedOnce'
    BY <2>2, LogStays DEF ActInv, LogInv
  <2>. QED  BY <2>2, <2>3 DEF ActInv, ActTypes
<1>. QED  BY <1>2, <1>3, <1>4

\* The first event cannot be written.
LEMMA WriteFailsKeeps == ActInv /\ WriteFails => ActInv'
<1>. SUFFICES ASSUME ActInv, WriteFails PROVE ActInv'
  OBVIOUS
<1>1. writes # <<>> /\ UNCHANGED <<inputs, prepared, goals, said>>
  BY DEF WriteFails
<1>2. PICK e : e = Head(writes)
  OBVIOUS
<1>3. e \in RunWrites \cup SteerWrites
  <2>1. Head(writes) \in ToSet(writes)
    BY <1>1, ListShrinks DEF ActInv, ActTypes
  <2>. QED  BY <1>2, <2>1 DEF ActInv, WritesInv
<1>4. Record(e) \/ UNCHANGED <<eventLog, unapplied>>
  BY <1>2 DEF WriteFails
<1>5. CASE e.by = "steer"
  <2>1. PICK i \in Inputs : e = Event("steer", "input", i) /\ steers[i] = "writing"
    BY <1>3, <1>5, WhoWaits DEF SteerWrites
  <2>2. inputLine # <<>> /\ Head(inputLine) = i /\ \A j \in Inputs : steers[j] = "writing" => j = i
    BY <2>1 DEF ActInv, LineInv
  <2>3. RefuseInput(i) /\ writes' = Tail(writes) /\ UNCHANGED status
    <3>1. RefuseInput(e.input) /\ writes' = Tail(writes) /\ UNCHANGED status
      BY <1>2, <1>5 DEF WriteFails
    <3>. QED  BY <2>1, <3>1 DEF Event
  <2>4. writes' \in Seq(Writes) /\ IsInjective(writes') /\ ToSet(writes') \subseteq RunWrites
    BY <1>1, <1>2, <2>1, <2>2, <2>3, SteerWritten DEF ActInv
  <2>5. UNCHANGED <<eventLog, unapplied>> \/ Record(Event("steer", "input", i))
    BY <1>4, <2>1
  <2>. QED  BY <1>1, <2>1, <2>2, <2>3, <2>4, <2>5, RefusalKeeps
<1>6. CASE e.by # "steer"
  <2>1. e \in RunWrites /\ run.at # "none"
    <3>1. e \in RunWrites
      BY <1>3, <1>6, WhoWaits
    <3>. QED  BY <3>1 DEF RunWrites
  <2>2. RunWrites = {Head(writes)}
    BY <1>2, <2>1 DEF RunWrites
  <2>3. run \in ActRun /\ Tail(writes) \in Seq(Writes) /\ LastInLine \subseteq Inputs
    BY <1>1, TheLast, HeadTailProperties DEF ActInv, ActTypes
  <2>4. /\ eventLog' \in Seq({"input", "applied"} \X Inputs) /\ ConsumedOnce'
        /\ Stored("input")' \subseteq Stored("input") \cup run.own /\ unapplied' \in Seq(Inputs)
    <3>1. CASE Record(e)
      BY <2>1, <3>1, RunRecords
    <3>2. CASE UNCHANGED <<eventLog, unapplied>>
      BY <3>2, LogStays DEF ActInv, ActTypes, LogInv
    <3>. QED  BY <1>4, <3>1, <3>2
  <2>5. ~said.terminal /\ ~said.late
    BY <1>1 DEF ActInv, EndInv
  <2>6. said' \in [terminal : BOOLEAN, retained : SUBSET Inputs, late : BOOLEAN]
    BY <1>1 DEF ActInv, ActTypes
  <2>7. CASE run.at = "applying"
    <3>1. /\ run' = [run EXCEPT !.at = "erring"] /\ writes' = Append(Tail(writes), Told("error"))
          /\ UNCHANGED <<status, steers, inputLine>>
      BY <1>2, <1>6, <2>7 DEF WriteFails
    <3>2. run' \in ActRun /\ run'.at = "erring" /\ run'.own = run.own
      BY <2>3, <3>1 DEF ActRun, Places
    <3>3. PICK f \in Writes : f = Told("error") /\ f.by = "run"
      <4>1. Told("error") \in Writes /\ Told("error").by = "run"
        BY DEF Told, Event, Writes
      <4>. QED  BY <4>1
    <3>4. RunWrites' = {f}
      BY <3>2, <3>3 DEF RunWrites, Told, Event
    <3>5. SteerWrites' = SteerWrites
      BY <3>1 DEF SteerWrites
    <3>6. WritesInv' /\ writes' \in Seq(Writes)
      BY <1>1, <2>2, <3>1, <3>3, <3>4, <3>5, RunWritesNext DEF ActInv
    <3>7. EndInv'
      BY <1>1, <2>5, <3>2 DEF EndInv
    <3>8. status' \in {"idle", "on", "over"}
      BY <3>1 DEF ActInv, ActTypes
    <3>9. run'.at \in {"erring", "retaining", "telling", "closing", "ending"} /\ UNCHANGED <<inputs, prepared, steers, inputLine, goals>>
      BY <1>1, <3>1, <3>2
    <3>. QED  BY ONLY ActInv, <2>1, <2>4, <2>6, <3>2, <3>6, <3>7, <3>8, <3>9, EndMoves
  <2>8. CASE run.at # "applying"
    <3>1. /\ run' = IF run.failing THEN [run EXCEPT !.at = "ending", !.awaited = LastInLine]
                    ELSE [Retaining("failed") EXCEPT !.failing = TRUE]
          /\ status' = "over" /\ writes' = Tail(writes) /\ UNCHANGED <<steers, inputLine>>
      BY <1>2, <1>6, <2>8 DEF WriteFails
    <3>2. /\ run' \in ActRun /\ run'.own = run.own /\ run'.at \in {"ending", "retaining"}
          /\ run'.awaited = LastInLine
      <4>1. CASE run.failing
        <5>1. run' = [run EXCEPT !.at = "ending", !.awaited = LastInLine]
          BY <3>1, <4>1
        <5>. QED  BY <2>3, <5>1 DEF ActRun, Places
      <4>2. CASE ~run.failing
        <5>1. PICK r : r = Retaining("failed")
          OBVIOUS
        <5>2. r \in ActRun /\ r.own = run.own /\ r.at = "retaining" /\ r.awaited = LastInLine
          BY <2>3, <5>1 DEF Retaining, ActRun, Places
        <5>3. run' = [r EXCEPT !.failing = TRUE]
          BY <3>1, <4>2, <5>1
        <5>. QED  BY <5>2, <5>3 DEF ActRun
      <4>. QED  BY <4>1, <4>2
    <3>3. SteerWrites' = SteerWrites
      BY <3>1 DEF SteerWrites
    <3>4. WritesInv' /\ writes' \in Seq(Writes)
      BY <1>1, <2>2, <3>1, <3>3, RunWritten DEF ActInv
    <3>5. inputLine # <<>> => inputLine[Len(inputLine)] \in LastInLine
      BY TheLast DEF ActInv
    <3>6. EndInv'
      BY <1>1, <2>5, <3>1, <3>2, <3>5 DEF EndInv
    <3>7. /\ run'.at \in {"erring", "retaining", "telling", "closing", "ending"}
          /\ status' \in {"idle", "on", "over"} /\ UNCHANGED <<inputs, prepared, steers, inputLine, goals>>
      BY <1>1, <3>1, <3>2
    <3>. QED  BY ONLY ActInv, <2>1, <2>4, <2>6, <3>2, <3>4, <3>6, <3>7, EndMoves
  <2>. QED  BY <2>7, <2>8
<1>. QED  BY <1>5, <1>6

\* The process ends: what is stored remains.
LEMMA ActCrashKeeps == ActInv /\ ActCrash => ActInv'
<1>. SUFFICES ASSUME ActInv, ActCrash PROVE ActInv'
  OBVIOUS
<1>1. run' \in ActRun /\ run'.at = "none"
  BY DEF ActCrash, NoRun, ActRun, Places
<1>2. /\ status' = "idle" /\ inputs' = <<>> /\ prepared' = <<>> /\ unapplied' = <<>>
      /\ inputLine' = <<>> /\ writes' = <<>> /\ said' = Unsaid
      /\ goals' = [fresh |-> FALSE, completed |-> FALSE] /\ eventLog' = eventLog
  BY DEF ActCrash
<1>3. /\ steers' \in [Inputs -> {"new", "submitted", "queued", "stale", "ingested", "writing",
                                 "accepted", "refused", "lost"}]
      /\ \A i \in Inputs : steers'[i] \notin {"queued", "stale", "ingested", "writing"}
      /\ \A i \in Inputs : steers'[i] = "new" => steers[i] = "new"
  <2>1. steers' = [i \in Inputs |-> IF i \in InLine THEN "lost" ELSE steers[i]]
    BY DEF ActCrash
  <2>. QED  BY <2>1 DEF ActInv, ActTypes, LineInv
<1>4. /\ <<>> \in Seq(Inputs) /\ <<>> \in Seq(Writes) /\ ToSet(<<>>) = {} /\ IsInjective(<<>>)
  BY EmptySeq, ListElements DEF IsInjective
<1>5. Stored("input")' = Stored("input") /\ Stored("applied")' = Stored("applied") /\ ConsumedOnce'
  BY <1>2, LogStays DEF ActInv, LogInv
<1>6. ActTypes'
  BY <1>1, <1>2, <1>3, <1>4 DEF ActInv, ActTypes, Unsaid
<1>7. OwnInv'
  BY <1>1 DEF OwnInv
<1>8. LineInv'
  BY <1>2, <1>3, <1>4 DEF LineInv, InLine
<1>9. WritesInv'
  BY <1>2, <1>4 DEF WritesInv
<1>10. LogInv'
  BY <1>1, <1>3, <1>5 DEF ActInv, LogInv, Loop
<1>11. InputsInv' /\ NothingForgotten' /\ EndInv'
  BY <1>1, <1>2 DEF InputsInv, NothingForgotten, EndInv, Loop, Unsaid
<1>. QED  BY <1>6, <1>7, <1>8, <1>9, <1>10, <1>11 DEF ActInv

\* The invariant holds at the beginning.
LEMMA ActStarts == ActInit => ActInv
<1>. SUFFICES ASSUME ActInit PROVE ActInv
  OBVIOUS
<1>1. run \in ActRun /\ run.at = "none"
  BY DEF ActInit, NoRun, ActRun, Places
<1>2. /\ <<>> \in Seq(Inputs) /\ <<>> \in Seq(Writes) /\ <<>> \in Seq({"input", "applied"} \X Inputs)
      /\ ToSet(<<>>) = {} /\ IsInjective(<<>>)
  BY EmptySeq, ListElements DEF IsInjective
<1>3. ActTypes
  BY <1>1, <1>2 DEF ActInit, ActTypes, Unsaid
<1>4. Stored("input") = {} /\ Stored("applied") = {}
  BY <1>2 DEF ActInit, Stored
<1>5. OwnInv /\ InputsInv /\ NothingForgotten /\ EndInv
  BY <1>1 DEF ActInit, OwnInv, InputsInv, NothingForgotten, EndInv, Loop, Unsaid
<1>6. LineInv
  BY <1>2 DEF ActInit, LineInv, InLine
<1>7. WritesInv
  BY <1>2 DEF ActInit, WritesInv
<1>8. LogInv
  BY <1>1, <1>2, <1>4 DEF ActInit, LogInv, ConsumedOnce, Loop
<1>. QED  BY <1>3, <1>5, <1>6, <1>7, <1>8 DEF ActInv

\* Every step keeps it.
LEMMA ActStep == ActInv /\ [ActNext]_actVars => ActInv'
<1>. SUFFICES ASSUME ActInv, [ActNext]_actVars PROVE ActInv'
  OBVIOUS
<1>1. ASSUME NEW i \in Inputs, Submit(i) \/ Steer(i) \/ Ingest(i) \/ SteerEmits(i) \/ SteerEnds(i)
      PROVE  ActInv'
  BY <1>1, SubmitKeeps, SteerKeeps, IngestKeeps, SteerEmitsKeeps, SteerEndsKeeps
<1>2. CASE OwnInputWritten \/ BeginTurn \/ TakeInputs \/ TurnGivenUp \/ RequestRecorded \/ NextTurn \/ Completion
  BY <1>2, OwnInputKeeps, QuietTurns, TakeInputsKeeps, RequestRecordedKeeps
<1>3. CASE AppliedWritten \/ OwnAppliedWritten \/ Completed \/ Pauses \/ LoopFails
  BY <1>3, AppliedKeeps, OwnAppliedKeeps, TellingTurns
<1>4. CASE LoopEnds \/ Retain \/ RetainedTold \/ TerminalTold \/ EndRun
  BY <1>4, LoopEndsKeeps, RetainKeeps, RetainedToldKeeps, TerminalToldKeeps, EndRunKeeps
<1>5. CASE CancelAct \/ WriteFails \/ ActCrash
  BY <1>5, CancelActKeeps, WriteFailsKeeps, ActCrashKeeps
<1>6. CASE UNCHANGED actVars
  <2>1. UNCHANGED <<run, status, inputs, prepared, unapplied, steers, inputLine, writes, goals, eventLog, said>>
    BY <1>6 DEF actVars
  <2>2. Stored("input")' = Stored("input") /\ Stored("applied")' = Stored("applied") /\ (ConsumedOnce' <=> ConsumedOnce)
    BY <2>1, LogStays
  <2>3. InLine' = InLine /\ SteerWrites' = SteerWrites
    BY <2>1 DEF InLine, SteerWrites
  <2>4. RunWrites' = RunWrites
    BY <2>1, SameWrites
  <2>5. (Waiting(inputs)' <=> Waiting(inputs)) /\ (Waiting(prepared)' <=> Waiting(prepared))
    BY <2>1, <2>2 DEF Waiting
  <2>6. ActTypes' /\ OwnInv' /\ LineInv' /\ WritesInv'
    BY <2>1, <2>3, <2>4 DEF ActInv, ActTypes, OwnInv, LineInv, WritesInv
  <2>7. LogInv' /\ InputsInv' /\ NothingForgotten'
    BY <2>1, <2>2, <2>3, <2>5 DEF ActInv, LogInv, InputsInv, NothingForgotten
  <2>8. EndInv'
    BY <2>1 DEF ActInv, EndInv
  <2>. QED  BY <2>6, <2>7, <2>8 DEF ActInv
<1>. QED  BY <1>1, <1>2, <1>3, <1>4, <1>5, <1>6 DEF ActNext, Pauses

\* The inductive invariant of a session.
THEOREM ActInvariant == ActSpec => []ActInv
<1>1. ActInit => ActInv
  BY ActStarts
<1>2. ActInv /\ [ActNext]_actVars => ActInv'
  BY ActStep
<1>. QED  BY <1>1, <1>2, PTL DEF ActSpec

\* Whatever run takes it up, and whatever fails or crashes between: an input is stored once
\* and applied at most once, never before it is stored.
THEOREM InputsAreConsumedOnce == ActSpec => []ConsumedOnce
<1>1. ActInv => ConsumedOnce
  BY DEF ActInv, LogInv
<1>. QED  BY <1>1, ActInvariant, PTL

\* However steers, turns and failed writes interleave: a run that has restored what earlier
\* runs left and goes on taking turns forgets none of the stored inputs.
THEOREM NoInputIsForgotten == ActSpec => []NothingForgotten
<1>1. ActInv => NothingForgotten
  BY DEF ActInv
<1>. QED  BY <1>1, ActInvariant, PTL

\* Nothing is told after the terminal state, and it is told only when every input that was
\* not applied has been reported as retained, also when writes fail at the end.
THEOREM TerminalIsLast == ActSpec => []EndIsLast
<1>1. ActInv => EndIsLast
  BY DEF ActInv, EndInv, EndIsLast
<1>. QED  BY <1>1, ActInvariant, PTL

=============================================================================
