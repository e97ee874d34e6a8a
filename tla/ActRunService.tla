---------------------------- MODULE ActRunService ----------------------------
(***************************************************************************)
(* The run service of one Act session: a run takes the input it was        *)
(* submitted with and the inputs that steer() adds while it goes on, tells *)
(* its consumer what becomes of each, and ends with a terminal state.      *)
(* What a run did not apply is given to the next one, also after a crash.  *)
(*                                                                         *)
(* Every event is written to the session's storage, one after another,     *)
(* before the consumer sees it.  One action is what happens between two    *)
(* awaits.  The loop of turns (ActLoop) is here as far as its inputs go:   *)
(* what it takes up before a turn, what it reports as applied, and how it  *)
(* can end.  The storage answers in the order of the calls: what a turn    *)
(* loads was written before the wait for earlier inputs ended.  Questions  *)
(* to the user (request, answer) are left out: no program of a run asks    *)
(* after the loop has ended.                                               *)
(***************************************************************************)
EXTENDS Naturals, Sequences, SequencesExt, Subsequences

CONSTANTS Inputs,     \* the inputs, each submitted or steered once
          MaxFaults   \* writes that fail, and crashes

ASSUME FaultsAssumption == MaxFaults \in Nat

VARIABLES
  run,       \* the run: where it is, its own input, how it ends, and flags
  status,    \* the status steer() looks at: "idle", "on" or "over"
  inputs,    \* this.inputs: what the next turn takes up
  prepared,  \* what this turn took up and has not yet reported as applied
  unapplied, \* this.unapplied, in the order of insertion
  steers,    \* input -> "new", "submitted", or where its steer() is
  inputLine, \* inputWrites: the steers that have not settled, in order
  writes,    \* the events to be written, in order: who waits for it, its kind, its input
  goals,     \* is a goal newer than the turn (fresh), is the task completed
  eventLog,  \* storage: the "input" and "applied" events, in order
  said,      \* history: what the consumer of the run was told
  faults

actVars == <<run, status, inputs, prepared, unapplied, steers, inputLine, writes, goals, eventLog,
             said, faults>>

NoRun == [at |-> "none", own |-> {}, ends |-> "none", aborted |-> FALSE, restored |-> FALSE,
          awaited |-> {}, told |-> 0, failing |-> FALSE]
Unsaid == [terminal |-> FALSE, retained |-> {}, late |-> FALSE]

ActInit ==
  /\ run = NoRun /\ status = "idle"
  /\ inputs = <<>> /\ prepared = <<>> /\ unapplied = <<>>
  /\ steers = [i \in Inputs |-> "new"]
  /\ inputLine = <<>> /\ writes = <<>>
  /\ goals = [fresh |-> FALSE, completed |-> FALSE]
  /\ eventLog = <<>> /\ said = Unsaid /\ faults = 0

Stored(kind) == {e[2] : e \in {x \in ToSet(eventLog) : x[1] = kind}}
InLine == ToSet(inputLine)
LastInLine == IF inputLine = <<>> THEN {} ELSE {inputLine[Len(inputLine)]}
Pending == inputs # <<>> \/ inputLine # <<>>
Event(by, kind, i) == [by |-> by, kind |-> kind, input |-> i]
OwnEvent(kind) == Event("run", kind, CHOOSE i \in run.own : TRUE)
Told(kind) == Event("run", kind, "none")

-----------------------------------------------------------------------------
(* emit *)

\* What the write of an event changes besides the queue.
Record(e) ==
  /\ eventLog' = IF e.kind \in {"input", "applied"} THEN Append(eventLog, <<e.kind, e.input>>) ELSE eventLog
  /\ unapplied' = CASE e.kind = "input" -> Append(unapplied, e.input)
                    [] e.kind = "applied" -> Kept(unapplied, Inputs \ {e.input})
                    [] OTHER -> unapplied

\* The first event is written and shown to the consumer; its writer goes on and may emit.
Emitted(e, next) ==
  /\ writes # <<>> /\ Head(writes) = e
  /\ writes' = Tail(writes) \o next
  /\ Record(e)
  /\ said' = [terminal |-> said.terminal \/ e.kind = "terminal",
              retained |-> IF e.kind = "retained" THEN said.retained \cup {e.input} ELSE said.retained,
              late |-> said.late \/ said.terminal]

-----------------------------------------------------------------------------
(* steer *)

\* The run has told how it ended: it takes no more steers.
Over == status = "over"

Steer(i) ==
  /\ steers[i] = "new"
  /\ run.at # "none" /\ ~run.aborted /\ ~Over
  /\ steers' = [steers EXCEPT ![i] = "queued"]
  /\ inputLine' = Append(inputLine, i)
  /\ UNCHANGED <<run, status, inputs, prepared, unapplied, writes, goals, eventLog, said, faults>>

RefuseInput(i) ==
  /\ steers' = [steers EXCEPT ![i] = "refused"]
  /\ inputLine' = Tail(inputLine)
  /\ run' = IF run.at = "none" THEN run ELSE [run EXCEPT !.aborted = TRUE]

\* The input is written to the context, and unless the run has not begun its first turn it
\* becomes a goal, which a completed task does not take. A refusal aborts the run.
Ingest(i) ==
  /\ inputLine # <<>> /\ Head(inputLine) = i /\ steers[i] \in {"queued", "stale"}
  /\ IF steers[i] = "stale" \/ run.aborted \/ (status # "idle" /\ goals.completed)
     THEN RefuseInput(i) /\ UNCHANGED goals
     ELSE /\ steers' = [steers EXCEPT ![i] = "ingested"]
          /\ goals' = [goals EXCEPT !.fresh = @ \/ status # "idle"]
          /\ UNCHANGED <<run, inputLine>>
  /\ UNCHANGED <<status, inputs, prepared, unapplied, writes, eventLog, said, faults>>

SteerEmits(i) ==
  /\ steers[i] = "ingested"
  /\ steers' = [steers EXCEPT ![i] = "writing"]
  /\ writes' = Append(writes, Event("steer", "input", i))
  /\ UNCHANGED <<run, status, inputs, prepared, unapplied, inputLine, goals, eventLog, said, faults>>

SteerEnds(i) ==
  /\ steers[i] = "writing" /\ Emitted(Event("steer", "input", i), <<>>)
  /\ steers' = [steers EXCEPT ![i] = "accepted"]
  /\ inputLine' = Tail(inputLine)
  /\ inputs' = Append(inputs, i)
  /\ UNCHANGED <<run, status, prepared, goals, faults>>

-----------------------------------------------------------------------------
(* A turn of the run *)

Submit(i) ==
  /\ run.at = "none" /\ steers[i] = "new"
  /\ steers' = [steers EXCEPT ![i] = "submitted"]
  /\ run' = [NoRun EXCEPT !.at = "began", !.own = {i}]
  /\ status' = "idle" /\ inputs' = <<>> /\ prepared' = <<>> /\ unapplied' = <<>>
  /\ goals' = [fresh |-> FALSE, completed |-> FALSE]
  /\ said' = Unsaid
  /\ writes' = Append(writes, Event("run", "input", i))
  /\ UNCHANGED <<inputLine, eventLog, faults>>

OwnInputWritten ==
  /\ run.at = "began" /\ Emitted(OwnEvent("input"), <<>>)
  /\ run' = [run EXCEPT !.at = "turn"]
  /\ UNCHANGED <<status, inputs, prepared, steers, inputLine, goals, faults>>

\* beforeTurn waits for the steers that are under way.
BeginTurn ==
  /\ run.at = "turn"
  /\ run' = [run EXCEPT !.at = "gated", !.awaited = LastInLine]
  /\ UNCHANGED <<status, inputs, prepared, unapplied, steers, inputLine, writes, goals, eventLog, said, faults>>

AwaitedSettled == run.awaited \cap InLine = {}

\* What earlier runs, or those before a crash, left in the storage, in its order.
LeftOver ==
  LET left == {i \in Stored("input") : /\ i \notin Stored("applied") \cup run.own \cup ToSet(inputs)
                                       /\ i \notin InLine}
      events == Kept(eventLog, {"input"} \X left)
  IN [k \in DOMAIN events |-> events[k][2]]

\* MUTATED Restored: what was applied is not looked at.
RestoredAll ==
  IF run.restored THEN <<>>
  ELSE LET events == Kept(eventLog, {"input"} \X (Inputs \ (run.own \cup ToSet(inputs) \cup InLine)))
       IN [k \in DOMAIN events |-> events[k][2]]

Restored == IF run.restored THEN <<>> ELSE LeftOver

TakeInputs ==
  /\ run.at = "gated" /\ AwaitedSettled /\ ~run.aborted
  /\ inputs' = inputs \o Restored
  /\ unapplied' = unapplied \o Kept(Restored, Inputs \ ToSet(unapplied))
  /\ prepared' = inputs'
  /\ goals' = [goals EXCEPT !.fresh = FALSE]
  /\ run' = [run EXCEPT !.at = "taken", !.restored = TRUE]
  /\ UNCHANGED <<status, steers, inputLine, writes, eventLog, said, faults>>

\* A steer interrupts the turn before its request is recorded.
TurnGivenUp ==
  /\ run.at \in {"taken", "completing"} /\ ~run.aborted /\ Pending
  /\ run' = [run EXCEPT !.at = "turn"]
  /\ UNCHANGED <<status, inputs, prepared, unapplied, steers, inputLine, writes, goals, eventLog, said, faults>>

\* applied: the inputs of the turn one after another, after the first request that of the run.
ReportNext(left, ownApplied) ==
  IF left # <<>> THEN [at |-> "applying", emits |-> <<Event("run", "applied", Head(left))>>]
  ELSE IF ~ownApplied THEN [at |-> "applyingOwn", emits |-> <<OwnEvent("applied")>>]
  ELSE [at |-> "work", emits |-> <<>>]

RequestRecorded ==
  /\ run.at = "taken" /\ ~run.aborted
  /\ LET next == ReportNext(prepared, run.own \subseteq Stored("applied"))
     IN run' = [run EXCEPT !.at = next.at] /\ writes' = writes \o next.emits
  /\ status' = "on"
  /\ UNCHANGED <<inputs, prepared, unapplied, steers, inputLine, goals, eventLog, said, faults>>

\* MUTATED Without: the list is emptied.
WithoutAll(seq, i) == <<>>

Without(seq, i) ==
  IF i \notin ToSet(seq) THEN seq
  ELSE RemoveAt(seq, CHOOSE k \in DOMAIN seq : seq[k] = i /\ \A j \in 1..(k - 1) : seq[j] # i)

AppliedWritten ==
  /\ run.at = "applying"
  /\ LET next == ReportNext(Tail(prepared), run.own \subseteq Stored("applied"))
     IN run' = [run EXCEPT !.at = next.at] /\ Emitted(Event("run", "applied", Head(prepared)), next.emits)
  /\ inputs' = Without(inputs, Head(prepared))
  /\ prepared' = Tail(prepared)
  /\ UNCHANGED <<status, steers, inputLine, goals, faults>>

OwnAppliedWritten ==
  /\ run.at = "applyingOwn" /\ Emitted(OwnEvent("applied"), <<>>)
  /\ run' = [run EXCEPT !.at = "work"]
  /\ UNCHANGED <<status, inputs, prepared, steers, inputLine, goals, faults>>

\* The response is accepted and its program executed: another turn, the check of a completed
\* task, or a pause.  A check whose verdict asks for repair makes another turn as well; the
\* event of a verdict that does not complete the task is not modelled apart.
NextTurn ==
  /\ run.at \in {"work", "completing"} /\ ~run.aborted
  /\ run' = [run EXCEPT !.at = "turn"]
  /\ UNCHANGED <<status, inputs, prepared, unapplied, steers, inputLine, writes, goals, eventLog, said, faults>>

Completion ==
  /\ run.at = "work" /\ ~run.aborted /\ ~Pending
  /\ run' = [run EXCEPT !.at = "completing"]
  /\ UNCHANGED <<status, inputs, prepared, unapplied, steers, inputLine, writes, goals, eventLog, said, faults>>

\* The view completes the task only if no goal is newer than the turn.
Completed ==
  /\ run.at = "completing" /\ ~goals.fresh
  /\ goals' = [goals EXCEPT !.completed = TRUE]
  /\ run' = [run EXCEPT !.at = "verified"]
  /\ writes' = Append(writes, Told("verification"))
  /\ UNCHANGED <<status, inputs, prepared, unapplied, steers, inputLine, eventLog, said, faults>>

\* The loop yields with the state "waiting" and what goes with it, which is one event here.
Pausing ==
  /\ run' = [run EXCEPT !.at = "pausing"]
  /\ writes' = Append(writes, Told("paused"))
  /\ UNCHANGED <<status, inputs, prepared, unapplied, steers, inputLine, goals, eventLog, said, faults>>

\* The program is done for now; only here is it asked whether an input has come.
Pause == run.at = "work" /\ ~Pending /\ Pausing

\* The composed frame shows too many steps without progress.
Stalled == run.at = "taken" /\ ~run.aborted /\ Pausing

\* reserveModel refuses the first request of a turn or, when an answer is repaired, another.
BudgetSpent == run.at \in {"taken", "work"} /\ Pausing

\* The verdict on a completed task asks for input.
InputAskedFor == run.at = "completing" /\ ~run.aborted /\ Pausing

\* The loop fails, or notices that it is aborted.
LoopFails ==
  /\ run.at \in {"turn", "gated", "taken", "work", "completing"}
  /\ run' = [run EXCEPT !.at = "erring"]
  /\ writes' = Append(writes, Told("error"))
  /\ UNCHANGED <<status, inputs, prepared, unapplied, steers, inputLine, goals, eventLog, said, faults>>

-----------------------------------------------------------------------------
(* The end of a run *)

\* MUTATED Retaining: the inputs under way are not waited for.
RetainingAtOnce(ends) == [run EXCEPT !.at = "retaining", !.ends = ends, !.told = 0, !.awaited = {}]

Retaining(ends) == [run EXCEPT !.at = "retaining", !.ends = ends, !.told = 0, !.awaited = LastInLine]

\* The loop has ended: with a terminal state the run takes no more steers; a pause has none.
LoopEnds ==
  \/ /\ run.at = "verified" /\ Emitted(Told("verification"), <<>>)
     /\ run' = Retaining("completed") /\ status' = "over"
     /\ UNCHANGED <<inputs, prepared, steers, inputLine, goals, faults>>
  \/ /\ run.at = "erring" /\ Emitted(Told("error"), <<>>)
     /\ run' = Retaining(IF run.aborted THEN "cancelled" ELSE "failed") /\ status' = "over"
     /\ UNCHANGED <<inputs, prepared, steers, inputLine, goals, faults>>
  \/ /\ run.at = "pausing" /\ Emitted(Told("paused"), <<>>)
     /\ run' = Retaining("paused") /\ UNCHANGED status
     /\ UNCHANGED <<inputs, prepared, steers, inputLine, goals, faults>>

\* retainInputs tells of one unapplied input after another, those that come meanwhile too;
\* then the terminal state is told, and the last writes of inputs are waited for.
TellNext(k, known) ==
  IF k <= Len(known)
  THEN [run |-> [run EXCEPT !.at = "telling", !.told = k], emits |-> <<Event("run", "retained", known[k])>>]
  ELSE IF run.ends # "paused"
  THEN [run |-> [run EXCEPT !.at = "closing"], emits |-> <<Told("terminal")>>]
  ELSE [run |-> [run EXCEPT !.at = "ending", !.awaited = LastInLine], emits |-> <<>>]

Retain ==
  /\ run.at = "retaining" /\ AwaitedSettled
  /\ LET next == TellNext(1, unapplied) IN run' = next.run /\ writes' = writes \o next.emits
  /\ UNCHANGED <<status, inputs, prepared, unapplied, steers, inputLine, goals, eventLog, said, faults>>

RetainedTold ==
  /\ run.at = "telling"
  /\ LET next == TellNext(run.told + 1, unapplied)
     IN run' = next.run /\ Emitted(Event("run", "retained", unapplied[run.told]), next.emits)
  /\ UNCHANGED <<status, inputs, prepared, steers, inputLine, goals, faults>>

TerminalTold ==
  /\ run.at = "closing" /\ Emitted(Told("terminal"), <<>>)
  /\ run' = [run EXCEPT !.at = "ending", !.awaited = LastInLine]
  /\ UNCHANGED <<status, inputs, prepared, steers, inputLine, goals, faults>>

\* The consumer has seen every event: the service takes the next run.
EndRun ==
  /\ run.at = "ending" /\ AwaitedSettled
  /\ run' = NoRun
  /\ steers' = [i \in Inputs |-> IF steers[i] = "queued" THEN "stale" ELSE steers[i]]
  /\ UNCHANGED <<status, inputs, prepared, unapplied, inputLine, writes, goals, eventLog, said, faults>>

CancelAct ==
  /\ run.at # "none" /\ ~run.aborted
  /\ run' = [run EXCEPT !.aborted = TRUE]
  /\ UNCHANGED <<status, inputs, prepared, unapplied, steers, inputLine, writes, goals, eventLog, said, faults>>

-----------------------------------------------------------------------------
(* Faults *)

\* A write fails, before or after its event is stored. The steer is refused; the loop reports
\* the failure of what it writes itself; that of anything else ends the run as failed, and a
\* second one ends it without a word.
WriteFails ==
  /\ faults < MaxFaults /\ writes # <<>>
  /\ faults' = faults + 1
  /\ LET e == Head(writes)
     IN /\ \/ Record(e) \/ UNCHANGED <<eventLog, unapplied>>
        /\ IF e.by = "steer"
           THEN RefuseInput(e.input) /\ writes' = Tail(writes) /\ UNCHANGED status
           ELSE IF run.at = "applying"
           THEN /\ run' = [run EXCEPT !.at = "erring"]
                /\ writes' = Append(Tail(writes), Told("error"))
                /\ UNCHANGED <<status, steers, inputLine>>
           ELSE /\ run' = IF run.failing THEN [run EXCEPT !.at = "ending", !.awaited = LastInLine]
                          ELSE [Retaining("failed") EXCEPT !.failing = TRUE]
                /\ status' = "over" /\ writes' = Tail(writes)
                /\ UNCHANGED <<steers, inputLine>>
  /\ UNCHANGED <<inputs, prepared, goals, said>>

ActCrash ==
  /\ faults < MaxFaults /\ run.at # "none"
  /\ faults' = faults + 1
  /\ run' = NoRun /\ status' = "idle"
  /\ inputs' = <<>> /\ prepared' = <<>> /\ unapplied' = <<>>
  /\ steers' = [i \in Inputs |-> IF i \in InLine THEN "lost" ELSE steers[i]]
  /\ inputLine' = <<>> /\ writes' = <<>> /\ said' = Unsaid
  /\ goals' = [fresh |-> FALSE, completed |-> FALSE]
  /\ UNCHANGED eventLog

ActNext ==
  \/ \E i \in Inputs : Submit(i) \/ Steer(i) \/ Ingest(i) \/ SteerEmits(i) \/ SteerEnds(i)
  \/ OwnInputWritten \/ BeginTurn \/ TakeInputs \/ TurnGivenUp \/ RequestRecorded
  \/ AppliedWritten \/ OwnAppliedWritten \/ NextTurn \/ Completion \/ Completed
  \/ Pause \/ Stalled \/ BudgetSpent \/ InputAskedFor
  \/ LoopFails \/ LoopEnds \/ Retain \/ RetainedTold \/ TerminalTold \/ EndRun
  \/ CancelAct \/ WriteFails \/ ActCrash

ActSpec == ActInit /\ [][ActNext]_actVars

-----------------------------------------------------------------------------
\* Every input is applied at most once, in whatever run, and never before it is stored
\* (INV-39: consumed once, also after a restart).
ConsumedOnce ==
  /\ IsInjective(eventLog)
  /\ Stored("applied") \subseteq Stored("input")

\* While a run takes turns and is not aborted no input it owes an answer is forgotten: one
\* that is stored and not applied is the run's own, among those the next turn takes up, or
\* being handed in.
NothingForgotten ==
  run.restored /\ ~run.aborted /\ run.at \in {"turn", "gated", "taken", "applying", "applyingOwn", "work", "completing"}
    => Stored("input") \ Stored("applied") \subseteq run.own \cup ToSet(inputs) \cup InLine

\* The terminal state is the last thing a consumer is told, and every input the run had and
\* did not apply was reported as retained before.
EndIsLast ==
  /\ ~said.late
  /\ said.terminal /\ run.at # "none" => ToSet(unapplied) \subseteq said.retained

=============================================================================
