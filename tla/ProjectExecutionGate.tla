------------------------- MODULE ProjectExecutionGate -------------------------
(***************************************************************************)
(* The gate of a project: commands that only read run side by side, those  *)
(* that change the project run alone, all in the order in which they came. *)
(* A gate is made for the first task of a root and removed when nobody     *)
(* uses it; tasks keep the gate they found.                                *)
(*                                                                         *)
(* run, cancel and the finally block are synchronous, and each ends in     *)
(* drain.  A task that has been let in begins a microtask later; when it   *)
(* is aborted before, it leaves without having run.                        *)
(***************************************************************************)
EXTENDS Naturals, Sequences, SequencesExt

CONSTANTS Tasks, Roots, NoTask

ASSUME GateAssumption == NoTask \notin Tasks /\ Roots # {}

VARIABLES
  gates,   \* root -> its gate, known by the task that made it, or NoTask
  gate,    \* gate -> its readers, its writer flag and its queue
  task     \* task -> where it is, its root and gate, and whether it writes

gateVars == <<gates, gate, task>>

NoGate == [readers |-> 0, writing |-> FALSE, queue |-> <<>>]

\* A task is run once, and asks for nothing before and after.
Away(at) == [at |-> at, root |-> CHOOSE r \in Roots : TRUE, gate |-> NoTask, write |-> FALSE]

GateInit ==
  /\ gates = [r \in Roots |-> NoTask]
  /\ gate = [g \in Tasks |-> NoGate]
  /\ task = [t \in Tasks |-> Away("new")]

\* How many tasks at the head of a queue come before its first writer.
ReadersAhead(queue, tasks) ==
  CHOOSE n \in 0..Len(queue) :
    /\ \A i \in 1..n : ~tasks[queue[i]].write
    /\ n < Len(queue) => tasks[queue[n + 1]].write

\* MUTATED LetIn: the writer at the head does not wait for the readers.
LetInAnyway(g, tasks) ==
  LET readers == ReadersAhead(g.queue, tasks)
  IN IF g.writing \/ g.queue = <<>> THEN 0 ELSE IF readers > 0 THEN readers ELSE 1

\* drain: how many are let in. The readers before the first writer are let in together; a
\* writer at the head is let in alone, when the readers have left.
LetIn(g, tasks) ==
  LET readers == ReadersAhead(g.queue, tasks)
  IN IF g.writing \/ g.queue = <<>> THEN 0
     ELSE IF readers > 0 THEN readers
     ELSE IF g.readers = 0 THEN 1 ELSE 0

\* They start; a gate that nobody uses any more is removed from its root.
Admitting(tasks, in) == [t \in Tasks |-> IF t \in in THEN [tasks[t] EXCEPT !.at = "admitted"] ELSE tasks[t]]

Drained(now, tasks) ==
  LET n == LetIn(now, tasks)
      alone == n # 0 /\ tasks[now.queue[1]].write
  IN [readers |-> IF alone THEN now.readers ELSE now.readers + n,
      writing |-> now.writing \/ alone,
      queue |-> SubSeq(now.queue, n + 1, Len(now.queue))]

DrainGate(root, id, now, map, tasks) ==
  /\ gate' = [gate EXCEPT ![id] = Drained(now, tasks)]
  /\ gates' = IF Drained(now, tasks) = NoGate THEN [map EXCEPT ![root] = NoTask] ELSE map
  /\ task' = Admitting(tasks, {now.queue[i] : i \in 1..LetIn(now, tasks)})

\* The gate of its project, or a new one.
GateOf(root, t) == IF gates[root] # NoTask THEN gates[root] ELSE t

\* run, with a signal that is not aborted
RunTask(t, root, write) ==
  /\ task[t].at = "new"
  /\ LET id == GateOf(root, t)
     IN DrainGate(root, id, [gate[id] EXCEPT !.queue = Append(@, t)], [gates EXCEPT ![root] = id],
              [task EXCEPT ![t] = [at |-> "queued", root |-> root, gate |-> id, write |-> write]])

\* The first microtask: not aborted, the task begins.
BeginTask(t) ==
  /\ task[t].at = "admitted"
  /\ task' = [task EXCEPT ![t].at = "running"]
  /\ UNCHANGED <<gates, gate>>

PlaceOf(t, queue) == CHOOSE i \in DOMAIN queue : queue[i] = t

\* cancel of a task that waits
CancelTask(t) ==
  /\ task[t].at = "queued"
  /\ LET id == task[t].gate
     IN DrainGate(task[t].root, id, [gate[id] EXCEPT !.queue = RemoveAt(@, PlaceOf(t, @))], gates,
              [task EXCEPT ![t] = Away("over")])

\* finally: the task is done, or was aborted before it began.
EndTask(t) ==
  /\ task[t].at \in {"admitted", "running"}
  /\ LET id == task[t].gate
         now == IF task[t].write THEN [gate[id] EXCEPT !.writing = FALSE]
                ELSE [gate[id] EXCEPT !.readers = @ - 1]
     IN DrainGate(task[t].root, id, now, gates, [task EXCEPT ![t] = Away("over")])

GateNext ==
  \E t \in Tasks :
    \/ \E root \in Roots, write \in BOOLEAN : RunTask(t, root, write)
    \/ BeginTask(t) \/ CancelTask(t) \/ EndTask(t)

GateSpec == GateInit /\ [][GateNext]_gateVars

-----------------------------------------------------------------------------

GateScopes == [root : Roots, write : BOOLEAN]
Disturb(s, t) == s.root = t.root /\ (s.write \/ t.write)
ScopesIn(tasks) == [t \in Tasks |-> [root |-> tasks[t].root, write |-> tasks[t].write]]
StatesIn(tasks) == [t \in Tasks |-> CASE tasks[t].at \in {"new", "over"} -> "idle"
                                      [] tasks[t].at = "queued" -> "waiting"
                                      [] OTHER -> "granted"]
InFrontOf(t, queue) == {u \in Tasks : \E k \in DOMAIN queue : queue[k] = t /\ \E i \in 1..(k - 1) : queue[i] = u}
RivalsIn(line, tasks) ==
  [t \in Tasks |->
     IF StatesIn(tasks)[t] # "waiting" THEN {}
     ELSE {u \in Tasks : /\ Disturb(ScopesIn(tasks)[u], ScopesIn(tasks)[t])
                         /\ StatesIn(tasks)[u] = "granted" \/ u \in InFrontOf(t, line[tasks[t].gate].queue)}]
GateScope == ScopesIn(task)
GateState == StatesIn(task)
GateRivals == RivalsIn(gate, task)
GateQueue == INSTANCE OrderedAdmission WITH
               Requests <- Tasks, Scopes <- GateScopes, Conflict <- Disturb,
               state <- GateState, scope <- GateScope, rivals <- GateRivals

\* spec/invariants.md INV-8: whoever changes a project is alone in it, readers are not
\* let in past a writer that waits, and a cancelled task is as if it had never come,
\* also while gates come and go.
GateInOrder == GateQueue!AdmissionSpec

=============================================================================
