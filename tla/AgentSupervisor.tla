--------------------------- MODULE AgentSupervisor ---------------------------
(***************************************************************************)
(* The supervisor of the child runs of an agent.  start and resume go one  *)
(* after another through a gate: each checks the limits, writes the job to *)
(* the storage and then launches the run, which reports to the storage     *)
(* again whenever its child asks, is answered or ends.  close() may come   *)
(* at any time, and so may a crash that leaves the storage only.           *)
(*                                                                         *)
(* One action is what happens between two awaits.  The child, its session  *)
(* and the storage are external: a child ends as it likes, a write may     *)
(* fail.  A waiter that is woken looks again within the same turn, before  *)
(* any other call completes.                                               *)
(***************************************************************************)
EXTENDS Naturals, FiniteSets, Sequences

CONSTANTS Calls,     \* the calls of start and resume
          JobOf(_),     \* request -> the child run it starts or resumes
          Waiters,      \* the calls of wait
          Concurrency,  \* options.concurrency
          Nothing

Jobs == {JobOf(r) : r \in Calls}
ASSUME SupervisorAssumption ==
  Concurrency \in Nat /\ Nothing \notin Jobs /\ "returned" \notin Jobs

\* How a run ends; "waiting": it paused at a limit of the user. A run that waits for the
\* answer to an interaction is "asking" here: its job is "waiting" too, with a pending request.
Ends == {"completed", "waiting", "cancelled", "failed"}

VARIABLES
  requests,  \* request -> "new", "queued", "saving", "launched" or "refused"
  inGate,      \* the gate: the requests that have not left it, in order
  live,      \* job -> its run: phase ("none" when not active), status, aborted
  written,    \* job -> the status last written, or "none"
  failures,  \* the jobs whose end could not be written
  waiters,   \* waiter -> the job it sleeps on, Nothing before, "returned" after
  closer,    \* close(): where it is, the request it waits for, the jobs it waits for
  lost       \* history: jobs whose run, or the end of it, was lost in the crash, and not resumed

supervisorVars == <<requests, inGate, live, written, failures, waiters, closer, lost>>

Fresh(phase) == [phase |-> phase, status |-> "running", aborted |-> FALSE]
Gone == Fresh("none")
NotClosed == [at |-> "open", last |-> Nothing, jobs |-> {}]

SupervisorInit ==
  /\ requests = [r \in Calls |-> "new"]
  /\ inGate = <<>>
  /\ live = [j \in Jobs |-> Gone]
  /\ written = [j \in Jobs |-> "none"]
  /\ failures = {}
  /\ waiters = [w \in Waiters |-> Nothing]
  /\ closer = NotClosed
  /\ lost = {}

Active == {j \in Jobs : live[j].phase # "none"}
Closed == closer.at # "open"

-----------------------------------------------------------------------------
(* start, resume: lock, assertAvailable, save, launch *)

Request(r) ==
  /\ requests[r] = "new"
  /\ requests' = [requests EXCEPT ![r] = "queued"]
  /\ inGate' = Append(inGate, r)
  /\ UNCHANGED <<live, written, failures, waiters, closer, lost>>

Leaves(r, end) == requests' = [requests EXCEPT ![r] = end] /\ inGate' = Tail(inGate)

\* MUTATED AtHead: the requests do not wait for each other.
AtHeadOrNot(r) == \E i \in DOMAIN inGate : inGate[i] = r

AtHead(r) == inGate # <<>> /\ Head(inGate) = r

Available(j) == ~Closed /\ Cardinality(Active) < Concurrency /\ j \notin Active

\* What the request reads first is read from the storage; status() of the resumed run
\* and the limits are what decides.
Check(r) ==
  /\ AtHead(r) /\ requests[r] = "queued"
  /\ IF Available(JobOf(r))
     THEN requests' = [requests EXCEPT ![r] = "saving"] /\ UNCHANGED inGate
     ELSE Leaves(r, "refused")
  /\ UNCHANGED <<live, written, failures, waiters, closer, lost>>

\* The job is written, and the run launched in the same turn: it begins to open its child.
Launch(r) ==
  LET j == JobOf(r)
  IN /\ requests[r] = "saving"
     /\ Leaves(r, "launched")
     /\ written' = [written EXCEPT ![j] = "running"]
     /\ live' = [live EXCEPT ![j] = Fresh("opening")]
     /\ failures' = failures \ {j}
     /\ lost' = lost \ {j}
     /\ UNCHANGED <<waiters, closer>>

SaveFails(r) ==
  /\ requests[r] = "saving"
  /\ Leaves(r, "refused")
  /\ UNCHANGED <<live, written, failures, waiters, closer, lost>>

-----------------------------------------------------------------------------
(* The run *)

\* notify: who sleeps on a job that has ended, or asks, returns.
Notify(runs) ==
  waiters' = [w \in Waiters |->
                IF waiters[w] \in Jobs /\ (runs[waiters[w]].phase = "none" \/ runs[waiters[w]].status = "asking")
                THEN "returned" ELSE waiters[w]]

Opened(j) ==
  /\ live[j].phase = "opening" /\ ~live[j].aborted
  /\ live' = [live EXCEPT ![j].phase = "running"]
  /\ UNCHANGED <<requests, inGate, written, failures, waiters, closer, lost>>

\* An event of the child: an interaction, or the answer to one. The job changes at once and
\* is then written.
Interaction(j) ==
  /\ live[j].phase = "running"
  /\ live' = [live EXCEPT ![j].phase = "saving",
                          ![j].status = IF @ = "asking" THEN "running" ELSE "asking"]
  /\ UNCHANGED <<requests, inGate, written, failures, waiters, closer, lost>>

InteractionSaved(j) ==
  /\ live[j].phase = "saving"
  /\ written' = [written EXCEPT ![j] = live[j].status]
  /\ live' = [live EXCEPT ![j].phase = "running"]
  /\ Notify(live)
  /\ UNCHANGED <<requests, inGate, failures, closer, lost>>

\* The child's events end, or opening, the child or a write fails: the status is decided,
\* and what is left to do is to close the session and write the result and the job.
ChildEnds(j) ==
  /\ live[j].phase \in {"opening", "running", "saving"}
  /\ \E status \in Ends :
       /\ status \in {"completed", "waiting"} => live[j].phase = "running"
       /\ live[j].phase = "opening" => status = (IF live[j].aborted THEN "cancelled" ELSE "failed")
       /\ live' = [live EXCEPT ![j].phase = "ending", ![j].status = status]
  /\ UNCHANGED <<requests, inGate, written, failures, waiters, closer, lost>>

EndSaved(j) ==
  /\ live[j].phase = "ending"
  /\ written' = [written EXCEPT ![j] = live[j].status]
  /\ live' = [live EXCEPT ![j] = Gone]
  /\ Notify(live')
  /\ UNCHANGED <<requests, inGate, failures, closer, lost>>

EndFails(j) ==
  /\ live[j].phase = "ending"
  /\ failures' = failures \cup {j}
  /\ live' = [live EXCEPT ![j] = Gone]
  /\ Notify(live')
  /\ UNCHANGED <<requests, inGate, written, closer, lost>>

-----------------------------------------------------------------------------
(* wait, cancel, close, and a crash *)

Wait(w, j) ==
  /\ waiters[w] = Nothing
  /\ waiters' = [waiters EXCEPT ![w] = IF j \in Active /\ live[j].status # "asking" THEN j ELSE "returned"]
  /\ UNCHANGED <<requests, inGate, live, written, failures, closer, lost>>

Aborted(jobs) == [j \in Jobs |-> IF j \in jobs THEN [live[j] EXCEPT !.aborted = TRUE] ELSE live[j]]

CancelRun(j) ==
  /\ j \in Active
  /\ live' = Aborted({j})
  /\ UNCHANGED <<requests, inGate, written, failures, waiters, closer, lost>>

CloseSupervisor ==
  /\ ~Closed
  /\ closer' = [at |-> "gate", last |-> IF inGate = <<>> THEN Nothing ELSE inGate[Len(inGate)], jobs |-> {}]
  /\ UNCHANGED <<requests, inGate, live, written, failures, waiters, lost>>

\* MUTATED GatePassed: close does not wait for the request that is under way.
GateIgnored == TRUE

GatePassed == closer.last \in Calls => requests[closer.last] \in {"launched", "refused"}

CloseCancels ==
  /\ closer.at = "gate" /\ GatePassed
  /\ closer' = [closer EXCEPT !.at = "cancelling", !.jobs = Active]
  /\ live' = Aborted(Active)
  /\ UNCHANGED <<requests, inGate, written, failures, waiters, lost>>

CloseEnds ==
  /\ closer.at = "cancelling" /\ closer.jobs \cap Active = {}
  /\ closer' = [closer EXCEPT !.at = "closed"]
  /\ UNCHANGED <<requests, inGate, live, written, failures, waiters, lost>>

\* The process dies, once, and starts again: only the storage is left, with or without the
\* job that was being written.
SupervisorCrash ==
  /\ lost = {} /\ Active # {}
  /\ \E halfway \in SUBSET {JobOf(r) : r \in {q \in Calls : requests[q] = "saving"}} :
       /\ lost' = Active \cup failures \cup halfway
       /\ written' = [j \in Jobs |-> IF j \in halfway THEN "running" ELSE written[j]]
  /\ requests' = [r \in Calls |-> IF requests[r] = "new" THEN "new" ELSE "refused"]
  /\ inGate' = <<>>
  /\ live' = [j \in Jobs |-> Gone]
  /\ waiters' = [w \in Waiters |-> IF waiters[w] = Nothing THEN Nothing ELSE "returned"]
  /\ failures' = {}
  /\ closer' = NotClosed

SupervisorNext ==
  \/ \E r \in Calls : Request(r) \/ Check(r) \/ Launch(r) \/ SaveFails(r)
  \/ \E j \in Jobs :
       \/ Opened(j) \/ Interaction(j) \/ InteractionSaved(j) \/ ChildEnds(j)
       \/ EndSaved(j) \/ EndFails(j) \/ CancelRun(j)
       \/ \E w \in Waiters : Wait(w, j)
  \/ CloseSupervisor \/ CloseCancels \/ CloseEnds \/ SupervisorCrash

SupervisorSpec == SupervisorInit /\ [][SupervisorNext]_supervisorVars

-----------------------------------------------------------------------------
\* There are never more runs than allowed, though a request waits for the storage between
\* its check and its launch; and who sleeps on a run is woken: the run is active, and asks
\* nothing but what is being written, after which the sleepers are told. And the storage calls
\* a run unfinished only while it is: it is active, or was lost in a crash, or its end could
\* not be written.
SupervisorInv ==
  /\ Cardinality(Active) <= Concurrency
  /\ \A w \in Waiters :
       waiters[w] \in Jobs => /\ waiters[w] \in Active
                              /\ live[waiters[w]].status = "asking" => live[waiters[w]].phase = "saving"
  /\ \A j \in Jobs : written[j] \in {"running", "asking"} => j \in Active \cup lost \cup failures

\* When close() has returned no run is active, and none will be launched by a request that
\* was under way.
ClosedIsQuiet ==
  closer.at = "closed" => Active = {} /\ \A r \in Calls : requests[r] # "saving"

=============================================================================
