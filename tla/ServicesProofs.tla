----------------------------- MODULE ServicesProofs -----------------------------
(***************************************************************************)
(* The services of a process, each for any values of its constants: the    *)
(* supervisor of agents keeps its limit and wakes who sleeps, the pairing  *)
(* of devices lets in only whom the node is paired with, an operation is   *)
(* handled once, and the module host shows only services that live.        *)
(***************************************************************************)
EXTENDS AgentSupervisor, RemoteNodePairing, OperationRuntime, KernelModuleHost,
        FiniteSetTheorems, SequenceTheorems, WellFoundedInduction, TLAPS

-----------------------------------------------------------------------------
(* AgentSupervisor *)

Phases == {"none", "opening", "running", "saving", "ending"}
Run == [phase : Phases, status : {"running", "asking"} \cup Ends, aborted : BOOLEAN]

SupervisorTypes ==
  /\ requests \in [Calls -> {"new", "queued", "saving", "launched", "refused"}]
  /\ inGate \in Seq(Calls)
  /\ live \in [Jobs -> Run]
  /\ written \in [Jobs -> {"none", "running", "asking"} \cup Ends]
  /\ waiters \in [Waiters -> Jobs \cup {Nothing, "returned"}]
  /\ closer \in [at : {"open", "gate", "cancelling", "closed"}, last : Calls \cup {Nothing}, jobs : SUBSET Jobs]

\* The gate holds requests that have neither been launched nor refused, each once; the one
\* that writes its job is the first of them, and its place among the runs is free.
GateInv ==
  /\ \A i \in DOMAIN inGate : requests[inGate[i]] \in {"queued", "saving"}
  /\ \A i, k \in DOMAIN inGate : inGate[i] = inGate[k] => i = k
  /\ \A r \in Calls : requests[r] = "saving" => AtHead(r) /\ Cardinality(Active) < Concurrency

\* While a request that passed its check is under way, close() still waits for the gate:
\* the request it waits for is that one or stands behind it.
CloserInv ==
  /\ Closed /\ (\E r \in Calls : requests[r] = "saving") =>
       /\ closer.at = "gate" /\ closer.last \in Calls
       /\ requests[closer.last] \in {"queued", "saving"}
  /\ closer.at = "cancelling" => Active \subseteq closer.jobs
  /\ closer.at = "closed" => Active = {}

\* The inductive invariant of the supervisor.
SupervisionInv ==
  /\ SupervisorTypes
  /\ IsFiniteSet(Active)
  /\ GateInv
  /\ CloserInv
  /\ \A j \in Jobs : live[j].phase = "ending" => live[j].status \in Ends
  /\ SupervisorInv

\* The invariant holds at the beginning.
LEMMA SupervisionInit == SupervisorInit => SupervisionInv
<1>. SUFFICES ASSUME SupervisorInit PROVE SupervisionInv
  OBVIOUS
<1>. USE SupervisorAssumption DEF SupervisorInit
<1>1. Active = {}
  BY DEF Active, Gone, Fresh
<1>2. IsFiniteSet(Active) /\ Cardinality(Active) = 0
  BY <1>1, FS_EmptySet
<1>3. SupervisorTypes
  BY DEF SupervisorTypes, Gone, Fresh, Run, Phases, NotClosed
<1>4. GateInv /\ CloserInv
  BY DEF GateInv, CloserInv, Closed, NotClosed
<1>5. SupervisorInv
  BY <1>1, <1>2 DEF SupervisorInv
<1> QED BY <1>2, <1>3, <1>4, <1>5 DEF SupervisionInv, Gone, Fresh

\* A request leaves the gate: those that stay stand behind each other as before, and none
\* of them writes its job.
LEMMA LeavesKeepsGate ==
  ASSUME SupervisionInv, NEW r \in Calls, AtHead(r), NEW end \in {"launched", "refused"}, Leaves(r, end)
  PROVE  /\ requests' \in [Calls -> {"new", "queued", "saving", "launched", "refused"}]
         /\ inGate' \in Seq(Calls)
         /\ \A q \in Calls : requests'[q] # "saving"
         /\ GateInv'
<1>. USE DEF SupervisionInv, SupervisorTypes, GateInv, AtHead, Leaves
<1>1. /\ inGate' \in Seq(Calls) /\ Len(inGate') = Len(inGate) - 1
      /\ \A i \in 1..Len(inGate') : inGate'[i] = inGate[i + 1]
  BY HeadTailProperties
<1>2. DOMAIN inGate = 1..Len(inGate) /\ DOMAIN inGate' = 1..Len(inGate') /\ Len(inGate) \in Nat
  BY <1>1, LenProperties
<1>3. inGate[1] = r /\ 1 \in DOMAIN inGate
  BY <1>2, EmptySeq
<1>4. \A q \in Calls : requests'[q] = IF q = r THEN end ELSE requests[q]
  OBVIOUS
<1>5. \A i \in DOMAIN inGate' : i + 1 \in DOMAIN inGate /\ i + 1 # 1
  BY <1>1, <1>2
<1>6. \A i \in DOMAIN inGate' : inGate'[i] # r
  BY <1>1, <1>2, <1>3, <1>5
<1>7. \A i \in DOMAIN inGate' : inGate'[i] \in Calls
  BY <1>1, <1>2
<1>8. \A q \in Calls : requests'[q] # "saving"
  BY <1>4
<1>9. \A i \in DOMAIN inGate' : requests'[inGate'[i]] \in {"queued", "saving"}
  BY <1>1, <1>2, <1>4, <1>5, <1>6, <1>7
<1>10. \A i, k \in DOMAIN inGate' : inGate'[i] = inGate'[k] => i = k
  BY <1>1, <1>2, <1>5
<1> QED BY <1>1, <1>8, <1>9, <1>10

\* A step that neither moves the gate nor launches a run: there are not more runs than before.
LEMMA RunsMove ==
  ASSUME SupervisionInv, Active' \subseteq Active, UNCHANGED <<requests, inGate, closer>>
  PROVE  /\ IsFiniteSet(Active') /\ Cardinality(Active') <= Concurrency
         /\ GateInv' /\ CloserInv'
<1>. USE SupervisorAssumption DEF SupervisionInv
<1>1. IsFiniteSet(Active') /\ Cardinality(Active') <= Cardinality(Active)
  BY FS_Subset
<1>2. Cardinality(Active) \in Nat /\ Cardinality(Active') \in Nat
  BY <1>1, FS_CardinalityType
<1>3. Cardinality(Active') <= Concurrency
  BY <1>1, <1>2 DEF SupervisorInv
<1>4. \A r \in Calls : requests[r] = "saving" => Cardinality(Active') < Concurrency
  BY <1>1, <1>2 DEF GateInv
<1>5. GateInv'
  BY <1>4 DEF GateInv, AtHead
<1>6. CloserInv'
  BY DEF CloserInv, Closed
<1> QED BY <1>1, <1>3, <1>5, <1>6

\* A step of one run that does not launch it.
LEMMA RunSteps ==
  ASSUME SupervisionInv, NEW j \in Jobs,
         \/ Opened(j) \/ Interaction(j) \/ InteractionSaved(j) \/ ChildEnds(j)
         \/ EndSaved(j) \/ EndFails(j) \/ CancelRun(j) \/ \E w \in Waiters : Wait(w, j)
  PROVE  SupervisionInv'
<1>. USE SupervisorAssumption DEF SupervisionInv, SupervisorTypes
<1>m. ASSUME live' \in [Jobs -> Run], waiters' \in [Waiters -> Jobs \cup {Nothing, "returned"}],
             written' \in [Jobs -> {"none", "running", "asking"} \cup Ends],
             \A k \in Jobs : live'[k].phase # "none" => live[k].phase # "none",
             \A k \in Jobs : live'[k].phase = "ending" => live'[k].status \in Ends,
             \A w \in Waiters : waiters'[w] \in Jobs =>
               /\ live'[waiters'[w]].phase # "none"
               /\ live'[waiters'[w]].status = "asking" => live'[waiters'[w]].phase = "saving",
             \A k \in Jobs : written'[k] \in {"running", "asking"} =>
               live'[k].phase # "none" \/ k \in lost' \cup failures',
             UNCHANGED <<requests, inGate, closer>>
      PROVE  SupervisionInv'
  <2>1. Active' \subseteq Active
    BY <1>m DEF Active
  <2>2. /\ IsFiniteSet(Active') /\ Cardinality(Active') <= Concurrency
        /\ GateInv' /\ CloserInv'
    BY <1>m, <2>1, RunsMove
  <2>3. SupervisorInv'
    BY <1>m, <2>2 DEF SupervisorInv, Active
  <2> QED BY <1>m, <2>2, <2>3
<1>a. /\ \A w \in Waiters : waiters[w] \in Jobs =>
           /\ live[waiters[w]].phase # "none"
           /\ live[waiters[w]].status = "asking" => live[waiters[w]].phase = "saving"
      /\ \A k \in Jobs : written[k] \in {"running", "asking"} =>
           live[k].phase # "none" \/ k \in lost \cup failures
  BY DEF SupervisorInv, Active
<1>b. Gone \in Run
  BY DEF Gone, Fresh, Run, Phases
<1>c. /\ waiters \in [Waiters -> Jobs \cup {Nothing, "returned"}]
      /\ written \in [Jobs -> {"none", "running", "asking"} \cup Ends]
      /\ \A k \in Jobs : live[k].phase = "ending" => live[k].status \in Ends
  BY DEF SupervisorInv
<1>1. CASE Opened(j)
  <2>1. live' = [live EXCEPT ![j].phase = "running"] /\ live[j].phase = "opening"
    BY <1>1 DEF Opened
  <2>2. live' \in [Jobs -> Run]
    <3>1. live \in [Jobs -> Run] /\ live[j] \in Run
      OBVIOUS
    <3>2. [live[j] EXCEPT !.phase = "running"] \in Run
      BY ONLY <3>1 DEF Run, Phases
    <3> QED BY ONLY <2>1, <3>1, <3>2
  <2>3. /\ \A k \in Jobs : live'[k].phase = IF k = j THEN "running" ELSE live[k].phase
        /\ \A k \in Jobs : live'[k].status = live[k].status
    BY <2>1 DEF Run
  <2> QED BY <1>1, <1>a, <1>m, <2>1, <2>2, <2>3 DEF Opened
<1>2. CASE Interaction(j)
  <2>1. live[j].phase = "running"
    BY <1>2 DEF Interaction
  <2>2. live' \in [Jobs -> Run]
    BY <1>2 DEF Interaction, Run, Phases
  <2>3. /\ \A k \in Jobs : live'[k].phase = IF k = j THEN "saving" ELSE live[k].phase
        /\ \A k \in Jobs \ {j} : live'[k].status = live[k].status
    BY <1>2 DEF Interaction, Run
  <2> QED BY <1>2, <1>a, <1>m, <2>1, <2>2, <2>3 DEF Interaction
<1>3. CASE InteractionSaved(j)
  <2>1. live' = [live EXCEPT ![j].phase = "running"] /\ live[j].phase = "saving"
    BY <1>3 DEF InteractionSaved
  <2>2. live' \in [Jobs -> Run]
    <3>1. live \in [Jobs -> Run] /\ live[j] \in Run
      OBVIOUS
    <3>2. [live[j] EXCEPT !.phase = "running"] \in Run
      BY ONLY <3>1 DEF Run, Phases
    <3> QED BY ONLY <2>1, <3>1, <3>2
  <2>3. /\ \A k \in Jobs : live'[k].phase = IF k = j THEN "running" ELSE live[k].phase
        /\ \A k \in Jobs : live'[k].status = live[k].status
    BY <2>1 DEF Run
  <2>4. \A w \in Waiters : waiters'[w] \in Jobs =>
          waiters'[w] = waiters[w] /\ live[waiters[w]].phase # "none" /\ live[waiters[w]].status # "asking"
    BY <1>3 DEF InteractionSaved, Notify
  <2>5. waiters' \in [Waiters -> Jobs \cup {Nothing, "returned"}]
    BY <1>3 DEF InteractionSaved, Notify
  <2>6. live[j].status \in {"running", "asking"} \cup Ends
    BY DEF Run
  <2>7. written' \in [Jobs -> {"none", "running", "asking"} \cup Ends]
    BY <1>3, <2>6 DEF InteractionSaved
  <2>8. \A k \in Jobs : k # j => written'[k] = written[k]
    BY <1>3 DEF InteractionSaved
  <2>9. UNCHANGED <<requests, inGate, closer, failures, lost>>
    BY <1>3 DEF InteractionSaved
  <2> QED BY <1>a, <1>m, <2>1, <2>2, <2>3, <2>4, <2>5, <2>7, <2>8, <2>9
<1>4. CASE ChildEnds(j)
  <2>1. PICK end \in Ends : live' = [live EXCEPT ![j].phase = "ending", ![j].status = end]
    BY <1>4 DEF ChildEnds
  <2>2. live' \in [Jobs -> Run]
    <3>1. live[j] \in Run
      OBVIOUS
    <3>2. [live[j] EXCEPT !.phase = "ending", !.status = end] \in Run
      BY <3>1 DEF Run, Phases
    <3>3. live' = [live EXCEPT ![j] = [live[j] EXCEPT !.phase = "ending", !.status = end]]
      BY <2>1
    <3> QED BY <3>2, <3>3
  <2>3. /\ \A k \in Jobs : live'[k].phase = IF k = j THEN "ending" ELSE live[k].phase
        /\ \A k \in Jobs : live'[k].status = IF k = j THEN end ELSE live[k].status
    BY <2>1 DEF Run
  <2>4. end # "asking"
    BY <2>1 DEF Ends
  <2>5. live[j].phase # "none"
    BY <1>4 DEF ChildEnds
  <2>6. UNCHANGED <<requests, inGate, written, failures, waiters, closer, lost>>
    BY <1>4 DEF ChildEnds
  <2> QED BY <1>a, <1>m, <2>1, <2>2, <2>3, <2>4, <2>5, <2>6
<1>5. CASE EndSaved(j) \/ EndFails(j)
  <2>1. live[j].phase = "ending" /\ live' = [live EXCEPT ![j] = Gone]
    BY <1>5 DEF EndSaved, EndFails
  <2>2. live' \in [Jobs -> Run]
    BY <1>b, <2>1
  <2>3. \A k \in Jobs : live'[k] = IF k = j THEN Gone ELSE live[k]
    BY <2>1
  <2>4. Notify(live')
    BY <1>5 DEF EndSaved, EndFails
  <2>5. waiters' \in [Waiters -> Jobs \cup {Nothing, "returned"}]
    BY <2>4 DEF Notify
  <2>6. \A w \in Waiters : waiters'[w] \in Jobs =>
          waiters'[w] = waiters[w] /\ live'[waiters[w]].phase # "none" /\ live'[waiters[w]].status # "asking"
    BY <2>4 DEF Notify
  <2>7. live[j].status \in Ends
    BY <2>1
  <2>8. written' \in [Jobs -> {"none", "running", "asking"} \cup Ends]
    BY <1>5, <2>7 DEF EndSaved, EndFails
  <2>9. \A k \in Jobs : k # j => written'[k] = written[k]
    BY <1>5 DEF EndSaved, EndFails
  <2>10. written'[j] \in {"running", "asking"} => j \in failures'
    <3>1. CASE EndSaved(j)
      <4>1. written'[j] \in Ends
        BY <3>1, <2>7 DEF EndSaved
      <4> QED BY <4>1 DEF Ends
    <3>2. CASE EndFails(j)
      BY <3>2 DEF EndFails
    <3> QED BY <1>5, <3>1, <3>2
  <2>11. lost' = lost /\ failures \subseteq failures'
    BY <1>5 DEF EndSaved, EndFails
  <2>12. UNCHANGED <<requests, inGate, closer>>
    BY <1>5 DEF EndSaved, EndFails
  <2>13. \A k \in Jobs : live'[k].phase # "none" => k # j
    BY <2>3 DEF Gone, Fresh
  <2>14. \A k \in Jobs : written'[k] \in {"running", "asking"} =>
           live'[k].phase # "none" \/ k \in lost' \cup failures'
    BY <1>a, <2>3, <2>9, <2>10, <2>11
  <2>15. \A k \in Jobs : live'[k].phase = "ending" => live'[k].status \in Ends
    BY <2>3, <2>13
  <2>16. \A k \in Jobs : live'[k].phase # "none" => live[k].phase # "none"
    BY <2>1, <2>3, <2>13
  <2> QED BY <1>m, <2>2, <2>5, <2>6, <2>8, <2>12, <2>14, <2>15, <2>16
<1>6. CASE CancelRun(j)
  <2>1. live' = Aborted({j})
    BY <1>6 DEF CancelRun
  <2>2. live' \in [Jobs -> Run]
    <3>1. ASSUME NEW k \in Jobs PROVE live[k] \in Run /\ [live[k] EXCEPT !.aborted = TRUE] \in Run
      <4>1. live[k] \in Run
        OBVIOUS
      <4> QED BY <4>1 DEF Run
    <3> QED BY <2>1, <3>1 DEF Aborted
  <2>3. \A k \in Jobs : live'[k].phase = live[k].phase /\ live'[k].status = live[k].status
    BY <2>1 DEF Aborted, Run
  <2>4. UNCHANGED <<requests, inGate, closer, waiters, written, failures, lost>>
    BY <1>6 DEF CancelRun
  <2>5. /\ \A k \in Jobs : live'[k].phase # "none" => live[k].phase # "none"
        /\ \A k \in Jobs : live'[k].phase = "ending" => live'[k].status \in Ends
        /\ \A w \in Waiters : waiters'[w] \in Jobs =>
             /\ live'[waiters'[w]].phase # "none"
             /\ live'[waiters'[w]].status = "asking" => live'[waiters'[w]].phase = "saving"
        /\ \A k \in Jobs : written'[k] \in {"running", "asking"} =>
             live'[k].phase # "none" \/ k \in lost' \cup failures'
    BY ONLY <1>a, <1>c, <2>3, <2>4
  <2> QED BY <1>c, <1>m, <2>2, <2>4, <2>5
<1>7. ASSUME NEW w \in Waiters, Wait(w, j) PROVE SupervisionInv'
  <2>1. waiters' \in [Waiters -> Jobs \cup {Nothing, "returned"}]
    BY <1>7 DEF Wait
  <2>2. \A v \in Waiters : waiters'[v] \in Jobs =>
          waiters'[v] = waiters[v] \/ (waiters'[v] = j /\ j \in Active /\ live[j].status # "asking")
    BY <1>7 DEF Wait
  <2> QED BY <1>7, <1>a, <1>m, <2>1, <2>2 DEF Wait, Active
<1> QED BY <1>1, <1>2, <1>3, <1>4, <1>5, <1>6, <1>7

\* A step of a request: what is launched was free and within the limit when it was checked,
\* and nothing was launched since, as the request is alone in front of the gate.
LEMMA RequestSteps ==
  ASSUME SupervisionInv, NEW r \in Calls, Request(r) \/ Check(r) \/ Launch(r) \/ SaveFails(r)
  PROVE  SupervisionInv'
<1>. USE SupervisorAssumption DEF SupervisionInv
<1>1. CASE Request(r)
  <2>. USE DEF SupervisorTypes, GateInv
  <2>0. DOMAIN inGate = 1..Len(inGate) /\ Len(inGate) \in Nat /\ \A i \in DOMAIN inGate : inGate[i] \in Calls
    BY LenProperties
  <2>1. /\ inGate' \in Seq(Calls) /\ Len(inGate') = Len(inGate) + 1
        /\ \A i \in 1..Len(inGate) : inGate'[i] = inGate[i]
        /\ inGate'[Len(inGate) + 1] = r
    BY <1>1, AppendProperties DEF Request
  <2>2. DOMAIN inGate' = 1..(Len(inGate) + 1)
    BY <2>0, <2>1, LenProperties
  <2>3. \A q \in Calls : requests'[q] = IF q = r THEN "queued" ELSE requests[q]
    BY <1>1 DEF Request
  <2>4. \A i \in DOMAIN inGate : inGate[i] # r
    BY <1>1 DEF Request
  <2>5. requests' \in [Calls -> {"new", "queued", "saving", "launched", "refused"}]
    BY <1>1 DEF Request
  <2>6. UNCHANGED <<live, written, failures, waiters, closer, lost>>
    BY <1>1 DEF Request
  <2>7. \A i \in DOMAIN inGate' : requests'[inGate'[i]] \in {"queued", "saving"}
    BY <2>0, <2>1, <2>2, <2>3
  <2>8. \A i, k \in DOMAIN inGate' : inGate'[i] = inGate'[k] => i = k
    BY <2>0, <2>1, <2>2, <2>4
  <2>9. ASSUME NEW q \in Calls, requests'[q] = "saving"
        PROVE  AtHead(q)' /\ Cardinality(Active') < Concurrency
    <3>1. AtHead(q) /\ Cardinality(Active) < Concurrency
      BY <2>3, <2>9
    <3>2. inGate' # <<>> /\ inGate'[1] = inGate[1]
      BY <3>1, <2>0, <2>1, EmptySeq DEF AtHead
    <3> QED BY <3>1, <3>2, <2>6 DEF AtHead, Active
  <2>10. GateInv'
    BY <2>7, <2>8, <2>9
  <2>11. CloserInv'
    BY <2>3, <2>6 DEF CloserInv, Closed, Active
  <2>12. Active' = Active /\ SupervisorInv'
    BY <2>6 DEF SupervisorInv, Active
  <2> QED BY <2>1, <2>5, <2>6, <2>10, <2>11, <2>12
<1>2. CASE Check(r)
  <2>1. AtHead(r) /\ requests[r] = "queued" /\ UNCHANGED <<live, written, failures, waiters, closer, lost>>
    BY <1>2 DEF Check
  <2>2. Active' = Active /\ SupervisorInv'
    BY <2>1 DEF SupervisorInv, Active
  <2>3. CASE Available(JobOf(r))
    <3>1. requests' = [requests EXCEPT ![r] = "saving"] /\ inGate' = inGate
      BY <1>2, <2>3 DEF Check
    <3>2. \A q \in Calls : requests'[q] = IF q = r THEN "saving" ELSE requests[q]
      BY <3>1 DEF SupervisorTypes
    <3>3. SupervisorTypes'
      BY <2>1, <3>1 DEF SupervisorTypes
    <3>4. \A i \in DOMAIN inGate : inGate[i] \in Calls
      BY DEF SupervisorTypes
    <3>5. GateInv'
      BY <2>1, <2>2, <2>3, <3>1, <3>2, <3>4 DEF GateInv, Available, AtHead
    <3>6. CloserInv'
      BY <2>1, <2>2, <2>3 DEF CloserInv, Available, Closed
    <3> QED BY <2>1, <2>2, <3>3, <3>5, <3>6
  <2>4. CASE ~Available(JobOf(r))
    <3>1. Leaves(r, "refused")
      BY <1>2, <2>4 DEF Check
    <3>2. /\ requests' \in [Calls -> {"new", "queued", "saving", "launched", "refused"}]
          /\ inGate' \in Seq(Calls)
          /\ \A q \in Calls : requests'[q] # "saving"
          /\ GateInv'
      BY <2>1, <3>1, LeavesKeepsGate
    <3>3. CloserInv'
      BY <2>1, <2>2, <3>2 DEF CloserInv, Closed
    <3> QED BY <2>1, <2>2, <3>2, <3>3 DEF SupervisorTypes
  <2> QED BY <2>3, <2>4
<1>3. CASE Launch(r)
  <2> DEFINE j == JobOf(r)
  <2>1. j \in Jobs /\ AtHead(r) /\ Leaves(r, "launched") /\ Cardinality(Active) < Concurrency
    BY <1>3 DEF Launch, Jobs, GateInv
  <2>2. /\ requests' \in [Calls -> {"new", "queued", "saving", "launched", "refused"}]
        /\ inGate' \in Seq(Calls)
        /\ \A q \in Calls : requests'[q] # "saving"
        /\ GateInv'
    BY <2>1, LeavesKeepsGate
  <2> DEFINE fresh == [phase |-> "opening", status |-> "running", aborted |-> FALSE]
  <2>3. live' = [live EXCEPT ![j] = fresh]
    BY <1>3 DEF Launch, Fresh
  <2>4. live' \in [Jobs -> Run] /\ \A k \in Jobs : live'[k] = IF k = j THEN fresh ELSE live[k]
    BY <2>1, <2>3 DEF SupervisorTypes, Run, Phases
  <2>5. UNCHANGED <<waiters, closer>>
    BY <1>3 DEF Launch
  <2>6. Active' = Active \cup {j}
    BY <2>1, <2>4 DEF Active
  <2>7. /\ IsFiniteSet(Active')
        /\ Cardinality(Active') <= Cardinality(Active) + 1
    <3>1. IsFiniteSet(Active) /\ Cardinality(Active) \in Nat
      BY FS_CardinalityType
    <3>2. IsFiniteSet(Active \cup {j})
      BY <3>1, FS_AddElement
    <3>3. Cardinality(Active \cup {j}) = IF j \in Active THEN Cardinality(Active) ELSE Cardinality(Active) + 1
      BY <3>1, FS_AddElement
    <3> QED BY <2>6, <3>1, <3>2, <3>3
  <2>8. Cardinality(Active) \in Nat /\ Cardinality(Active') \in Nat
    BY <2>7, FS_CardinalityType
  <2>9. Cardinality(Active') <= Concurrency
    BY <2>1, <2>7, <2>8
  <2>10. CloserInv'
    <3>1. Closed => closer.at = "gate"
      BY <1>3 DEF Launch, CloserInv
    <3> QED BY <2>2, <2>5, <3>1 DEF CloserInv, Closed
  <2>11. written' = [written EXCEPT ![j] = "running"]
    BY <1>3 DEF Launch
  <2>12. SupervisorTypes'
    BY <2>1, <2>2, <2>4, <2>5, <2>11 DEF SupervisorTypes
  <2>13. \A k \in Jobs : live'[k].phase = "ending" => live'[k].status \in Ends
    BY <2>4
  <2>14. \A w \in Waiters :
           waiters'[w] \in Jobs => /\ waiters'[w] \in Active'
                                   /\ live'[waiters'[w]].status = "asking" => live'[waiters'[w]].phase = "saving"
    BY <2>4, <2>5, <2>6 DEF SupervisorInv
  <2>15. /\ failures' = failures \ {j}
         /\ lost' = lost \ {j}
    BY <1>3 DEF Launch
  <2>16. \A k \in Jobs : written'[k] \in {"running", "asking"} => k \in Active' \cup lost' \cup failures'
    BY <2>1, <2>6, <2>11, <2>15 DEF SupervisorInv, SupervisorTypes
  <2>17. SupervisorInv'
    BY <2>9, <2>14, <2>16 DEF SupervisorInv
  <2> QED BY <2>2, <2>7, <2>10, <2>12, <2>13, <2>17
<1>4. CASE SaveFails(r)
  <2>1. AtHead(r) /\ Leaves(r, "refused") /\ UNCHANGED <<live, written, failures, waiters, closer, lost>>
    BY <1>4 DEF SaveFails, GateInv
  <2>2. Active' = Active /\ SupervisorInv'
    BY <2>1 DEF SupervisorInv, Active
  <2>3. /\ requests' \in [Calls -> {"new", "queued", "saving", "launched", "refused"}]
        /\ inGate' \in Seq(Calls)
        /\ \A q \in Calls : requests'[q] # "saving"
        /\ GateInv'
    BY <2>1, LeavesKeepsGate
  <2>4. CloserInv'
    BY <2>1, <2>2, <2>3 DEF CloserInv, Closed
  <2> QED BY <2>1, <2>2, <2>3, <2>4 DEF SupervisorTypes
<1> QED BY <1>1, <1>2, <1>3, <1>4

\* close() and a crash.
LEMMA CloseSteps ==
  ASSUME SupervisionInv, CloseSupervisor \/ CloseCancels \/ CloseEnds \/ SupervisorCrash
  PROVE  SupervisionInv'
<1>. USE SupervisorAssumption DEF SupervisionInv
<1>1. CASE CloseSupervisor
  <2>1. UNCHANGED <<requests, inGate, live, written, failures, waiters, lost>>
    BY <1>1 DEF CloseSupervisor
  <2>2. Active' = Active /\ SupervisorInv' /\ GateInv'
    BY <2>1 DEF SupervisorInv, Active, GateInv, AtHead
  <2>3. closer' = [at |-> "gate", last |-> IF inGate = <<>> THEN Nothing ELSE inGate[Len(inGate)], jobs |-> {}]
    BY <1>1 DEF CloseSupervisor
  <2>4. inGate # <<>> => inGate[Len(inGate)] \in Calls /\ requests[inGate[Len(inGate)]] \in {"queued", "saving"}
    <3>1. inGate # <<>> => Len(inGate) \in DOMAIN inGate
      BY EmptySeq, LenProperties DEF SupervisorTypes
    <3> QED BY <3>1 DEF GateInv, SupervisorTypes
  <2>5. (\E r \in Calls : requests[r] = "saving") => inGate # <<>>
    BY DEF GateInv, AtHead
  <2>6. CloserInv'
    BY <2>1, <2>3, <2>4, <2>5 DEF CloserInv, Closed
  <2>7. SupervisorTypes'
    BY <2>1, <2>3, <2>4 DEF SupervisorTypes
  <2> QED BY <2>1, <2>2, <2>6, <2>7
<1>2. CASE CloseCancels
  <2>1. UNCHANGED <<requests, inGate, written, failures, waiters, lost>>
    BY <1>2 DEF CloseCancels
  <2>2. live' \in [Jobs -> Run] /\ \A k \in Jobs : live'[k].phase = live[k].phase /\ live'[k].status = live[k].status
    <3>1. ASSUME NEW k \in Jobs PROVE live[k] \in Run /\ [live[k] EXCEPT !.aborted = TRUE] \in Run
      <4>1. live[k] \in Run
        BY DEF SupervisorTypes
      <4> QED BY <4>1 DEF Run
    <3>2. live' = Aborted(Active)
      BY <1>2 DEF CloseCancels
    <3> QED BY <3>1, <3>2 DEF Aborted, Run
  <2>3. Active' = Active
    BY <2>2 DEF Active
  <2>4. SupervisorInv'
    BY <2>1, <2>2, <2>3 DEF SupervisorInv, Active
  <2>5. GateInv'
    BY <2>1, <2>3 DEF GateInv, AtHead
  <2>6. closer.at = "gate" /\ GatePassed /\ closer' = [closer EXCEPT !.at = "cancelling", !.jobs = Active]
    BY <1>2 DEF CloseCancels
  <2>7. \A r \in Calls : requests[r] # "saving"
    BY <2>6 DEF CloserInv, Closed, GatePassed
  <2>8. closer' \in [at : {"open", "gate", "cancelling", "closed"}, last : Calls \cup {Nothing}, jobs : SUBSET Jobs]
        /\ closer'.at = "cancelling" /\ closer'.jobs = Active
    BY <2>6 DEF SupervisorTypes, Active
  <2>9. CloserInv'
    BY <2>1, <2>3, <2>7, <2>8 DEF CloserInv
  <2> QED BY <2>1, <2>2, <2>3, <2>4, <2>5, <2>8, <2>9 DEF SupervisorTypes
<1>3. CASE CloseEnds
  <2>1. UNCHANGED <<requests, inGate, live, written, failures, waiters, lost>>
    BY <1>3 DEF CloseEnds
  <2>2. Active' = Active /\ SupervisorInv' /\ GateInv'
    BY <2>1 DEF SupervisorInv, Active, GateInv, AtHead
  <2>3. closer.at = "cancelling" /\ closer.jobs \cap Active = {} /\ closer' = [closer EXCEPT !.at = "closed"]
    BY <1>3 DEF CloseEnds
  <2>4. closer' \in [at : {"open", "gate", "cancelling", "closed"}, last : Calls \cup {Nothing}, jobs : SUBSET Jobs]
        /\ closer'.at = "closed"
    BY <2>3 DEF SupervisorTypes
  <2>5. CloserInv'
    BY <2>1, <2>2, <2>3, <2>4 DEF CloserInv, Closed
  <2> QED BY <2>1, <2>2, <2>4, <2>5 DEF SupervisorTypes
<1>4. CASE SupervisorCrash
  <2>1. PICK halfway \in SUBSET {JobOf(r) : r \in {q \in Calls : requests[q] = "saving"}} :
          /\ lost' = Active \cup failures \cup halfway
          /\ written' = [k \in Jobs |-> IF k \in halfway THEN "running" ELSE written[k]]
    BY <1>4 DEF SupervisorCrash
  <2>2. lost = {} /\ live' = [k \in Jobs |-> Gone] /\ closer' = NotClosed /\ inGate' = <<>>
    BY <1>4 DEF SupervisorCrash
  <2>3. /\ requests' = [r \in Calls |-> IF requests[r] = "new" THEN "new" ELSE "refused"]
        /\ waiters' = [w \in Waiters |-> IF waiters[w] = Nothing THEN Nothing ELSE "returned"]
    BY <1>4 DEF SupervisorCrash
  <2>4. Active' = {}
    BY <2>2 DEF Active, Gone, Fresh
  <2>5. IsFiniteSet(Active') /\ Cardinality(Active') = 0
    BY <2>4, FS_EmptySet
  <2>6. written' \in [Jobs -> {"none", "running", "asking"} \cup Ends]
    BY <2>1 DEF SupervisorTypes
  <2>7. live' \in [Jobs -> Run]
    BY <2>2 DEF Run, Phases, Gone, Fresh
  <2>8. SupervisorTypes'
    BY <2>2, <2>3, <2>6, <2>7 DEF SupervisorTypes, NotClosed
  <2>9. GateInv' /\ CloserInv'
    BY <2>2, <2>3, <2>4 DEF GateInv, CloserInv, NotClosed, Closed
  <2>10. \A k \in Jobs : written'[k] \in {"running", "asking"} => k \in lost'
    BY <2>1, <2>2 DEF SupervisorInv
  <2>11. SupervisorInv'
    BY <2>3, <2>5, <2>10 DEF SupervisorInv
  <2>12. \A k \in Jobs : live'[k].phase # "ending"
    BY <2>2 DEF Gone, Fresh
  <2> QED BY <2>5, <2>8, <2>9, <2>11, <2>12
<1> QED BY <1>1, <1>2, <1>3, <1>4

\* The invariant of the supervisor, for any calls, jobs, waiters and limit.
THEOREM SupervisionInvariant == SupervisorSpec => []SupervisionInv
<1>1. SupervisionInv /\ UNCHANGED supervisorVars => SupervisionInv'
  BY DEF supervisorVars, SupervisionInv, SupervisorTypes, Active, GateInv, AtHead, CloserInv, Closed, SupervisorInv
<1>2. SupervisionInv /\ [SupervisorNext]_supervisorVars => SupervisionInv'
  BY <1>1, RequestSteps, RunSteps, CloseSteps DEF SupervisorNext
<1> QED BY <1>2, SupervisionInit, PTL DEF SupervisorSpec

\* There are never more runs than allowed, who sleeps on a run is woken, and the storage
\* calls a run unfinished only while it is, or was lost.
THEOREM SupervisorKeepsItsLimit == SupervisorSpec => []SupervisorInv
<1>1. SupervisionInv => SupervisorInv
  BY DEF SupervisionInv
<1> QED BY <1>1, SupervisionInvariant, PTL

\* When close() has returned nothing runs, and nothing is about to.
THEOREM ClosedSupervisorIsQuiet == SupervisorSpec => []ClosedIsQuiet
<1>1. SupervisionInv => ClosedIsQuiet
  BY DEF SupervisionInv, CloserInv, Closed, ClosedIsQuiet
<1> QED BY <1>1, SupervisionInvariant, PTL

-----------------------------------------------------------------------------
(* RemoteNodePairing *)

Client == [socket : Links \cup {Nil}, client : Nat, key : Nat, fresh : Nat, code : Nat,
           state : {"idle", "connecting", "ready", "stopped"}]

PairingTypes ==
  /\ device \in [Devices -> Client]
  /\ hand \in [Links -> {"none", "hello", "authenticate", "pair", "pairing", "ready", "closed"}]
  /\ carrier \in [Links -> {"none", "open", "closing", "gone"}]
  /\ saver \in [Links -> {"none", "saving", "saved"}]
  /\ who = [n \in Links |-> who[n]]
  /\ toNode = [n \in Links |-> toNode[n]]
  /\ toDevice = [n \in Links |-> toDevice[n]]
  /\ power \in {"off", "reading", "on"}
  /\ credential = [client |-> credential.client, key |-> credential.key]
  /\ loaded = [client |-> loaded.client, key |-> loaded.key]
  /\ onDisk = [client |-> onDisk.client, key |-> onDisk.key]
  /\ readyLink \in Links \cup {Nil}
  /\ opened \in Nat
  /\ clearing \in BOOLEAN /\ entangled \in BOOLEAN /\ unread \in BOOLEAN
  /\ revived \subseteq Links

\* One connection is ready at most, and while the
\* node is not on none is but one that was closed before.
LinksInv ==
  /\ \A n \in Links : hand[n] = "none" => toDevice[n] = <<>>
  /\ \A n \in Links : hand[n] = "ready" <=> readyLink = n
  /\ \A n \in Links : carrier[n] = "gone" => hand[n] = "closed" \/ n \in revived
  /\ \A n \in Links : saver[n] # "none" => hand[n] \in {"pairing", "closed"}
  /\ power # "on" => \A n \in Links : hand[n] \in {"none", "closed"} \/ n \in revived

\* What memory and disk hold while nothing overlaps: they agree but between the two ends
\* of a save, or memory is empty because the file could not be read.
DiskInv ==
  ~entangled =>
    /\ \A n, m \in Links : saver[n] # "none" /\ saver[m] # "none" => n = m
    /\ \A n \in Links : saver[n] # "none" => ~clearing /\ power # "reading"
    /\ clearing => power # "reading" /\ credential = NoCredential
    /\ power = "reading" => loaded = onDisk \/ (unread /\ loaded = NoCredential)
    /\ power = "on" /\ ~clearing /\ (\A n \in Links : saver[n] # "saved") =>
         credential = onDisk \/ (unread /\ credential = NoCredential)
    /\ \A n \in Links : saver[n] = "saved" => onDisk = [client |-> who[n], key |-> n]

\* A queue with one frame in it.
Only(queue, type) == queue # <<>> /\ Tail(queue) = <<>> /\ Head(queue).type = type

\* What a device and the node have told each other on a connection, by its phase; after
\* the last word of the node the device has, or is about to have, the key of the credential.
Exchange(d, n) ==
  /\ hand[n] = "hello" =>
       /\ device[d].state # "ready" /\ toDevice[n] = <<>>
       /\ toNode[n] = <<>> \/ (Only(toNode[n], "hello") /\ Head(toNode[n]).arg = device[d].client)
  /\ hand[n] \in {"authenticate", "pair", "pairing", "ready"} => who[n] = device[d].client
  /\ hand[n] \in {"authenticate", "pair"} =>
       /\ device[d].state # "ready"
       /\ \/ toNode[n] = <<>> /\ Only(toDevice[n], "challenge")
          \/ toDevice[n] = <<>> /\ toNode[n] = <<>>
          \/ toDevice[n] = <<>> /\ Only(toNode[n], "authenticate") /\ Head(toNode[n]).arg = device[d].key
          \/ toDevice[n] = <<>> /\ Only(toNode[n], "pair") /\ device[d].fresh = n
  /\ hand[n] = "pairing" =>
       device[d].state # "ready" /\ toNode[n] = <<>> /\ toDevice[n] = <<>> /\ device[d].fresh = n
  /\ hand[n] = "ready" =>
       /\ toNode[n] = <<>>
       /\ \/ toDevice[n] = <<>> /\ (device[d].state = "ready" => credential.key = device[d].key)
          \/ Only(toDevice[n], "ready") /\ device[d].state # "ready" /\ credential.key = device[d].key
          \/ /\ toDevice[n] # <<>> /\ Head(toDevice[n]).type = "paired" /\ Only(Tail(toDevice[n]), "ready")
             /\ device[d].state # "ready" /\ device[d].fresh = n /\ credential.key = n

\* A connection has one device, and the device that pairs or signs on it is the one the
\* node then knows.
DevicesInv ==
  /\ \A d \in Devices : device[d].socket # Nil => hand[device[d].socket] # "none"
  /\ \A d, e \in Devices : device[d].socket = device[e].socket /\ device[d].socket # Nil => d = e
  /\ \A d \in Devices : device[d].socket # Nil /\ device[d].socket \notin revived => Exchange(d, device[d].socket)
  /\ readyLink # Nil /\ readyLink \notin revived => who[readyLink] = credential.client

\* The inductive invariant of the pairing.
PairedInv == PairingTypes /\ LinksInv /\ DiskInv /\ DevicesInv

\* The invariant holds at the beginning.
LEMMA PairedInit == PairingInit => PairedInv
<1>. SUFFICES ASSUME PairingInit PROVE PairedInv
  OBVIOUS
<1>. USE PairingAssumption DEF PairingInit, Links, Nil
<1>1. PairingTypes
  BY DEF PairingTypes, Client, NewDevice, NoCredential
<1>2. LinksInv
  BY DEF LinksInv
<1>3. DiskInv
  BY DEF DiskInv, NoCredential
<1>4. DevicesInv
  BY DEF DevicesInv, NewDevice
<1> QED BY <1>1, <1>2, <1>3, <1>4 DEF PairedInv

\* Queues of one frame or two.
LEMMA OneFrame ==
  ASSUME NEW a
  PROVE  <<a>> # <<>> /\ Head(<<a>>) = a /\ Tail(<<a>>) = <<>> /\ <<>> \o <<a>> = <<a>> /\ Append(<<>>, a) = <<a>>
<1>1. <<a>> \in Seq({a}) /\ <<>> \in Seq({a}) /\ Len(<<a>>) = 1
  OBVIOUS
<1>2. <<>> \o <<a>> = <<a>>
  BY <1>1, ConcatEmptySeq
<1> QED BY <1>1, <1>2

LEMMA TwoFrames ==
  ASSUME NEW S, NEW a \in S, NEW b \in S
  PROVE  /\ <<>> \o Append(<<a>>, b) = <<a, b>>
         /\ <<a, b>> # <<>> /\ Head(<<a, b>>) = a /\ Tail(<<a, b>>) = <<b>>
<1>. DEFINE s == <<a, b>>
            t == <<b>>
            u == Append(<<a>>, b)
<1>1. s \in Seq(S)
  OBVIOUS
<1>2. Len(s) = 2
  OBVIOUS
<1>3. s[1] = a /\ s[2] = b
  OBVIOUS
<1>4. t \in Seq(S) /\ Len(t) = 1
  OBVIOUS
<1>5. t[1] = b
  OBVIOUS
<1>6. u \in Seq(S) /\ Len(u) = 2 /\ u[1] = a /\ u[2] = b
  <2>1. <<a>> \in Seq(S) /\ Len(<<a>>) = 1
    OBVIOUS
  <2>2. <<a>>[1] = a
    OBVIOUS
  <2> QED BY <2>1, <2>2, AppendProperties
<1>7. s # <<>>
  OBVIOUS
<1>8. Head(s) = a
  OBVIOUS
<1>. HIDE DEF s, t, u
<1>9. Tail(s) = t
  <2>. DEFINE v == Tail(s)
  <2>1. v \in Seq(S) /\ Len(v) = Len(s) - 1 /\ \A i \in 1..Len(v) : v[i] = s[i + 1]
    BY <1>1, <1>7, HeadTailProperties
  <2>. HIDE DEF v
  <2>2. Len(v) = 1 /\ Len(v) = Len(t) /\ \A i \in 1..Len(v) : v[i] = t[i]
    BY <1>2, <1>3, <1>4, <1>5, <2>1
  <2>3. v = t
    BY <1>4, <2>1, <2>2, SeqEqual
  <2> QED BY <2>3 DEF v
<1>10. u = s
  <2>1. Len(u) = Len(s) /\ \A i \in 1..Len(u) : u[i] = s[i]
    BY <1>2, <1>3, <1>6
  <2> QED BY <1>1, <1>6, <2>1, SeqEqual
<1>11. <<>> \o s = s
  BY <1>1, ConcatEmptySeq
<1> QED BY <1>7, <1>8, <1>9, <1>10, <1>11 DEF s, t, u

\* A device that goes to another state of a client keeps the type.
LEMMA ClientMoves ==
  ASSUME PairingTypes, NEW d \in Devices, NEW c \in Client, device' = [device EXCEPT ![d] = c]
  PROVE  device' \in [Devices -> Client]
BY DEF PairingTypes

\* Every step keeps the types.
LEMMA PairingTypesKept == PairedInv /\ [PairingNext]_pairingVars => PairingTypes'
<1>. SUFFICES ASSUME PairedInv, [PairingNext]_pairingVars PROVE PairingTypes'
  OBVIOUS
<1>. USE PairingAssumption DEF PairedInv, PairingTypes, Links, Nil, linkState, nodeState, gateState, history, NoCredential
<1>1. ASSUME NEW d \in Devices, Dial(d) PROVE PairingTypes'
  <2>1. PICK n \in Links :
          LET id == IF device[d].client = Nil THEN n ELSE device[d].client
          IN /\ \E code \in IF device[d].state = "idle" THEN 0..opened ELSE {device[d].code} :
                 device' = [device EXCEPT ![d] = [@ EXCEPT !.socket = n, !.client = id, !.code = code,
                                                          !.state = "connecting"]]
             /\ toNode' = [toNode EXCEPT ![n] = <<Frame("hello", id)>>]
             /\ hand' = [hand EXCEPT ![n] = "hello"]
             /\ carrier' = [carrier EXCEPT ![n] = "open"]
    BY <1>1 DEF Dial
  <2>2. device[d] \in Client /\ device[d].client \in Nat /\ device[d].code \in Nat
    BY DEF Client
  <2>. DEFINE id == IF device[d].client = Nil THEN n ELSE device[d].client
  <2>3. id \in Nat
    BY <2>2
  <2>. HIDE DEF id
  <2>4. PICK code \in IF device[d].state = "idle" THEN 0..opened ELSE {device[d].code} :
          device' = [device EXCEPT ![d] = [@ EXCEPT !.socket = n, !.client = id, !.code = code,
                                                   !.state = "connecting"]]
    BY <2>1 DEF id
  <2>5. code \in Nat
    BY <2>2
  <2>6. [device[d] EXCEPT !.socket = n, !.client = id, !.code = code, !.state = "connecting"] \in Client
    BY <2>2, <2>3, <2>5 DEF Client
  <2>7. device' \in [Devices -> Client]
    BY <2>4, <2>6, ClientMoves
  <2>8. UNCHANGED <<who, toDevice, saver, nodeState, readyLink, gateState, upsets, history>>
    BY <1>1 DEF Dial
  <2>9. toNode' = [m \in Links |-> toNode'[m]]
    BY <2>1
  <2> QED BY <2>1, <2>7, <2>8, <2>9
<1>2. ASSUME NEW d \in Devices, HandleChallenge(d) PROVE PairingTypes'
  <2>1. device[d] \in Client /\ device[d].socket \in Links
    BY <1>2 DEF HandleChallenge, Heard, Client
  <2>. DEFINE n == device[d].socket
             paused == [device[d] EXCEPT !.fresh = n]
             ended == [device[d] EXCEPT !.socket = Nil, !.state = "stopped"]
  <2>2. paused \in Client /\ ended \in Client
    <3>1. n \in Nat
      BY <2>1
    <3>. HIDE DEF n
    <3> QED BY <2>1, <3>1 DEF Client
  <2>3. \/ device' = [device EXCEPT ![d] = device[d]]
        \/ device' = [device EXCEPT ![d] = paused]
        \/ device' = [device EXCEPT ![d] = ended]
    BY <1>2 DEF HandleChallenge
  <2>. HIDE DEF paused, ended
  <2>4. device' \in [Devices -> Client]
    BY <2>1, <2>2, <2>3, ClientMoves
  <2>5. /\ UNCHANGED <<who, hand, saver, nodeState, readyLink, gateState, upsets, history>>
        /\ toDevice' = [toDevice EXCEPT ![n] = Tail(@)]
    BY <1>2 DEF HandleChallenge
  <2>6. carrier' \in [Links -> {"none", "open", "closing", "gone"}]
    <3>1. carrier' = carrier \/ carrier' = [carrier EXCEPT ![n] = IF @ = "open" THEN "closing" ELSE @]
      BY <1>2 DEF HandleChallenge
    <3>2. n \in Links /\ carrier \in [Links -> {"none", "open", "closing", "gone"}]
      BY <2>1
    <3>. HIDE DEF n
    <3> QED BY ONLY <3>1, <3>2
  <2>7. toNode' = [m \in Links |-> toNode'[m]]
    BY <1>2, <2>1 DEF HandleChallenge, Sent
  <2> QED BY <2>1, <2>4, <2>5, <2>6, <2>7
<1>3. ASSUME NEW d \in Devices, HandlePaired(d) PROVE PairingTypes'
  <2>1. device[d] \in Client
    OBVIOUS
  <2>2. device' = device \/ \E c \in Client : device' = [device EXCEPT ![d] = c]
    BY <1>3, <2>1 DEF HandlePaired, Heard, Client
  <2>3. device' \in [Devices -> Client]
    BY <2>2, ClientMoves
  <2> QED BY <1>3, <2>3 DEF HandlePaired, Heard
<1>4. ASSUME NEW d \in Devices, HandleReady(d) PROVE PairingTypes'
  <2>1. device[d] \in Client
    OBVIOUS
  <2>2. device' = device \/ \E c \in Client : device' = [device EXCEPT ![d] = c]
    BY <1>4, <2>1 DEF HandleReady, Heard, Client
  <2>3. device' \in [Devices -> Client]
    BY <2>2, ClientMoves
  <2> QED BY <1>4, <2>3 DEF HandleReady, Heard
<1>5. ASSUME NEW d \in Devices, HandleClose(d) PROVE PairingTypes'
  <2>1. device[d] \in Client /\ device[d].key \in Nat
    BY DEF Client
  <2>. DEFINE n == device[d].socket
             code == IF toDevice[n] = <<>> THEN "transient" ELSE Word(d)
             key == IF code = "unauthorized" THEN Nil ELSE device[d].key
             state == IF code = "transient" THEN "connecting" ELSE "stopped"
             closed == [device[d] EXCEPT !.socket = Nil, !.key = key, !.state = state]
  <2>2. device' = [device EXCEPT ![d] = closed]
    BY <1>5, Zenon DEF HandleClose
  <2>3. key \in Nat /\ state \in {"connecting", "stopped"}
    BY <2>1
  <2>. HIDE DEF key, state
  <2>4. closed \in Client
    BY <2>1, <2>3 DEF Client
  <2>. HIDE DEF closed
  <2>5. device' \in [Devices -> Client]
    BY <2>2, <2>4, ClientMoves
  <2> QED BY <1>5, <2>5 DEF HandleClose
<1>6. ASSUME NEW d \in Devices, RenewClient(d) PROVE PairingTypes'
  <2>1. device[d] \in Client /\ device[d].key \in Nat /\ device[d].client \in Nat
    BY DEF Client
  <2>2. PICK kept \in {device[d].key, Nil} :
          device' = [device EXCEPT ![d] = [NewDevice EXCEPT !.key = kept,
                                             !.client = IF kept = Nil THEN Nil ELSE device[d].client]]
    BY <1>6 DEF RenewClient
  <2>. DEFINE id == IF kept = Nil THEN Nil ELSE device[d].client
             renewed == [NewDevice EXCEPT !.key = kept, !.client = id]
  <2>3. kept \in Nat /\ id \in Nat
    BY <2>1
  <2>. HIDE DEF id
  <2>4. renewed \in Client
    BY <2>3 DEF Client, NewDevice
  <2>5. device' \in [Devices -> Client]
    <3>1. device' = [device EXCEPT ![d] = renewed]
      BY <2>2 DEF id
    <3>. HIDE DEF renewed
    <3> QED BY <2>4, <3>1, ClientMoves
  <2> QED BY <1>6, <2>5 DEF RenewClient
<1>7. ASSUME NEW n \in Links, HandleHello(n) PROVE PairingTypes'
  BY <1>7 DEF HandleHello, Reads, Argument, Sent
<1>8. ASSUME NEW n \in Links, AcceptPair(n) PROVE PairingTypes'
  BY <1>8 DEF AcceptPair, Reads
<1>9. ASSUME NEW n \in Links, RefusePair(n) PROVE PairingTypes'
  BY <1>9 DEF RefusePair, Reads, Closing, Sent, CountRefusal
<1>10. ASSUME NEW n \in Links, HandleAuthenticate(n) PROVE PairingTypes'
  <2>1. UNCHANGED <<device, who, saver, nodeState, gateState, upsets, history>>
    BY <1>10 DEF HandleAuthenticate
  <2>2. toNode' = [m \in Links |-> toNode'[m]]
    BY <1>10 DEF HandleAuthenticate
  <2>3. CASE hand[n] = "ready"
    BY <1>10, <2>1, <2>2, <2>3 DEF HandleAuthenticate
  <2>4. CASE hand[n] # "ready"
    <3>1. Granting(n, <<>>)
      BY <1>10, <2>4 DEF HandleAuthenticate
    <3> QED BY <2>1, <2>2, <3>1 DEF Granting
  <2> QED BY <2>3, <2>4
<1>11. ASSUME NEW n \in Links, RefuseAuthenticate(n) PROVE PairingTypes'
  BY <1>11 DEF RefuseAuthenticate, Reads, Closing, Sent
<1>12. ASSUME NEW n \in Links, CredentialSaved(n) PROVE PairingTypes'
  BY <1>12 DEF CredentialSaved
<1>13. ASSUME NEW n \in Links, CredentialSaveFails(n) PROVE PairingTypes'
  BY <1>13 DEF CredentialSaveFails, Upset, Closing, Sent
<1>14. ASSUME NEW n \in Links, FinishPair(n) PROVE PairingTypes'
  BY <1>14 DEF FinishPair, Granting
<1>15. ASSUME NEW n \in Links, SocketCloses(n) PROVE PairingTypes'
  BY <1>15 DEF SocketCloses
<1>16. ASSUME NEW n \in Links, BreakLink(n) PROVE PairingTypes'
  BY <1>16 DEF BreakLink, Upset
<1>17. ASSUME StartPairing PROVE PairingTypes'
  BY <1>17 DEF StartPairing
<1>18. ASSUME WindowCloses PROVE PairingTypes'
  BY <1>18 DEF WindowCloses
<1>19. ASSUME LockoutEnds PROVE PairingTypes'
  BY <1>19 DEF LockoutEnds
<1>20. ASSUME Unpair PROVE PairingTypes'
  <2>1. credential' = NoCredential /\ clearing' = TRUE /\ entangled' \in BOOLEAN
    BY <1>20 DEF Unpair
  <2>2. UNCHANGED <<device, who, saver, power, loaded, onDisk, gateState, revived, unread>>
    BY <1>20 DEF Unpair
  <2>3. CASE readyLink = Nil
    BY <1>20, <2>1, <2>2, <2>3 DEF Unpair
  <2>4. CASE readyLink # Nil
    <3>1. Closing(readyLink, "unauthorized")
      BY <1>20, <2>4 DEF Unpair
    <3> QED BY <2>1, <2>2, <2>4, <3>1 DEF Closing, Sent
  <2> QED BY <2>3, <2>4
<1>21. ASSUME ClearLands PROVE PairingTypes'
  BY <1>21 DEF ClearLands
<1>22. ASSUME ClearFails PROVE PairingTypes'
  BY <1>22 DEF ClearFails
<1>23. ASSUME StopNode PROVE PairingTypes'
  BY <1>23 DEF StopNode, Upset, AllClosed
<1>24. ASSUME StartReads PROVE PairingTypes'
  BY <1>24 DEF StartReads
<1>25. ASSUME StartListens PROVE PairingTypes'
  BY <1>25 DEF StartListens
<1>26. ASSUME NodeCrash PROVE PairingTypes'
  BY <1>26 DEF NodeCrash, Upset, AllClosed
<1>27. ASSUME UNCHANGED pairingVars PROVE PairingTypes'
  BY <1>27 DEF pairingVars
<1> QED BY <1>1, <1>2, <1>3, <1>4, <1>5, <1>6, <1>7, <1>8, <1>9, <1>10, <1>11, <1>12, <1>13, <1>14, <1>15, <1>16, <1>17, <1>18, <1>19, <1>20, <1>21, <1>22, <1>23, <1>24, <1>25, <1>26, <1>27 DEF PairingNext

\* What closing a connection does to it, and that it leaves the others alone.
LEMMA ClosingCloses ==
  ASSUME PairingTypes, NEW n \in Links, NEW code, Closing(n, code)
  PROVE  /\ hand'[n] = "closed" /\ toNode'[n] = <<>>
         /\ \A m \in Links \ {n} : /\ hand'[m] = hand[m]
                                  /\ toNode'[m] = toNode[m] /\ toDevice'[m] = toDevice[m]
         /\ \A m \in Links : carrier'[m] = "gone" <=> carrier[m] = "gone"
         /\ readyLink' = IF readyLink = n THEN Nil ELSE readyLink
BY DEF Closing, Sent, PairingTypes

\* What granting a connection does to it, and that of the others it disturbs the one it replaces.
LEMMA GrantingGrants ==
  ASSUME PairingTypes, NEW n \in Links, NEW frames, Granting(n, frames)
  PROVE  /\ hand'[n] = "ready" /\ readyLink' = n
         /\ toDevice'[n] = IF carrier[n] = "open" THEN toDevice[n] \o Append(frames, Frame("ready", Nil))
                                                ELSE toDevice[n]
         /\ \A m \in Links \ {n} : m # readyLink => hand'[m] = hand[m] /\ toDevice'[m] = toDevice[m]
         /\ \A m \in Links \ {n} : m = readyLink => hand'[m] = "closed"
         /\ \A m \in Links : carrier'[m] = "gone" <=> carrier[m] = "gone"
<1>. USE DEF PairingTypes, Links, Nil
<1>1. hand'[n] = "ready" /\ readyLink' = n
  BY DEF Granting
<1>2. toDevice'[n] = IF carrier[n] = "open" THEN toDevice[n] \o Append(frames, Frame("ready", Nil))
                                           ELSE toDevice[n]
  BY DEF Granting
<1>3. \A m \in Links \ {n} : m # readyLink => hand'[m] = hand[m] /\ toDevice'[m] = toDevice[m]
  BY DEF Granting
<1>4. \A m \in Links \ {n} : m = readyLink => hand'[m] = "closed"
  BY DEF Granting
<1>5. \A m \in Links : carrier'[m] = "gone" <=> carrier[m] = "gone"
  BY DEF Granting
<1> QED BY <1>1, <1>2, <1>3, <1>4, <1>5

\* A connection is closed, with its pairing or while that goes on.
LEMMA ClosingKeepsLinks ==
  ASSUME PairedInv, NEW n \in Links, NEW code, Closing(n, code),
         \A m \in Links : saver'[m] = saver[m] \/ saver'[m] = "none",
         UNCHANGED <<power, revived>>
  PROVE  LinksInv'
<1>. USE ClosingCloses DEF PairedInv, PairingTypes, Nil, Links, LinksInv
<1>1. \A m \in Links : hand'[m] = "none" => toDevice'[m] = <<>>
  OBVIOUS
<1>2. \A m \in Links : hand'[m] = "ready" <=> readyLink' = m
  OBVIOUS
<1>3. \A m \in Links : carrier'[m] = "gone" => hand'[m] = "closed" \/ m \in revived'
  OBVIOUS
<1>4. \A m \in Links : saver'[m] # "none" => hand'[m] \in {"pairing", "closed"}
  OBVIOUS
<1>5. power' # "on" => \A m \in Links : hand'[m] \in {"none", "closed"} \/ m \in revived'
  OBVIOUS
<1> QED BY <1>1, <1>2, <1>3, <1>4, <1>5 DEF LinksInv

\* A connection is made ready: one that was closed counts as revived.
LEMMA GrantingKeepsLinks ==
  ASSUME PairedInv, NEW n \in Links, NEW frames, Granting(n, frames),
         hand[n] # "none", saver'[n] = "none", \A m \in Links \ {n} : saver'[m] = saver[m],
         power' = power, revived' = IF hand[n] = "closed" THEN revived \cup {n} ELSE revived
  PROVE  LinksInv'
<1>. USE GrantingGrants DEF PairedInv, PairingTypes, Nil, Links, LinksInv
<1>1. \A m \in Links : hand'[m] = "none" => toDevice'[m] = <<>>
  OBVIOUS
<1>2. \A m \in Links : hand'[m] = "ready" <=> readyLink' = m
  OBVIOUS
<1>3. \A m \in Links : carrier'[m] = "gone" => hand'[m] = "closed" \/ m \in revived'
  OBVIOUS
<1>4. \A m \in Links : saver'[m] # "none" => hand'[m] \in {"pairing", "closed"}
  OBVIOUS
<1>5. power' # "on" => \A m \in Links : hand'[m] \in {"none", "closed"} \/ m \in revived'
  OBVIOUS
<1> QED BY <1>1, <1>2, <1>3, <1>4, <1>5 DEF LinksInv

\* Every step keeps what is said of the connections.
LEMMA LinksKept == PairedInv /\ [PairingNext]_pairingVars => LinksInv'
<1>. SUFFICES ASSUME PairedInv, [PairingNext]_pairingVars PROVE LinksInv'
  OBVIOUS
<1>. USE DEF PairedInv, PairingTypes, LinksInv, linkState, nodeState, gateState, history
<1>1. ASSUME NEW d \in Devices, Dial(d) PROVE LinksInv'
  BY <1>1 DEF Dial, Links, Nil
<1>2. ASSUME NEW d \in Devices, HandleChallenge(d) PROVE LinksInv'
  <2>. DEFINE n == device[d].socket
  <2>1. /\ UNCHANGED <<hand, saver, power, readyLink, revived>>
        /\ toDevice' = [toDevice EXCEPT ![n] = Tail(@)] /\ toDevice[n] # <<>>
    BY <1>2 DEF HandleChallenge, Heard
  <2>2. carrier' = carrier \/ carrier' = [carrier EXCEPT ![n] = IF @ = "open" THEN "closing" ELSE @]
    BY <1>2 DEF HandleChallenge
  <2>. HIDE DEF n
  <2> QED BY <2>1, <2>2
<1>3. ASSUME NEW d \in Devices, HandlePaired(d) PROVE LinksInv'
  BY <1>3 DEF HandlePaired, Heard
<1>4. ASSUME NEW d \in Devices, HandleReady(d) PROVE LinksInv'
  BY <1>4 DEF HandleReady, Heard
<1>5. ASSUME NEW d \in Devices, HandleClose(d) PROVE LinksInv'
  BY <1>5 DEF HandleClose, Heard, Word
<1>6. ASSUME NEW d \in Devices, RenewClient(d) PROVE LinksInv'
  BY <1>6 DEF RenewClient, Upset, NewDevice
<1>7. ASSUME NEW n \in Links, HandleHello(n) PROVE LinksInv'
  BY <1>7 DEF HandleHello, Reads, Argument, Sent
<1>8. ASSUME NEW n \in Links, AcceptPair(n) PROVE LinksInv'
  BY <1>8 DEF AcceptPair, Reads
<1>9. ASSUME NEW n \in Links, RefusePair(n) PROVE LinksInv'
  <2>1. Closing(n, "unauthorized") /\ UNCHANGED <<saver, power, revived>> 
    BY <1>9 DEF RefusePair, Reads
  <2> QED BY <2>1, ClosingKeepsLinks
<1>10. ASSUME NEW n \in Links, HandleAuthenticate(n) PROVE LinksInv'
  <2>1. UNCHANGED <<saver, power, revived>> /\ hand[n] \in {"authenticate", "ready"}
    BY <1>10 DEF HandleAuthenticate, Verified
  <2>2. CASE hand[n] = "ready"
    BY <1>10, <2>1, <2>2 DEF HandleAuthenticate
  <2>3. CASE hand[n] = "authenticate"
    <3>1. Granting(n, <<>>)
      BY <1>10, <2>3 DEF HandleAuthenticate
    <3>2. saver'[n] = "none"
      BY <2>1, <2>3
    <3> QED BY <2>1, <2>3, <3>1, <3>2, GrantingKeepsLinks
  <2> QED BY <2>1, <2>2, <2>3
<1>11. ASSUME NEW n \in Links, RefuseAuthenticate(n) PROVE LinksInv'
  <2>1. Closing(n, "unauthorized") /\ UNCHANGED <<saver, power, revived>> 
    BY <1>11 DEF RefuseAuthenticate, Reads
  <2> QED BY <2>1, ClosingKeepsLinks
<1>12. ASSUME NEW n \in Links, CredentialSaved(n) PROVE LinksInv'
  BY <1>12 DEF CredentialSaved
<1>13. ASSUME NEW n \in Links, CredentialSaveFails(n) PROVE LinksInv'
  <2>1. Closing(n, "transient") /\ UNCHANGED <<power, revived>>
    BY <1>13 DEF CredentialSaveFails
  <2>2. \A m \in Links : saver'[m] = saver[m] \/ saver'[m] = "none"
    BY <1>13 DEF CredentialSaveFails
  <2> QED BY <2>1, <2>2, ClosingKeepsLinks
<1>14. ASSUME NEW n \in Links, FinishPair(n) PROVE LinksInv'
  <2>1. /\ Granting(n, <<Frame("paired", Nil)>>) /\ hand[n] # "none"
        /\ power' = power /\ revived' = IF hand[n] = "closed" THEN revived \cup {n} ELSE revived
    BY <1>14 DEF FinishPair
  <2>2. saver'[n] = "none" /\ \A m \in Links \ {n} : saver'[m] = saver[m]
    BY <1>14 DEF FinishPair
  <2> QED BY <2>1, <2>2, GrantingKeepsLinks
<1>15. ASSUME NEW n \in Links, SocketCloses(n) PROVE LinksInv'
  BY <1>15 DEF SocketCloses, Links, Nil
<1>16. ASSUME NEW n \in Links, BreakLink(n) PROVE LinksInv'
  BY <1>16 DEF BreakLink, Upset
<1>17. ASSUME StartPairing PROVE LinksInv'
  BY <1>17 DEF StartPairing
<1>18. ASSUME WindowCloses PROVE LinksInv'
  BY <1>18 DEF WindowCloses
<1>19. ASSUME LockoutEnds PROVE LinksInv'
  BY <1>19 DEF LockoutEnds
<1>20. ASSUME Unpair PROVE LinksInv'
  <2>1. UNCHANGED <<saver, power, revived>>
    BY <1>20 DEF Unpair
  <2>2. CASE readyLink = Nil
    BY <1>20, <2>1, <2>2 DEF Unpair
  <2>3. CASE readyLink # Nil
    <3>1. Closing(readyLink, "unauthorized")
      BY <1>20, <2>3 DEF Unpair
    <3>2. readyLink \in Links
      BY <2>3
    <3> QED BY <2>1, <3>1, <3>2, ClosingKeepsLinks
  <2> QED BY <2>2, <2>3
<1>21. ASSUME ClearLands PROVE LinksInv'
  BY <1>21 DEF ClearLands
<1>22. ASSUME ClearFails PROVE LinksInv'
  BY <1>22 DEF ClearFails
<1>23. ASSUME StopNode PROVE LinksInv'
  <2>1. /\ hand' = [n \in Links |-> IF hand[n] = "none" THEN "none" ELSE "closed"]
        /\ carrier' = [n \in Links |-> IF carrier[n] = "open" THEN "closing" ELSE carrier[n]]
        /\ toDevice' = [n \in Links |-> IF carrier[n] = "open" THEN <<>> ELSE toDevice[n]]
        /\ readyLink' = Nil /\ saver' = saver /\ revived' = revived /\ power' = "off"
    BY <1>23 DEF StopNode, AllClosed
  <2>2. \A n \in Links : n # Nil
    BY DEF Nil, Links
  <2>3. LinksInv
    OBVIOUS
  <2> QED BY ONLY <2>1, <2>2, <2>3 DEF LinksInv
<1>24. ASSUME StartReads PROVE LinksInv'
  BY <1>24 DEF StartReads
<1>25. ASSUME StartListens PROVE LinksInv'
  BY <1>25 DEF StartListens
<1>26. ASSUME NodeCrash PROVE LinksInv'
  BY <1>26 DEF NodeCrash, Upset, AllClosed, Nil
<1>27. ASSUME UNCHANGED pairingVars PROVE LinksInv'
  BY <1>27 DEF pairingVars
<1> QED BY <1>1, <1>2, <1>3, <1>4, <1>5, <1>6, <1>7, <1>8, <1>9, <1>10, <1>11, <1>12, <1>13, <1>14, <1>15, <1>16, <1>17, <1>18, <1>19, <1>20, <1>21, <1>22, <1>23, <1>24, <1>25, <1>26, <1>27 DEF PairingNext

\* Every step keeps what is said of memory and disk.
LEMMA DiskKept == PairedInv /\ [PairingNext]_pairingVars => DiskInv'
<1>. SUFFICES ASSUME PairedInv, [PairingNext]_pairingVars PROVE DiskInv'
  OBVIOUS
<1>. USE DEF PairedInv, PairingTypes, DiskInv, linkState, nodeState, gateState, history, NoCredential
<1>1. ASSUME NEW d \in Devices, Dial(d) PROVE DiskInv'
  BY <1>1 DEF Dial
<1>2. ASSUME NEW d \in Devices, HandleChallenge(d) PROVE DiskInv'
  BY <1>2 DEF HandleChallenge
<1>3. ASSUME NEW d \in Devices, HandlePaired(d) PROVE DiskInv'
  BY <1>3 DEF HandlePaired
<1>4. ASSUME NEW d \in Devices, HandleReady(d) PROVE DiskInv'
  BY <1>4 DEF HandleReady
<1>5. ASSUME NEW d \in Devices, HandleClose(d) PROVE DiskInv'
  BY <1>5 DEF HandleClose
<1>6. ASSUME NEW d \in Devices, RenewClient(d) PROVE DiskInv'
  BY <1>6 DEF RenewClient
<1>7. ASSUME NEW n \in Links, HandleHello(n) PROVE DiskInv'
  BY <1>7 DEF HandleHello, LinksInv
<1>8. ASSUME NEW n \in Links, AcceptPair(n) PROVE DiskInv'
  <2>1. hand[n] = "pair" /\ saver' = [saver EXCEPT ![n] = "saving"] /\ UNCHANGED <<who, nodeState, unread>>
        /\ entangled' = (entangled \/ clearing \/ power = "reading" \/ \E m \in Links : saver[m] # "none")
    BY <1>8 DEF AcceptPair, Reads
  <2>2. saver \in [Links -> {"none", "saving", "saved"}] /\ DiskInv
    OBVIOUS
  <2> QED BY ONLY <1>8, <2>1, <2>2 DEF DiskInv, nodeState
<1>9. ASSUME NEW n \in Links, RefusePair(n) PROVE DiskInv'
  BY <1>9 DEF RefusePair
<1>10. ASSUME NEW n \in Links, HandleAuthenticate(n) PROVE DiskInv'
  BY <1>10 DEF HandleAuthenticate
<1>11. ASSUME NEW n \in Links, RefuseAuthenticate(n) PROVE DiskInv'
  BY <1>11 DEF RefuseAuthenticate
<1>12. ASSUME NEW n \in Links, CredentialSaved(n) PROVE DiskInv'
  BY <1>12 DEF CredentialSaved
<1>13. ASSUME NEW n \in Links, CredentialSaveFails(n) PROVE DiskInv'
  BY <1>13 DEF CredentialSaveFails
<1>14. ASSUME NEW n \in Links, FinishPair(n) PROVE DiskInv'
  BY <1>14 DEF FinishPair, LinksInv
<1>15. ASSUME NEW n \in Links, SocketCloses(n) PROVE DiskInv'
  BY <1>15 DEF SocketCloses
<1>16. ASSUME NEW n \in Links, BreakLink(n) PROVE DiskInv'
  BY <1>16 DEF BreakLink
<1>17. ASSUME StartPairing PROVE DiskInv'
  BY <1>17 DEF StartPairing
<1>18. ASSUME WindowCloses PROVE DiskInv'
  BY <1>18 DEF WindowCloses
<1>19. ASSUME LockoutEnds PROVE DiskInv'
  BY <1>19 DEF LockoutEnds
<1>20. ASSUME Unpair PROVE DiskInv'
  BY <1>20 DEF Unpair
<1>21. ASSUME ClearLands PROVE DiskInv'
  BY <1>21 DEF ClearLands
<1>22. ASSUME ClearFails PROVE DiskInv'
  BY <1>22 DEF ClearFails
<1>23. ASSUME StopNode PROVE DiskInv'
  BY <1>23 DEF StopNode
<1>24. ASSUME StartReads PROVE DiskInv'
  BY <1>24 DEF StartReads
<1>25. ASSUME StartListens PROVE DiskInv'
  BY <1>25 DEF StartListens
<1>26. ASSUME NodeCrash PROVE DiskInv'
  BY <1>26 DEF NodeCrash
<1>27. ASSUME UNCHANGED pairingVars PROVE DiskInv'
  BY <1>27 DEF pairingVars
<1> QED BY <1>1, <1>2, <1>3, <1>4, <1>5, <1>6, <1>7, <1>8, <1>9, <1>10, <1>11, <1>12, <1>13, <1>14, <1>15, <1>16, <1>17, <1>18, <1>19, <1>20, <1>21, <1>22, <1>23, <1>24, <1>25, <1>26, <1>27 DEF PairingNext

\* A connection that stays as it is, or is closed, on which its device does nothing: what
\* the two have told each other stays true while the credential stays that of a ready one.
Untouched(m) ==
  \/ hand'[m] = "closed"
  \/ /\ hand'[m] = hand[m] /\ who'[m] = who[m]
     /\ toNode'[m] = toNode[m] /\ toDevice'[m] = toDevice[m]
     /\ hand[m] = "ready" => m \in revived \/ credential' = credential

LEMMA OthersKeep ==
  ASSUME NEW d \in Devices, NEW m \in Links, Exchange(d, m), m \notin revived, device'[d] = device[d],
         Untouched(m)
  PROVE  Exchange(d, m)'
<1>1. CASE hand'[m] = "closed"
  BY <1>1 DEF Exchange
<1>2. CASE hand'[m] # "closed"
  BY <1>2 DEF Exchange, Only, Untouched
<1> QED BY <1>1, <1>2

\* A step of the node: what it does on the connections that it disturbs decides.
LEMMA NodeKeeps ==
  ASSUME PairedInv, device' = device,
         \A m \in Links : hand[m] # "none" => hand'[m] # "none",
         revived \subseteq revived',
         \A m \in Links : \/ Untouched(m)
                         \/ \A d \in Devices : device[d].socket = m /\ m \notin revived' => Exchange(d, m)',
         readyLink' # Nil /\ readyLink' \notin revived' => who'[readyLink'] = credential'.client
  PROVE  DevicesInv'
<1>. USE DEF PairedInv
<1>1. \A d \in Devices : device[d].socket \in Links \cup {Nil}
  BY DEF PairingTypes, Client
<1>2. \A d \in Devices : device'[d].socket # Nil => hand'[device'[d].socket] # "none"
  BY <1>1 DEF DevicesInv
<1>3. \A d, e \in Devices : device'[d].socket = device'[e].socket /\ device'[d].socket # Nil => d = e
  BY DEF DevicesInv
<1>4. ASSUME NEW d \in Devices, device'[d].socket # Nil, device'[d].socket \notin revived'
      PROVE  Exchange(d, device[d].socket)'
  <2>. DEFINE m == device[d].socket
  <2>1. m \in Links /\ m \notin revived /\ m' = m
    BY <1>1, <1>4
  <2>2. CASE ~Untouched(m)
    BY <1>4, <2>1, <2>2
  <2>3. CASE Untouched(m)
    <3>1. Exchange(d, m) /\ Untouched(m)
      BY <2>1, <2>3 DEF DevicesInv, Nil, Links
    <3>2. \A k \in Links : Exchange(d, k) /\ Untouched(k) /\ k \notin revived => Exchange(d, k)'
      BY OthersKeep
    <3> QED BY <2>1, <3>1, <3>2
  <2> QED BY <2>2, <2>3
<1> QED BY <1>2, <1>3, <1>4 DEF DevicesInv

\* A step of a device on its connection.
LEMMA DeviceKeeps ==
  ASSUME PairedInv, NEW d \in Devices, NEW c \in Client,
         device' = [device EXCEPT ![d] = c],
         UNCHANGED <<who, hand, credential, readyLink, revived>>,
         \A m \in Links : m # device[d].socket => toNode'[m] = toNode[m] /\ toDevice'[m] = toDevice[m],
         c.socket \in {device[d].socket, Nil},
         c.socket # Nil /\ c.socket \notin revived => Exchange(d, c.socket)'
  PROVE  DevicesInv'
<1>. USE DEF PairedInv
<1>1. \A e \in Devices : device[e].socket \in Links \cup {Nil}
  BY DEF PairingTypes, Client
<1>2. device'[d] = c /\ \A e \in Devices \ {d} : device'[e] = device[e]
  BY DEF PairingTypes
<1>3. \A e \in Devices : device'[e].socket # Nil => hand'[device'[e].socket] # "none"
  BY <1>1, <1>2 DEF DevicesInv
<1>4. \A e, f \in Devices : device'[e].socket = device'[f].socket /\ device'[e].socket # Nil => e = f
  BY <1>1, <1>2 DEF DevicesInv
<1>5. ASSUME NEW e \in Devices, device'[e].socket # Nil, device'[e].socket \notin revived'
      PROVE  Exchange(e, device[e].socket)'
  <2>1. CASE e = d
    <3>1. c.socket # Nil /\ c.socket \notin revived /\ device'[d].socket = c.socket
      BY <1>2, <1>5, <2>1
    <3> QED BY <2>1, <3>1
  <2>2. CASE e # d
    <3>. DEFINE m == device[e].socket
    <3>1. m \in Links /\ m \notin revived /\ m' = m /\ device'[e] = device[e]
      BY <1>1, <1>2, <1>5, <2>2
    <3>2. m # device[d].socket
      BY <2>2, <3>1 DEF DevicesInv, Nil, Links
    <3>3. Exchange(e, m) /\ Untouched(m)
      BY <3>1, <3>2 DEF DevicesInv, Untouched, Nil, Links
    <3>4. \A k \in Links : Exchange(e, k) /\ Untouched(k) /\ k \notin revived => Exchange(e, k)'
      BY <3>1, OthersKeep
    <3> QED BY <3>1, <3>3, <3>4
  <2> QED BY <2>1, <2>2
<1>6. readyLink' # Nil /\ readyLink' \notin revived' => who'[readyLink'] = credential'.client
  BY DEF DevicesInv
<1> QED BY <1>3, <1>4, <1>5, <1>6 DEF DevicesInv

\* A frame that goes into an empty queue is the only one, unless it is lost.
LEMMA SendsOne ==
  ASSUME NEW queue, NEW n \in Links, NEW frame, queue = [m \in Links |-> queue[m]], queue[n] = <<>>
  PROVE  /\ Sent(queue, n, <<frame>>)[n] \in {<<>>, <<frame>>}
         /\ \A m \in Links \ {n} : Sent(queue, n, <<frame>>)[m] = queue[m]
BY OneFrame DEF Sent

\* The steps of a device keep what is said of the devices.
LEMMA DeviceSteps ==
  ASSUME PairedInv, NEW d \in Devices,
         Dial(d) \/ HandleChallenge(d) \/ HandlePaired(d) \/ HandleReady(d) \/ HandleClose(d) \/ RenewClient(d)
  PROVE  DevicesInv'
<1>. USE DEF PairedInv
<1>1. device[d] \in Client /\ device[d].socket \in Links \cup {Nil} /\ device[d].client \in Nat /\ device[d].key \in Nat
      /\ device[d].fresh \in Nat /\ device[d].code \in Nat
  BY DEF PairingTypes, Client
<1>11. PICK n \in Links \cup {Nil} : n = device[d].socket
  BY <1>1
<1>2. CASE Dial(d)
  <2>1. PICK m \in Links :
          LET id == IF device[d].client = Nil THEN m ELSE device[d].client
          IN /\ hand[m] = "none" /\ n = Nil
             /\ \E code \in IF device[d].state = "idle" THEN 0..opened ELSE {device[d].code} :
                 device' = [device EXCEPT ![d] = [@ EXCEPT !.socket = m, !.client = id, !.code = code,
                                                          !.state = "connecting"]]
             /\ toNode' = [toNode EXCEPT ![m] = <<Frame("hello", id)>>]
             /\ hand' = [hand EXCEPT ![m] = "hello"]
    BY <1>2, <1>11 DEF Dial
  <2>. DEFINE id == IF device[d].client = Nil THEN m ELSE device[d].client
  <2>2. id \in Nat
    BY <1>1 DEF Links
  <2>. HIDE DEF id
  <2>3. PICK code \in IF device[d].state = "idle" THEN 0..opened ELSE {device[d].code} :
          device' = [device EXCEPT ![d] = [@ EXCEPT !.socket = m, !.client = id, !.code = code,
                                                   !.state = "connecting"]]
    BY <2>1 DEF id
  <2>4. device'[d].socket = m /\ device'[d].client = id /\ device'[d].state = "connecting"
    BY <1>1, <2>3 DEF PairingTypes, Client
  <2>5. \A e \in Devices \ {d} : device'[e] = device[e]
    BY <2>3 DEF PairingTypes
  <2>6. /\ hand'[m] = "hello" /\ toDevice' = toDevice /\ toDevice[m] = <<>>
        /\ \A k \in Links \ {m} : hand'[k] = hand[k] /\ toNode'[k] = toNode[k]
        /\ UNCHANGED <<who, credential, readyLink, revived>>
    <3>1. hand' = [hand EXCEPT ![m] = "hello"] /\ hand[m] = "none"
          /\ \E frame : toNode' = [toNode EXCEPT ![m] = frame]
      BY ONLY <2>1
    <3>2. UNCHANGED <<who, toDevice, credential, readyLink, revived>>
      BY ONLY <1>2 DEF Dial, nodeState, history
    <3>3. LinksInv /\ hand \in [Links -> {"none", "hello", "authenticate", "pair", "pairing", "ready", "closed"}]
          /\ toNode = [k \in Links |-> toNode[k]]
      BY DEF PairingTypes
    <3> QED BY ONLY <3>1, <3>2, <3>3, m \in Links DEF LinksInv
  <2>7. toNode'[m] = <<Frame("hello", id)>>
    BY <2>1 DEF PairingTypes, id
  <2>8. Only(toNode'[m], "hello") /\ Head(toNode'[m]).arg = id
    <3>. DEFINE f == Frame("hello", id)
    <3>1. f.type = "hello" /\ f.arg = id
      BY DEF Frame
    <3>. HIDE DEF f
    <3>2. toNode'[m] = <<f>>
      BY <2>7 DEF f
    <3> QED BY <3>1, <3>2, OneFrame DEF Only
  <2>9. Exchange(d, m)'
    BY <2>4, <2>6, <2>8 DEF Exchange, Only
  <2>10. \A e \in Devices \ {d} : device[e].socket # m
    BY <1>11, <2>1 DEF DevicesInv, Links, Nil
  <2>11. ASSUME NEW e \in Devices, device'[e].socket # Nil, device'[e].socket \notin revived'
         PROVE  hand'[device'[e].socket] # "none" /\ Exchange(e, device[e].socket)'
    <3>1. CASE e = d
      BY <2>4, <2>6, <2>9, <3>1
    <3>2. CASE e # d
      <4>. DEFINE k == device[e].socket
      <4>1. k \in Links /\ k \notin revived /\ k' = k /\ device'[e] = device[e] /\ k # m
        BY <2>5, <2>6, <2>10, <2>11, <3>2 DEF PairingTypes, Client
      <4>2. Exchange(e, k) /\ Untouched(k) /\ hand'[k] # "none"
        BY <2>6, <4>1 DEF DevicesInv, Untouched, Nil, Links
      <4>3. \A l \in Links : Exchange(e, l) /\ Untouched(l) /\ l \notin revived => Exchange(e, l)'
        BY <4>1, OthersKeep
      <4> QED BY <4>1, <4>2, <4>3
    <3> QED BY <3>1, <3>2
  <2>12. \A e \in Devices : device'[e].socket # Nil => hand'[device'[e].socket] # "none"
    <3>. SUFFICES ASSUME NEW e \in Devices, device'[e].socket # Nil PROVE hand'[device'[e].socket] # "none"
      OBVIOUS
    <3>1. CASE e = d
      BY <2>4, <2>6, <3>1
    <3>2. CASE e # d
      BY <2>5, <2>6, <2>10, <3>2 DEF DevicesInv, PairingTypes, Client
    <3> QED BY <3>1, <3>2
  <2>13. \A e, f \in Devices : device'[e].socket = device'[f].socket /\ device'[e].socket # Nil => e = f
    BY <2>4, <2>5, <2>10 DEF DevicesInv
  <2>14. readyLink' # Nil /\ readyLink' \notin revived' => who'[readyLink'] = credential'.client
    BY <2>6 DEF DevicesInv
  <2> QED BY <2>11, <2>12, <2>13, <2>14 DEF DevicesInv
<1>3. CASE HandleChallenge(d)
  <2>. DEFINE answered == [device[d] EXCEPT !.fresh = n]
             ended == [device[d] EXCEPT !.socket = Nil, !.state = "stopped"]
  <2>1. n \in Links /\ n # Nil /\ toDevice[n] # <<>> /\ Head(toDevice[n]).type = "challenge"
    BY <1>1, <1>3, <1>11 DEF HandleChallenge, Heard, Links, Nil
  <2>2. /\ UNCHANGED <<who, hand, credential, readyLink, revived>>
        /\ toDevice' = [toDevice EXCEPT ![n] = Tail(@)]
    BY <1>3, <1>11 DEF HandleChallenge, nodeState, history
  <2>3. n \notin revived /\ hand[n] # "closed" =>
          hand[n] \in {"authenticate", "pair"} /\ toNode[n] = <<>> /\ Tail(toDevice[n]) = <<>>
            /\ device[d].state # "ready" /\ who[n] = device[d].client
    <3>. SUFFICES ASSUME n \notin revived, hand[n] # "closed"
                  PROVE  hand[n] \in {"authenticate", "pair"} /\ toNode[n] = <<>> /\ Tail(toDevice[n]) = <<>>
                           /\ device[d].state # "ready" /\ who[n] = device[d].client
      OBVIOUS
    <3>1. Exchange(d, n) /\ hand[n] # "none"
      BY <1>11, <2>1 DEF DevicesInv
    <3>2. hand[n] \in {"hello", "authenticate", "pair", "pairing", "ready"}
      BY <2>1, <3>1 DEF PairingTypes
    <3> QED BY <2>1, <3>1, <3>2 DEF Exchange, Only
  <2>4. toDevice'[n] = Tail(toDevice[n]) /\ \A m \in Links : m # n => toDevice'[m] = toDevice[m]
    BY <2>1, <2>2 DEF PairingTypes
  <2>5. CASE /\ toNode' = IF hand[n] = "closed" THEN toNode ELSE Sent(toNode, n, <<Frame("authenticate", device[d].key)>>)
             /\ device' = [device EXCEPT ![d] = device[d]]
    <3>. DEFINE f == Frame("authenticate", device[d].key)
    <3>1. f.type = "authenticate" /\ f.arg = device[d].key
      BY DEF Frame
    <3>. HIDE DEF f
    <3>2. \A m \in Links : m # n => toNode'[m] = toNode[m]
      BY <2>5 DEF Sent, PairingTypes, f
    <3>3. device' = device
      BY <2>5 DEF PairingTypes
    <3>4. ASSUME n \notin revived PROVE Exchange(d, n)'
      <4>1. CASE hand[n] = "closed"
        BY <2>2, <4>1 DEF Exchange
      <4>2. CASE hand[n] # "closed"
        <5>1. toNode'[n] \in {<<>>, <<f>>}
          BY <2>1, <2>3, <2>5, <3>4, <4>2, SendsOne DEF PairingTypes, f
        <5>2. toNode'[n] = <<>> \/ (Only(toNode'[n], "authenticate") /\ Head(toNode'[n]).arg = device[d].key)
          BY <3>1, <5>1, OneFrame DEF Only
        <5> QED BY <2>2, <2>3, <2>4, <3>3, <3>4, <4>2, <5>2 DEF Exchange, Only
      <4> QED BY <4>1, <4>2
    <3> QED BY <1>1, <2>1, <2>2, <2>4, <2>5, <3>2, <3>4, <1>11, DeviceKeeps
  <2>6. CASE /\ toNode' = IF hand[n] = "closed" THEN toNode ELSE Sent(toNode, n, <<Frame("pair", device[d].code)>>)
             /\ device' = [device EXCEPT ![d] = answered]
    <3>. DEFINE f == Frame("pair", device[d].code)
    <3>1. f.type = "pair"
      BY DEF Frame
    <3>. HIDE DEF f
    <3>2. \A m \in Links : m # n => toNode'[m] = toNode[m]
      BY <2>6 DEF Sent, PairingTypes, f
    <3>3. /\ answered \in Client /\ answered.socket = n /\ answered.fresh = n
          /\ answered.client = device[d].client /\ answered.state = device[d].state
      <4>1. n \in Nat
        BY <2>1 DEF Links
      <4>2. answered \in Client /\ answered.fresh = n
        BY <1>1, <4>1 DEF Client
      <4>3. answered.socket = device[d].socket /\ answered.client = device[d].client /\ answered.state = device[d].state
        BY <1>1, <4>1 DEF Client
      <4> QED BY <1>11, <4>2, <4>3
    <3>. HIDE DEF answered
    <3>4. device'[d] = answered
      BY <2>6 DEF PairingTypes
    <3>5. ASSUME n \notin revived PROVE Exchange(d, n)'
      <4>1. CASE hand[n] = "closed"
        BY <2>2, <4>1 DEF Exchange
      <4>2. CASE hand[n] # "closed"
        <5>1. toNode'[n] \in {<<>>, <<f>>}
          BY <2>1, <2>3, <2>6, <3>5, <4>2, SendsOne DEF PairingTypes, f
        <5>2. toNode'[n] = <<>> \/ Only(toNode'[n], "pair")
          BY <3>1, <5>1, OneFrame DEF Only
        <5> QED BY <2>2, <2>3, <2>4, <3>3, <3>4, <3>5, <4>2, <5>2 DEF Exchange, Only
      <4> QED BY <4>1, <4>2
    <3> QED BY <2>2, <2>4, <2>6, <3>2, <3>3, <3>5, <1>11, DeviceKeeps
  <2>7. CASE toNode' = toNode /\ device' = [device EXCEPT ![d] = ended]
    <3>1. ended \in Client /\ ended.socket = Nil
      BY <1>1 DEF Client
    <3>. HIDE DEF ended
    <3> QED BY <2>2, <2>4, <2>7, <3>1, <1>11, DeviceKeeps
  <2> QED BY <1>3, <1>11, <2>5, <2>6, <2>7 DEF HandleChallenge
<1>4. CASE HandlePaired(d)
  <2>. DEFINE keyed == [device[d] EXCEPT !.key = device[d].fresh, !.fresh = Nil]
             c == IF device[d].fresh = Nil THEN device[d] ELSE keyed
  <2>1. n \in Links /\ n # Nil /\ toDevice[n] # <<>> /\ Head(toDevice[n]).type = "paired"
    BY <1>1, <1>4, <1>11 DEF HandlePaired, Heard, Links, Nil
  <2>2. /\ UNCHANGED <<who, hand, toNode, credential, readyLink, revived>>
        /\ toDevice' = [toDevice EXCEPT ![n] = Tail(@)]
        /\ device' = IF device[d].fresh = Nil THEN device ELSE [device EXCEPT ![d] = keyed]
    BY <1>4, <1>11 DEF HandlePaired, nodeState, history
  <2>3. toDevice'[n] = Tail(toDevice[n]) /\ \A m \in Links : m # n => toDevice'[m] = toDevice[m]
    BY <2>1, <2>2 DEF PairingTypes
  <2>4. /\ keyed \in Client /\ keyed.key = device[d].fresh /\ keyed.state = device[d].state
        /\ keyed.socket = device[d].socket /\ keyed.client = device[d].client
    BY <1>1 DEF Client, Nil
  <2>. HIDE DEF keyed
  <2>5. /\ c \in Client /\ c.socket = device[d].socket /\ c.client = device[d].client /\ c.state = device[d].state
        /\ device[d].fresh # Nil => c.key = device[d].fresh
    BY <1>1, <2>4
  <2>6. device' = [device EXCEPT ![d] = c]
    BY <2>2 DEF PairingTypes
  <2>. HIDE DEF c
  <2>7. device'[d] = c
    BY <2>6 DEF PairingTypes
  <2>8. ASSUME n \notin revived PROVE Exchange(d, n)'
    <3>1. CASE hand[n] = "closed"
      BY <2>2, <3>1 DEF Exchange
    <3>2. CASE hand[n] # "closed"
      <4>1. Exchange(d, n) /\ hand[n] # "none"
        BY <1>11, <2>1, <2>8 DEF DevicesInv
      <4>2. hand[n] \in {"hello", "authenticate", "pair", "pairing", "ready"}
        BY <2>1, <3>2, <4>1 DEF PairingTypes
      <4>3. /\ hand[n] = "ready" /\ toNode[n] = <<>> /\ Only(Tail(toDevice[n]), "ready")
            /\ device[d].state # "ready" /\ device[d].fresh = n /\ credential.key = n /\ who[n] = device[d].client
        BY <2>1, <4>1, <4>2 DEF Exchange, Only
      <4> QED BY <2>1, <2>2, <2>3, <2>5, <2>7, <4>3 DEF Exchange
    <3> QED BY <3>1, <3>2
  <2> QED BY <1>11, <2>2, <2>3, <2>5, <2>6, <2>8, DeviceKeeps
<1>5. CASE HandleReady(d)
  <2>. DEFINE c == [device[d] EXCEPT !.state = "ready"]
  <2>1. n \in Links /\ n # Nil /\ toDevice[n] # <<>> /\ Head(toDevice[n]).type = "ready"
    BY <1>1, <1>5, <1>11 DEF HandleReady, Heard, Links, Nil
  <2>2. /\ UNCHANGED <<who, hand, toNode, credential, readyLink, revived>>
        /\ toDevice' = [toDevice EXCEPT ![n] = Tail(@)]
        /\ device' = [device EXCEPT ![d] = c]
    BY <1>5, <1>11 DEF HandleReady, nodeState, history
  <2>3. toDevice'[n] = Tail(toDevice[n]) /\ \A m \in Links : m # n => toDevice'[m] = toDevice[m]
    BY <2>1, <2>2 DEF PairingTypes
  <2>4. c \in Client /\ c.socket = device[d].socket /\ c.client = device[d].client /\ c.key = device[d].key
    BY <1>1 DEF Client
  <2>. HIDE DEF c
  <2>5. device'[d] = c
    BY <2>2 DEF PairingTypes
  <2>6. ASSUME n \notin revived PROVE Exchange(d, n)'
    <3>1. CASE hand[n] = "closed"
      BY <2>2, <3>1 DEF Exchange
    <3>2. CASE hand[n] # "closed"
      <4>1. Exchange(d, n) /\ hand[n] # "none"
        BY <1>11, <2>1, <2>6 DEF DevicesInv
      <4>2. hand[n] \in {"hello", "authenticate", "pair", "pairing", "ready"}
        BY <2>1, <3>2, <4>1 DEF PairingTypes
      <4>3. /\ hand[n] = "ready" /\ toNode[n] = <<>> /\ Tail(toDevice[n]) = <<>>
            /\ credential.key = device[d].key /\ who[n] = device[d].client
        BY <2>1, <4>1, <4>2 DEF Exchange, Only
      <4> QED BY <2>1, <2>2, <2>3, <2>4, <2>5, <4>3 DEF Exchange
    <3> QED BY <3>1, <3>2
  <2> QED BY <1>11, <2>2, <2>3, <2>4, <2>6, DeviceKeeps
<1>6. CASE HandleClose(d)
  <2>. DEFINE code == IF toDevice[device[d].socket] = <<>> THEN "transient" ELSE Word(d)
             key == IF code = "unauthorized" THEN Nil ELSE device[d].key
             state == IF code = "transient" THEN "connecting" ELSE "stopped"
             c == [device[d] EXCEPT !.socket = Nil, !.key = key, !.state = state]
  <2>1. key \in Nat /\ state \in {"connecting", "stopped"}
    BY <1>1 DEF Nil
  <2>2. device' = [device EXCEPT ![d] = c] /\ toDevice' = [toDevice EXCEPT ![device[d].socket] = <<>>]
        /\ UNCHANGED <<who, hand, toNode, credential, readyLink, revived>>
    BY <1>6 DEF HandleClose, nodeState, history
  <2>. HIDE DEF key, state
  <2>3. c \in Client /\ c.socket = Nil
    BY <1>1, <2>1 DEF Client
  <2>. HIDE DEF c
  <2>4. \A m \in Links : m # device[d].socket => toDevice'[m] = toDevice[m]
    BY <2>2 DEF PairingTypes
  <2> QED BY <2>2, <2>3, <2>4, DeviceKeeps
<1>7. CASE RenewClient(d)
  <2>1. PICK kept \in {device[d].key, Nil} :
          device' = [device EXCEPT ![d] = [NewDevice EXCEPT !.key = kept,
                                             !.client = IF kept = Nil THEN Nil ELSE device[d].client]]
    BY <1>7 DEF RenewClient
  <2>. DEFINE id == IF kept = Nil THEN Nil ELSE device[d].client
             c == [NewDevice EXCEPT !.key = kept, !.client = id]
  <2>2. kept \in Nat /\ id \in Nat
    BY <1>1 DEF Nil
  <2>3. device' = [device EXCEPT ![d] = c]
    BY <2>1
  <2>. HIDE DEF id
  <2>4. c \in Client /\ c.socket = Nil
    BY <2>2 DEF Client, NewDevice, Nil
  <2>. HIDE DEF c
  <2>5. UNCHANGED <<who, hand, toNode, credential, readyLink, revived>>
    BY <1>7 DEF RenewClient, nodeState, history
  <2>6. \A m \in Links : m # device[d].socket => toDevice'[m] = toDevice[m]
    BY <1>7 DEF RenewClient
  <2> QED BY <2>3, <2>4, <2>5, <2>6, DeviceKeeps
<1> QED BY <1>2, <1>3, <1>4, <1>5, <1>6, <1>7

\* The steps of the node keep what is said of the devices.
LEMMA HandshakeSteps ==
  ASSUME PairedInv, NEW n \in Links,
         \/ HandleHello(n) \/ AcceptPair(n) \/ RefusePair(n) \/ HandleAuthenticate(n) \/ RefuseAuthenticate(n)
         \/ CredentialSaved(n) \/ CredentialSaveFails(n) \/ FinishPair(n) \/ SocketCloses(n) \/ BreakLink(n)
  PROVE  DevicesInv'
<1>. USE DEF PairedInv, linkState, nodeState, history
<1>1. ASSUME NEW d \in Devices, device[d].socket = n, n \notin revived PROVE Exchange(d, n) /\ hand[n] # "none"
  BY <1>1 DEF DevicesInv, Links, Nil
<1>2. CASE HandleHello(n)
  <2>. DEFINE f == Frame("challenge", credential.client = Argument(n))
  <2>1. f.type = "challenge"
    BY DEF Frame
  <2>2. /\ toNode' = [toNode EXCEPT ![n] = Tail(@)] /\ who' = [who EXCEPT ![n] = Argument(n)]
        /\ hand' = [hand EXCEPT ![n] = IF credential.client = Argument(n) THEN "authenticate" ELSE "pair"]
        /\ toDevice' = Sent(toDevice, n, <<f>>)
        /\ UNCHANGED <<device, credential, readyLink, revived>>
        /\ hand[n] = "hello" /\ toNode[n] # <<>> /\ Head(toNode[n]).type = "hello"
    BY <1>2 DEF HandleHello, Reads
  <2>. HIDE DEF f
  <2>3. /\ toNode'[n] = Tail(toNode[n]) /\ who'[n] = Argument(n) /\ hand'[n] \in {"authenticate", "pair"}
        /\ \A m \in Links \ {n} : toNode'[m] = toNode[m] /\ who'[m] = who[m] /\ hand'[m] = hand[m]
    BY <2>2 DEF PairingTypes
  <2>4. \A m \in Links \ {n} : toDevice'[m] = toDevice[m]
    BY <2>2 DEF Sent, PairingTypes
  <2>5. ASSUME NEW d \in Devices, device[d].socket = n, n \notin revived PROVE Exchange(d, n)'
    <3>1. /\ device[d].state # "ready" /\ toDevice[n] = <<>> /\ Tail(toNode[n]) = <<>>
          /\ Argument(n) = device[d].client
      BY <1>1, <2>2, <2>5 DEF Exchange, Only, Argument
    <3>2. toDevice'[n] \in {<<>>, <<f>>}
      BY <2>2, <3>1, SendsOne DEF PairingTypes
    <3>3. toDevice'[n] = <<>> \/ Only(toDevice'[n], "challenge")
      BY <2>1, <3>2, OneFrame DEF Only
    <3> QED BY <2>2, <2>3, <3>1, <3>3 DEF Exchange
  <2>6. \A m \in Links \ {n} : Untouched(m)
    BY <2>2, <2>3, <2>4 DEF Untouched
  <2>7. readyLink' # Nil => readyLink' # n
    BY <2>2 DEF LinksInv
  <2>8. readyLink' # Nil /\ readyLink' \notin revived' => who'[readyLink'] = credential'.client
    BY <2>2, <2>3, <2>7 DEF DevicesInv, PairingTypes
  <2> QED BY <2>2, <2>3, <2>5, <2>6, <2>8, NodeKeeps
<1>3. CASE AcceptPair(n)
  <2>1. /\ toNode' = [toNode EXCEPT ![n] = Tail(@)] /\ hand' = [hand EXCEPT ![n] = "pairing"]
        /\ UNCHANGED <<device, who, toDevice, credential, readyLink, revived>>
        /\ hand[n] = "pair" /\ toNode[n] # <<>> /\ Head(toNode[n]).type = "pair"
    BY <1>3 DEF AcceptPair, Reads
  <2>2. /\ toNode'[n] = Tail(toNode[n]) /\ hand'[n] = "pairing"
        /\ \A m \in Links \ {n} : toNode'[m] = toNode[m] /\ hand'[m] = hand[m]
    BY <2>1 DEF PairingTypes
  <2>3. ASSUME NEW d \in Devices, device[d].socket = n, n \notin revived PROVE Exchange(d, n)'
    <3>1. /\ device[d].state # "ready" /\ toDevice[n] = <<>> /\ Tail(toNode[n]) = <<>>
          /\ device[d].fresh = n /\ who[n] = device[d].client
      BY <1>1, <2>1, <2>3 DEF Exchange, Only
    <3> QED BY <2>1, <2>2, <3>1 DEF Exchange
  <2>4. \A m \in Links \ {n} : Untouched(m)
    BY <2>1, <2>2 DEF Untouched
  <2>5. readyLink' # Nil /\ readyLink' \notin revived' => who'[readyLink'] = credential'.client
    BY <2>1 DEF DevicesInv
  <2> QED BY <2>1, <2>2, <2>3, <2>4, <2>5, NodeKeeps
<1>4. CASE RefusePair(n) \/ RefuseAuthenticate(n) \/ CredentialSaveFails(n)
  <2>1. /\ \E code : Closing(n, code)
        /\ UNCHANGED <<device, who, credential, revived>>
    BY <1>4 DEF RefusePair, RefuseAuthenticate, CredentialSaveFails
  <2>2. /\ hand'[n] = "closed"
        /\ \A m \in Links \ {n} : hand'[m] = hand[m] /\ toNode'[m] = toNode[m] /\ toDevice'[m] = toDevice[m]
        /\ readyLink' = IF readyLink = n THEN Nil ELSE readyLink
    BY <2>1, ClosingCloses
  <2>3. \A m \in Links : Untouched(m)
    BY <2>1, <2>2 DEF Untouched
  <2>4. readyLink' # Nil /\ readyLink' \notin revived' => who'[readyLink'] = credential'.client
    BY <2>1, <2>2 DEF DevicesInv
  <2> QED BY <2>1, <2>2, <2>3, <2>4, NodeKeeps
<1>5. CASE HandleAuthenticate(n)
  <2>1. /\ toNode' = [toNode EXCEPT ![n] = Tail(@)]
        /\ UNCHANGED <<device, who, credential, revived>>
        /\ hand[n] \in {"authenticate", "ready"} /\ toNode[n] # <<>> /\ Head(toNode[n]).type = "authenticate"
        /\ credential.client = who[n] /\ credential.key = Head(toNode[n]).arg
    BY <1>5 DEF HandleAuthenticate, Reads, Verified, Argument
  <2>2. toNode'[n] = Tail(toNode[n]) /\ \A m \in Links \ {n} : toNode'[m] = toNode[m]
    BY <2>1 DEF PairingTypes
  <2>3. CASE hand[n] = "ready"
    <3>1. UNCHANGED <<hand, toDevice, readyLink>>
      BY <1>5, <2>3 DEF HandleAuthenticate
    <3>2. ASSUME NEW d \in Devices, device[d].socket = n, n \notin revived PROVE FALSE
      BY <1>1, <2>1, <2>3, <3>2 DEF Exchange
    <3>3. \A m \in Links \ {n} : Untouched(m)
      BY <2>1, <2>2, <3>1 DEF Untouched
    <3>4. readyLink' # Nil /\ readyLink' \notin revived' => who'[readyLink'] = credential'.client
      BY <2>1, <3>1 DEF DevicesInv
    <3> QED BY <2>1, <3>1, <3>2, <3>3, <3>4, NodeKeeps
  <2>4. CASE hand[n] = "authenticate"
    <3>. DEFINE f == Frame("ready", Nil)
    <3>1. f.type = "ready"
      BY DEF Frame
    <3>2. Granting(n, <<>>)
      BY <1>5, <2>4 DEF HandleAuthenticate
    <3>3. /\ hand'[n] = "ready" /\ readyLink' = n
          /\ toDevice'[n] = IF carrier[n] = "open" THEN toDevice[n] \o Append(<<>>, f) ELSE toDevice[n]
          /\ \A m \in Links \ {n} : m # readyLink => hand'[m] = hand[m] /\ toDevice'[m] = toDevice[m]
          /\ \A m \in Links \ {n} : m = readyLink => hand'[m] = "closed"
      BY <3>2, GrantingGrants
    <3>. HIDE DEF f
    <3>4. ASSUME NEW d \in Devices, device[d].socket = n, n \notin revived PROVE Exchange(d, n)'
      <4>1. /\ device[d].state # "ready" /\ toDevice[n] = <<>> /\ Tail(toNode[n]) = <<>>
            /\ credential.key = device[d].key /\ who[n] = device[d].client
        BY <1>1, <2>1, <2>4, <3>4 DEF Exchange, Only
      <4>2. toDevice'[n] = <<>> \/ toDevice'[n] = <<f>>
        BY <3>3, <4>1, OneFrame
      <4>3. toDevice'[n] = <<>> \/ Only(toDevice'[n], "ready")
        BY <3>1, <4>2, OneFrame DEF Only
      <4> QED BY <2>1, <2>2, <3>3, <4>1, <4>3 DEF Exchange
    <3>5. \A m \in Links \ {n} : Untouched(m)
      BY <2>1, <2>2, <3>3 DEF Untouched
    <3>6. \A m \in Links : hand[m] # "none" => hand'[m] # "none"
      BY <3>3
    <3> QED BY <2>1, <3>3, <3>4, <3>5, <3>6, NodeKeeps
  <2> QED BY <2>1, <2>3, <2>4
<1>6. CASE CredentialSaved(n)
  <2>1. UNCHANGED <<device, who, hand, toNode, toDevice, credential, readyLink, revived>>
    BY <1>6 DEF CredentialSaved
  <2>2. \A m \in Links : Untouched(m)
    BY <2>1 DEF Untouched
  <2> QED BY <2>1, <2>2, NodeKeeps DEF DevicesInv
<1>7. CASE FinishPair(n)
  <2>. DEFINE p == Frame("paired", Nil)
             f == Frame("ready", Nil)
  <2>1. /\ Granting(n, <<p>>) /\ hand[n] \in {"pairing", "closed"}
        /\ credential' = [client |-> who[n], key |-> n]
        /\ revived' = IF hand[n] = "closed" THEN revived \cup {n} ELSE revived
        /\ UNCHANGED <<device, who, toNode>>
    BY <1>7 DEF FinishPair, LinksInv
  <2>2. p.type = "paired" /\ f.type = "ready"
    BY DEF Frame
  <2>3. /\ hand'[n] = "ready" /\ readyLink' = n
        /\ toDevice'[n] = IF carrier[n] = "open" THEN toDevice[n] \o Append(<<p>>, f) ELSE toDevice[n]
        /\ \A m \in Links \ {n} : m # readyLink => hand'[m] = hand[m] /\ toDevice'[m] = toDevice[m]
        /\ \A m \in Links \ {n} : m = readyLink => hand'[m] = "closed"
    BY <2>1, GrantingGrants
  <2>. HIDE DEF p, f
  <2>4. ASSUME NEW d \in Devices, device[d].socket = n, n \notin revived' PROVE Exchange(d, n)'
    <3>1. hand[n] = "pairing" /\ n \notin revived
      BY <2>1, <2>4
    <3>2. /\ device[d].state # "ready" /\ toDevice[n] = <<>> /\ toNode[n] = <<>>
          /\ device[d].fresh = n /\ who[n] = device[d].client
      BY <1>1, <2>4, <3>1 DEF Exchange
    <3>3. toDevice'[n] = <<>> \/ toDevice'[n] = <<p, f>>
      <4>. DEFINE S == {p, f}
      <4>1. p \in S /\ f \in S
        OBVIOUS
      <4>. HIDE DEF S
      <4>2. <<>> \o Append(<<p>>, f) = <<p, f>>
        BY <4>1, TwoFrames
      <4> QED BY <2>3, <3>2, <4>2
    <3>4. <<p, f>> # <<>> /\ Head(<<p, f>>) = p /\ Tail(<<p, f>>) = <<f>> /\ Only(<<f>>, "ready")
      <4>. DEFINE S == {p, f}
      <4>1. p \in S /\ f \in S
        OBVIOUS
      <4>. HIDE DEF S
      <4>2. <<p, f>> # <<>> /\ Head(<<p, f>>) = p /\ Tail(<<p, f>>) = <<f>>
        BY <4>1, TwoFrames
      <4>3. Only(<<f>>, "ready")
        BY <2>2, OneFrame DEF Only
      <4> QED BY <4>2, <4>3
    <3>5. \/ toDevice'[n] = <<>>
          \/ /\ toDevice'[n] # <<>> /\ Head(toDevice'[n]).type = "paired"
             /\ Only(Tail(toDevice'[n]), "ready")
      BY <2>2, <3>3, <3>4
    <3>6. credential'.key = n
      BY <2>1
    <3> QED BY <2>1, <2>3, <3>2, <3>5, <3>6 DEF Exchange
  <2>5. \A m \in Links \ {n} : Untouched(m)
    <3>1. \A m \in Links : hand[m] = "ready" => readyLink = m
      BY DEF LinksInv
    <3> QED BY <2>1, <2>3, <3>1 DEF Untouched
  <2>6. (\A m \in Links : hand[m] # "none" => hand'[m] # "none") /\ revived \subseteq revived'
    BY <2>1, <2>3
  <2>7. who'[readyLink'] = credential'.client
    BY <2>1, <2>3
  <2> QED BY <2>1, <2>4, <2>5, <2>6, <2>7, NodeKeeps
<1>8. CASE SocketCloses(n)
  <2>1. /\ hand' = [hand EXCEPT ![n] = "closed"] /\ toNode' = [toNode EXCEPT ![n] = <<>>]
        /\ readyLink' = IF readyLink = n THEN Nil ELSE readyLink
        /\ UNCHANGED <<device, who, toDevice, credential, revived>>
    BY <1>8 DEF SocketCloses
  <2>2. hand'[n] = "closed" /\ \A m \in Links \ {n} : hand'[m] = hand[m] /\ toNode'[m] = toNode[m]
    BY <2>1 DEF PairingTypes
  <2>3. \A m \in Links : Untouched(m)
    BY <2>1, <2>2 DEF Untouched
  <2>4. readyLink' # Nil /\ readyLink' \notin revived' => who'[readyLink'] = credential'.client
    BY <2>1 DEF DevicesInv
  <2> QED BY <2>1, <2>2, <2>3, <2>4, NodeKeeps
<1>9. CASE BreakLink(n)
  <2>1. /\ toNode' = [toNode EXCEPT ![n] = <<>>] /\ toDevice' = [toDevice EXCEPT ![n] = <<>>]
        /\ UNCHANGED <<device, who, hand, credential, readyLink, revived>>
    BY <1>9 DEF BreakLink
  <2>2. /\ toNode'[n] = <<>> /\ toDevice'[n] = <<>>
        /\ \A m \in Links \ {n} : toNode'[m] = toNode[m] /\ toDevice'[m] = toDevice[m]
    BY <2>1 DEF PairingTypes
  <2>3. ASSUME NEW d \in Devices, device[d].socket = n, n \notin revived PROVE Exchange(d, n)'
    <3>1. Exchange(d, n)
      BY <1>1, <2>3
    <3> QED BY <2>1, <2>2, <3>1 DEF Exchange
  <2>4. \A m \in Links \ {n} : Untouched(m)
    BY <2>1, <2>2 DEF Untouched
  <2> QED BY <2>1, <2>3, <2>4, NodeKeeps DEF DevicesInv
<1> QED BY <1>2, <1>3, <1>4, <1>5, <1>6, <1>7, <1>8, <1>9

\* The host's calls keep what is said of the devices.
LEMMA HostSteps ==
  ASSUME PairedInv,
         \/ StartPairing \/ WindowCloses \/ LockoutEnds \/ Unpair \/ ClearLands \/ ClearFails
         \/ StopNode \/ StartReads \/ StartListens \/ NodeCrash \/ UNCHANGED pairingVars
  PROVE  DevicesInv'
<1>. USE DEF PairedInv, pairingVars, linkState, nodeState, history
<1>1. CASE StartPairing \/ WindowCloses \/ LockoutEnds \/ ClearLands \/ ClearFails \/ StartReads \/ UNCHANGED pairingVars
  <2>1. UNCHANGED <<device, who, hand, toNode, toDevice, credential, readyLink, revived>>
    BY <1>1 DEF StartPairing, WindowCloses, LockoutEnds, ClearLands, ClearFails, StartReads
  <2>2. \A m \in Links : Untouched(m)
    BY <2>1 DEF Untouched
  <2> QED BY <2>1, <2>2, NodeKeeps DEF DevicesInv
<1>2. CASE StartListens
  <2>1. /\ UNCHANGED <<device, who, hand, toNode, toDevice, readyLink, revived>>
        /\ power # "on"
    BY <1>2 DEF StartListens
  <2>2. \A m \in Links : hand[m] = "ready" => m \in revived
    BY <2>1 DEF LinksInv
  <2>3. \A m \in Links : Untouched(m)
    BY <2>1, <2>2 DEF Untouched
  <2>4. readyLink' # Nil => readyLink' \in revived'
    BY <2>1, <2>2 DEF LinksInv, PairingTypes
  <2> QED BY <2>1, <2>3, <2>4, NodeKeeps
<1>3. CASE Unpair
  <2>1. UNCHANGED <<device, who, revived>>
    BY <1>3 DEF Unpair
  <2>2. readyLink' = Nil
    BY <1>3 DEF Unpair, Closing
  <2>3. \A m \in Links : /\ hand[m] # "none" => hand'[m] # "none"
                        /\ Untouched(m)
    <3>1. \A m \in Links : hand[m] = "ready" => readyLink = m
      BY DEF LinksInv
    <3>2. CASE readyLink = Nil
      <4>1. UNCHANGED <<hand, toNode, toDevice>>
        BY <1>3, <3>2 DEF Unpair
      <4> QED BY <2>1, <3>1, <3>2, <4>1 DEF Untouched, Links, Nil
    <3>3. CASE readyLink # Nil
      <4>1. Closing(readyLink, "unauthorized") /\ readyLink \in Links
        BY <1>3, <3>3 DEF Unpair, PairingTypes
      <4>2. /\ hand'[readyLink] = "closed"
            /\ \A m \in Links \ {readyLink} : hand'[m] = hand[m] /\ toNode'[m] = toNode[m] /\ toDevice'[m] = toDevice[m]
        BY <4>1, ClosingCloses
      <4> QED BY <2>1, <3>1, <4>1, <4>2 DEF Untouched
    <3> QED BY <3>2, <3>3
  <2> QED BY <2>1, <2>2, <2>3, NodeKeeps
<1>4. CASE StopNode \/ NodeCrash
  <2>1. AllClosed /\ UNCHANGED <<device, who, revived>>
    BY <1>4 DEF StopNode, NodeCrash
  <2>2. readyLink' = Nil /\ \A m \in Links : hand'[m] = IF hand[m] = "none" THEN "none" ELSE "closed"
    BY <2>1 DEF AllClosed
  <2>3. ASSUME NEW m \in Links, NEW d \in Devices, device[d].socket = m PROVE Exchange(d, m)'
    <3>1. hand[m] # "none"
      BY <2>3 DEF DevicesInv, Links, Nil
    <3> QED BY <2>2, <3>1 DEF Exchange
  <2> QED BY <2>1, <2>2, <2>3, NodeKeeps
<1> QED BY <1>1, <1>2, <1>3, <1>4

\* The invariant of the pairing: what a device and the node have told each other on each
\* connection agrees with the phase the connection is in, and memory agrees with the disk.
THEOREM PairingInvariant == PairingSpec => []PairedInv
<1>1. PairingInit => PairedInv
  BY PairedInit
<1>2. PairedInv /\ [PairingNext]_pairingVars => PairedInv'
  <2>. SUFFICES ASSUME PairedInv, [PairingNext]_pairingVars PROVE PairedInv'
    OBVIOUS
  <2>1. PairingTypes' /\ LinksInv' /\ DiskInv'
    BY PairingTypesKept, LinksKept, DiskKept
  <2>2. DevicesInv'
    BY DeviceSteps, HandshakeSteps, HostSteps DEF PairingNext
  <2> QED BY <2>1, <2>2 DEF PairedInv
<1> QED BY <1>1, <1>2, PTL DEF PairingSpec

\* While nothing is being saved, cleared or loaded, and nothing of that overlapped, what
\* the node goes by is what it will find after a restart, or nothing at all while there is a
\* file that start() could not read.
THEOREM MemoryIsDisk == PairingSpec => []MemoryMatchesDisk
<1>1. PairedInv => MemoryMatchesDisk
  BY DEF PairedInv, DiskInv, MemoryMatchesDisk, Quiet
<1> QED BY <1>1, PairingInvariant, PTL

\* Whoever is connected is whom the node is paired with, and holds the node's key.
THEOREM ConnectedIsPaired == PairingSpec => []ReadyIsPaired
<1>1. PairedInv => ReadyIsPaired
  <2>. SUFFICES ASSUME PairedInv PROVE ReadyIsPaired
    OBVIOUS
  <2>. USE DEF PairedInv
  <2>1. \A n \in Links : hand[n] = "ready" <=> readyLink = n
    BY DEF LinksInv
  <2>2. ASSUME readyLink # Nil, readyLink \notin revived
        PROVE  /\ readyLink \in Links /\ carrier[readyLink] # "gone"
               /\ who[readyLink] = credential.client
    BY <2>1, <2>2 DEF LinksInv, DevicesInv, PairingTypes
  <2>3. ASSUME readyLink # Nil, readyLink \notin revived, NEW d \in Devices,
               device[d].socket = readyLink, device[d].state = "ready"
        PROVE  credential = [client |-> device[d].client, key |-> device[d].key]
    <3>1. Exchange(d, readyLink) /\ hand[readyLink] = "ready"
      BY <2>1, <2>2, <2>3 DEF DevicesInv
    <3>2. credential.key = device[d].key /\ who[readyLink] = device[d].client
      BY <2>3, <3>1 DEF Exchange
    <3>3. credential = [client |-> credential.client, key |-> credential.key]
      BY DEF PairingTypes
    <3> QED BY <2>2, <2>3, <3>2, <3>3
  <2> QED BY <2>1, <2>2, <2>3 DEF ReadyIsPaired
<1> QED BY <1>1, PairingInvariant, PTL

-----------------------------------------------------------------------------
(* OperationRuntime.  RuntimeInv is inductive: whatever the number of      *)
(* processes, requests, crashes and retries, one invocation id is handled  *)
(* once, its answers are the stored ones, and its certain receipts and     *)
(* conclusions are true.  The first lemmas say what a step does to the two *)
(* functions of records, field by field; the steps of the proof then argue *)
(* about the fields.                                                       *)

USE JournalAssumption

Labels == {"idle", "reading", "claiming", "rereading"} \cup Owning
Checks == {"idle", "reading", "asking", "loading", "swapping"}

\* The dispatch of r is now at l; it keeps its request and effect unless it ended.
Moved(r, l) ==
  /\ dispatch' \in [Runtimes -> Dispatching]
  /\ \A q \in Runtimes : dispatch'[q].at = IF q = r THEN l ELSE dispatch[q].at
  /\ \A q \in Runtimes : q # r \/ l # "idle" =>
       dispatch'[q].request = dispatch[q].request /\ dispatch'[q].effect = dispatch[q].effect

\* The same of the reconcile of r.
Rechecked(r, l) ==
  /\ checking' \in [Runtimes -> Reconciling]
  /\ \A q \in Runtimes : checking'[q].at = IF q = r THEN l ELSE checking[q].at
  /\ \A q \in Runtimes : q # r => checking'[q].effect = checking[q].effect

-----------------------------------------------------------------------------
(* What the updates do, field by field. *)

\* Going to a label, with or without the version that was loaded there.
LEMMA GotoMoves ==
  ASSUME RuntimeTypeOK, NEW r \in Runtimes, NEW l \in Labels,
         \/ Goto(r, l)
         \/ dispatch' = [dispatch EXCEPT ![r].at = l, ![r].version = record.version]
  PROVE  Moved(r, l)
<1>1. dispatch[r] \in Dispatching /\ record.version \in Nat
  BY DEF RuntimeTypeOK, RecordType
<1>2. CASE Goto(r, l)
  <2>1. [dispatch[r] EXCEPT !.at = l] \in Dispatching
    BY <1>1 DEF Dispatching, Labels
  <2>. QED  BY <1>2, <2>1 DEF Goto, Moved, RuntimeTypeOK, Dispatching
<1>3. CASE dispatch' = [dispatch EXCEPT ![r].at = l, ![r].version = record.version]
  <2>1. [dispatch[r] EXCEPT !.at = l, !.version = record.version] \in Dispatching
    BY <1>1 DEF Dispatching, Labels
  <2>. QED  BY <1>3, <2>1 DEF Moved, RuntimeTypeOK, Dispatching
<1>. QED  BY <1>2, <1>3

LEMMA DoneMoves ==
  ASSUME RuntimeTypeOK, NEW r \in Runtimes, Done(r)
  PROVE  Moved(r, "idle")
<1>1. NoDispatch \in Dispatching
  BY DEF NoDispatch, Dispatching, Effects
<1>. QED  BY <1>1 DEF Done, NoDispatch, Moved, RuntimeTypeOK, Dispatching

LEMMA InvokeMoves ==
  ASSUME RuntimeTypeOK, NEW r \in Runtimes, NEW req \in Requests,
         dispatch' = [dispatch EXCEPT ![r].at = "reading", ![r].request = req]
  PROVE  /\ dispatch' \in [Runtimes -> Dispatching]
         /\ dispatch'[r].at = "reading" /\ dispatch'[r].request = req
         /\ \A q \in Runtimes : q # r => dispatch'[q] = dispatch[q]
<1>1. dispatch[r] \in Dispatching
  BY DEF RuntimeTypeOK
<1>2. [dispatch[r] EXCEPT !.at = "reading", !.request = req] \in Dispatching
  BY <1>1 DEF Dispatching
<1>. QED  BY <1>2 DEF RuntimeTypeOK, Dispatching

LEMMA SettleMoves ==
  ASSUME RuntimeTypeOK, NEW r \in Runtimes, NEW e \in Effects, SettleWith(r, e)
  PROVE  /\ dispatch' \in [Runtimes -> Dispatching]
         /\ dispatch'[r].at = "loadSettle" /\ dispatch'[r].effect = e
         /\ dispatch'[r].request = dispatch[r].request
         /\ \A q \in Runtimes : q # r => dispatch'[q] = dispatch[q]
<1>1. dispatch[r] \in Dispatching
  BY DEF RuntimeTypeOK
<1>2. [dispatch[r] EXCEPT !.at = "loadSettle", !.effect = e] \in Dispatching
  BY <1>1 DEF Dispatching, Owning
<1>. QED  BY <1>2 DEF SettleWith, RuntimeTypeOK, Dispatching

\* A signal that aborts moves nothing.
LEMMA AbortMoves ==
  ASSUME RuntimeTypeOK, NEW r \in Runtimes, NEW b \in BOOLEAN,
         dispatch' = [dispatch EXCEPT ![r].aborted = b]
  PROVE  Moved(r, dispatch[r].at)
<1>1. dispatch[r] \in Dispatching
  BY DEF RuntimeTypeOK
<1>2. [dispatch[r] EXCEPT !.aborted = b] \in Dispatching
  BY <1>1 DEF Dispatching
<1>. QED  BY <1>2 DEF Moved, RuntimeTypeOK, Dispatching

LEMMA CheckMoves ==
  ASSUME RuntimeTypeOK, NEW r \in Runtimes, NEW l \in Checks,
         \/ checking' = [checking EXCEPT ![r].at = l]
         \/ checking' = [checking EXCEPT ![r].at = l, ![r].version = record.version]
  PROVE  Rechecked(r, l) /\ checking'[r].effect = checking[r].effect
<1>1. checking[r] \in Reconciling /\ record.version \in Nat
  BY DEF RuntimeTypeOK, RecordType
<1>2. CASE checking' = [checking EXCEPT ![r].at = l]
  <2>1. [checking[r] EXCEPT !.at = l] \in Reconciling
    BY <1>1 DEF Reconciling, Checks
  <2>. QED  BY <1>2, <2>1 DEF Rechecked, RuntimeTypeOK, Reconciling
<1>3. CASE checking' = [checking EXCEPT ![r].at = l, ![r].version = record.version]
  <2>1. [checking[r] EXCEPT !.at = l, !.version = record.version] \in Reconciling
    BY <1>1 DEF Reconciling, Checks
  <2>. QED  BY <1>3, <2>1 DEF Rechecked, RuntimeTypeOK, Reconciling
<1>. QED  BY <1>2, <1>3

LEMMA StopMoves ==
  ASSUME RuntimeTypeOK, NEW r \in Runtimes, StopCheck(r)
  PROVE  Rechecked(r, "idle")
<1>1. NoCheck \in Reconciling
  BY DEF NoCheck, Reconciling
<1>. QED  BY <1>1 DEF StopCheck, NoCheck, Rechecked, RuntimeTypeOK, Reconciling

LEMMA AskMoves ==
  ASSUME RuntimeTypeOK, NEW r \in Runtimes,
         checking' = [checking EXCEPT ![r].at = "loading", ![r].effect = world]
  PROVE  Rechecked(r, "loading") /\ checking'[r].effect = world
<1>1. checking[r] \in Reconciling /\ world \in {"none", "committed"}
  BY DEF RuntimeTypeOK
<1>2. [checking[r] EXCEPT !.at = "loading", !.effect = world] \in Reconciling
  BY <1>1 DEF Reconciling
<1>. QED  BY <1>2 DEF Rechecked, RuntimeTypeOK, Reconciling

\* What the three swaps do to the record.
LEMMA PrepareShape ==
  ASSUME record \in RecordType, NEW v, Prepare(v)
  PROVE  /\ record' \in RecordType
         /\ record'.version # 0 /\ record'.phase = "prepared" /\ record'.receipt = None
         /\ record'.reconciliation = None /\ record'.request = record.request
<1>1. /\ record.version \in Nat /\ record.version + 1 \in Nat /\ record.version + 1 # 0
      /\ record.request \in Requests \cup {None}
  BY DEF RecordType
<1>2. record' = [record EXCEPT !.version = record.version + 1, !.phase = "prepared",
                               !.receipt = None, !.reconciliation = None]
  BY DEF Prepare
<1>3. record'.version = record.version + 1 /\ record'.phase = "prepared" /\ record'.receipt = None
      /\ record'.reconciliation = None /\ record'.request = record.request
  BY <1>2 DEF RecordType
<1>4. record' \in RecordType
  BY <1>1, <1>2 DEF RecordType
<1>. QED  BY <1>1, <1>3, <1>4

LEMMA SettleShape ==
  ASSUME record \in RecordType, NEW v, NEW e \in Effects, Settle(v, e)
  PROVE  /\ record' \in RecordType
         /\ record'.version # 0 /\ record'.phase = "settled" /\ record'.receipt = e
         /\ record'.reconciliation = None /\ record'.request = record.request
<1>1. /\ record.version \in Nat /\ record.version + 1 \in Nat /\ record.version + 1 # 0
      /\ record.request \in Requests \cup {None}
  BY DEF RecordType
<1>2. record' = [record EXCEPT !.version = record.version + 1, !.phase = "settled",
                               !.receipt = e, !.reconciliation = None]
  BY DEF Settle
<1>3. record'.version = record.version + 1 /\ record'.phase = "settled" /\ record'.receipt = e
      /\ record'.reconciliation = None /\ record'.request = record.request
  BY <1>2 DEF RecordType
<1>4. record' \in RecordType
  BY <1>1, <1>2 DEF RecordType
<1>. QED  BY <1>1, <1>3, <1>4

LEMMA ReconcileShape ==
  ASSUME record \in RecordType, NEW v, NEW e \in {"none", "committed"}, Reconcile(v, e)
  PROVE  /\ record' \in RecordType /\ record'.version # 0 /\ record'.reconciliation = e
         /\ record'.phase = record.phase /\ record'.request = record.request
         /\ record'.receipt = record.receipt
<1>1. record.version \in Nat /\ record.version + 1 \in Nat /\ record.version + 1 # 0
  BY DEF RecordType
<1>2. record' = [record EXCEPT !.version = record.version + 1, !.reconciliation = e]
  BY DEF Reconcile
<1>3. /\ record'.version = record.version + 1 /\ record'.reconciliation = e
      /\ record'.phase = record.phase /\ record'.request = record.request
      /\ record'.receipt = record.receipt
  BY <1>2 DEF RecordType
<1>4. record' \in RecordType
  BY <1>1, <1>2 DEF RecordType
<1>. QED  BY <1>1, <1>3, <1>4

-----------------------------------------------------------------------------
(* Steps that move on one dispatch or one reconcile and nothing else. *)

\* A dispatch that moves on: it stays the owner if it was, ends, or has not become
\* the owner yet. What it tells its caller is what the journal holds.
LEMMA MoveKeepsInv ==
  ASSUME RuntimeInv, NEW r \in Runtimes, NEW l \in Labels, Moved(r, l),
         UNCHANGED <<record, checking, life, worldVars, overlapped>>,
         answers' = answers \/ answers' \subseteq {record.receipt} \cap Effects,
         l \in Owning => dispatch[r].at \in Owning,
         l \in {"reading", "claiming", "rereading"} =>
           dispatch[r].at \in {"reading", "claiming", "rereading"},
         l \in {"preparing", "loadPrepare", "swapPrepare", "dispatching"} => runs = 0,
         l = "handler" => runs = 1,
         l \in {"dispatching", "handler"} => record.phase = "prepared",
         l \in {"loadSettle", "swapSettle"} => dispatch[r].effect \in {"unknown", world},
         l # "idle" => life[r] # "drained"
  PROVE  RuntimeInv'
<1>. USE DEF RuntimeInv, worldVars
<1>1. RuntimeTypeOK'
  BY DEF RuntimeTypeOK, Moved
<1>2. UnderWay' => UnderWay
  BY DEF UnderWay, Moved
<1>3. OwnerConsistent'
  BY DEF OwnerConsistent, Moved, Owning
<1>4. RunsOnce' /\ RecordConsistent'
  BY DEF RunsOnce, RecordConsistent
<1>5. ReceiptIsTrue' /\ AnswersAreDurable' /\ SoundReconciliation'
  BY <1>2 DEF ReceiptIsTrue, AnswersAreDurable, SoundReconciliation
<1>6. CheckConsistent'
  BY <1>2 DEF CheckConsistent
<1>7. DrainedIsQuiet'
  BY DEF DrainedIsQuiet, Moved
<1>. QED  BY <1>1, <1>3, <1>4, <1>5, <1>6, <1>7

\* A reconcile that moves on, before it stores anything.
LEMMA CheckKeepsInv ==
  ASSUME RuntimeInv, NEW r \in Runtimes, NEW l \in Checks, Rechecked(r, l),
         UNCHANGED <<record, dispatch, life, worldVars, historyVars>>,
         l \in {"asking", "loading", "swapping"} => record.version # 0,
         l \in {"loading", "swapping"} /\ ~overlapped => checking'[r].effect = world /\ ~UnderWay,
         l # "idle" => life[r] # "drained"
  PROVE  RuntimeInv'
<1>. USE DEF RuntimeInv, worldVars, historyVars
<1>1. RuntimeTypeOK'
  BY DEF RuntimeTypeOK, Rechecked
<1>2. UnderWay' = UnderWay
  BY DEF UnderWay
<1>3. OwnerConsistent' /\ RunsOnce' /\ RecordConsistent'
  BY DEF OwnerConsistent, RunsOnce, RecordConsistent
<1>4. ReceiptIsTrue' /\ AnswersAreDurable' /\ SoundReconciliation'
  BY <1>2 DEF ReceiptIsTrue, AnswersAreDurable, SoundReconciliation
<1>5. CheckConsistent'
  BY <1>2 DEF CheckConsistent, Rechecked
<1>6. DrainedIsQuiet'
  BY DEF DrainedIsQuiet, Rechecked
<1>. QED  BY <1>1, <1>3, <1>4, <1>5, <1>6

-----------------------------------------------------------------------------
(* The dispatch. *)

\* What a reader of the record answers is what the journal holds.
LEMMA AnswerKeepsInv ==
  ASSUME RuntimeInv, NEW r \in Runtimes, Answer(r), dispatch[r].at # "idle",
         UNCHANGED <<record, checking, life, worldVars, overlapped>>
  PROVE  RuntimeInv'
<1>1. RuntimeTypeOK
  BY DEF RuntimeInv
<1>2. Moved(r, "idle")
  BY <1>1, DoneMoves DEF Answer
<1>3. answers' = answers \/ answers' \subseteq {record.receipt} \cap Effects
  BY <1>1 DEF Answer, RuntimeInv, AnswersAreDurable, RuntimeTypeOK, RecordType
<1>. QED  BY <1>2, <1>3, MoveKeepsInv DEF Labels, Owning

\* The owner goes on to settle a receipt that is true or does not claim anything.
LEMMA SettleWithKeepsInv ==
  ASSUME RuntimeInv, NEW r \in Runtimes, NEW e \in {"unknown", world}, SettleWith(r, e),
         dispatch[r].at \in Owning,
         UNCHANGED <<record, checking, life, worldVars, historyVars>>
  PROVE  RuntimeInv'
<1>. USE DEF historyVars, worldVars
<1>0. /\ RuntimeTypeOK /\ OwnerConsistent /\ RecordConsistent /\ RunsOnce /\ ReceiptIsTrue
      /\ AnswersAreDurable /\ CheckConsistent /\ SoundReconciliation /\ DrainedIsQuiet
  BY DEF RuntimeInv
<1>1. e \in Effects
  BY <1>0 DEF RuntimeTypeOK, Effects
<1>2. /\ dispatch' \in [Runtimes -> Dispatching]
      /\ dispatch'[r].at = "loadSettle" /\ dispatch'[r].effect = e
      /\ dispatch'[r].request = dispatch[r].request
      /\ \A q \in Runtimes : q # r => dispatch'[q] = dispatch[q]
  BY <1>0, <1>1, SettleMoves
<1>3. UnderWay' = UnderWay
  BY <1>2 DEF UnderWay, Owning
<1>4. RuntimeTypeOK'
  BY <1>0, <1>2 DEF RuntimeTypeOK
<1>5. OwnerConsistent'
  BY <1>0, <1>2 DEF OwnerConsistent, Owning
<1>6. DrainedIsQuiet'
  BY <1>0, <1>2 DEF DrainedIsQuiet, Owning
<1>. QED
  BY <1>0, <1>3, <1>4, <1>5, <1>6
  DEF RuntimeInv, RunsOnce, RecordConsistent, ReceiptIsTrue, AnswersAreDurable, CheckConsistent,
      SoundReconciliation

\* A signal that aborts changes nothing the invariant speaks of.
LEMMA AbortedKeepsInv ==
  ASSUME RuntimeInv, NEW r \in Runtimes, dispatch' = [dispatch EXCEPT ![r].aborted = TRUE],
         dispatch[r].at # "idle",
         UNCHANGED <<record, checking, life, worldVars, historyVars>>
  PROVE  RuntimeInv'
<1>1. RuntimeTypeOK /\ OwnerConsistent /\ DrainedIsQuiet
  BY DEF RuntimeInv
<1>2. Moved(r, dispatch[r].at)
  BY <1>1, AbortMoves
<1>3. dispatch[r].at \in Labels
  BY <1>1 DEF RuntimeTypeOK, Dispatching, Labels
<1>. DEFINE l == dispatch[r].at
<1>4. /\ l \in {"preparing", "loadPrepare", "swapPrepare", "dispatching"} => runs = 0
      /\ l = "handler" => runs = 1
      /\ l \in {"dispatching", "handler"} => record.phase = "prepared"
      /\ l \in {"loadSettle", "swapSettle"} => dispatch[r].effect \in {"unknown", world}
  BY <1>1 DEF OwnerConsistent, Owning
<1>5. life[r] # "drained"
  BY <1>1 DEF DrainedIsQuiet
<1>. HIDE DEF l
<1>6. Moved(r, l) /\ l \in Labels
  BY <1>2, <1>3 DEF l
<1>7. l = dispatch[r].at
  BY DEF l
<1>. QED  BY <1>4, <1>5, <1>6, <1>7, MoveKeepsInv DEF historyVars

LEMMA DispatchKeepsInv ==
  ASSUME RuntimeInv, NEW r \in Runtimes, DispatchStep(r)
  PROVE  RuntimeInv'
<1>. USE DEF historyVars
<1>0. /\ RuntimeTypeOK /\ OwnerConsistent /\ RecordConsistent /\ RunsOnce /\ ReceiptIsTrue
      /\ AnswersAreDurable /\ CheckConsistent /\ SoundReconciliation /\ DrainedIsQuiet
  BY DEF RuntimeInv
<1>a. dispatch[r].at # "idle" => life[r] # "drained"
  BY <1>0 DEF DrainedIsQuiet
<1>1. ASSUME NEW req \in Requests, Invoke(r, req)  PROVE RuntimeInv'
  <2>1. /\ dispatch' \in [Runtimes -> Dispatching]
        /\ dispatch'[r].at = "reading" /\ dispatch'[r].request = req
        /\ \A q \in Runtimes : q # r => dispatch'[q] = dispatch[q]
    BY <1>0, <1>1, InvokeMoves DEF Invoke
  <2>2. /\ life[r] = "open" /\ dispatch[r].at = "idle"
        /\ UNCHANGED <<record, checking, life, worldVars, historyVars>>
    BY <1>1 DEF Invoke
  <2>3. UnderWay' = UnderWay
    BY <2>1, <2>2 DEF UnderWay, Owning
  <2>4. RuntimeTypeOK'
    BY <1>0, <2>1, <2>2 DEF RuntimeTypeOK, worldVars
  <2>5. OwnerConsistent'
    BY <1>0, <2>1, <2>2 DEF OwnerConsistent, Owning, worldVars
  <2>6. DrainedIsQuiet'
    BY <1>0, <2>1, <2>2 DEF DrainedIsQuiet
  <2>. QED
    BY <1>0, <2>2, <2>3, <2>4, <2>5, <2>6
    DEF RuntimeInv, RunsOnce, RecordConsistent, ReceiptIsTrue, AnswersAreDurable, CheckConsistent,
        SoundReconciliation, worldVars
<1>2. CASE Refuse(r) \/ FailJournal(r) \/ RejectDispatch(r)
  <2>1. Done(r) /\ UNCHANGED <<record, checking, life, worldVars, historyVars>>
    BY <1>2 DEF Refuse, FailJournal, RejectDispatch
  <2>2. Moved(r, "idle")
    BY <1>0, <2>1, DoneMoves
  <2>. QED  BY <2>1, <2>2, MoveKeepsInv DEF Labels, Owning
<1>3. CASE ReadPrior(r)
  <2>1. CASE record.version = 0
    <3>1. Moved(r, "claiming")
      BY <1>0, <1>3, <2>1, GotoMoves DEF ReadPrior, Labels
    <3>. QED  BY <1>a, <1>3, <2>1, <3>1, MoveKeepsInv DEF ReadPrior, Labels, Owning
  <2>2. CASE record.version # 0
    BY <1>3, <2>2, AnswerKeepsInv DEF ReadPrior
  <2>. QED  BY <2>1, <2>2
<1>4. CASE ClaimId(r)
  <2>1. CASE Claim(dispatch[r].request) /\ Goto(r, "preparing")
    <3>. DEFINE req == dispatch[r].request
    <3>1. /\ Moved(r, "preparing")
          /\ UNCHANGED <<checking, life, worldVars, historyVars>> /\ dispatch[r].at = "claiming"
      BY <1>0, <1>4, <2>1, GotoMoves DEF ClaimId, Labels, Owning
    <3>2. req \in Requests
      BY <1>0, <3>1 DEF OwnerConsistent
    <3>3. /\ record.version = 0
          /\ record' = [version |-> 1, phase |-> "reserved", request |-> req, receipt |-> None,
                        reconciliation |-> None]
      BY <2>1 DEF Claim
    <3>. HIDE DEF req
    <3>4. record' \in RecordType
      BY <3>2, <3>3 DEF RecordType
    <3>5. RuntimeTypeOK'
      BY <1>0, <3>1, <3>4 DEF RuntimeTypeOK, Moved, worldVars
    <3>6. \A q \in Runtimes : dispatch[q].at \notin Owning
      BY <1>0, <3>3 DEF OwnerConsistent
    <3>7. runs = 0 /\ answers = {}
      BY <1>0, <3>3 DEF RecordConsistent, AnswersAreDurable, RuntimeTypeOK
    <3>8. OwnerConsistent'
      <4>1. \A q \in Runtimes : dispatch'[q].at \in Owning => q = r
        BY <3>1, <3>6 DEF Moved
      <4>2. record'.request = dispatch'[r].request /\ dispatch'[r].at = "preparing"
        BY <3>1, <3>3 DEF Moved, req
      <4>3. \A q \in Runtimes : dispatch'[q].at \in {"reading", "claiming", "rereading"} =>
              dispatch'[q].request \in Requests
        BY <1>0, <3>1 DEF OwnerConsistent, Moved
      <4>. QED  BY <3>1, <3>3, <3>7, <4>1, <4>2, <4>3 DEF OwnerConsistent, worldVars
    <3>9. RecordConsistent' /\ RunsOnce'
      BY <1>0, <3>1, <3>2, <3>3, <3>7 DEF RecordConsistent, RunsOnce, worldVars
    <3>10. ReceiptIsTrue' /\ SoundReconciliation' /\ AnswersAreDurable'
      BY <3>1, <3>3, <3>7 DEF ReceiptIsTrue, SoundReconciliation, AnswersAreDurable
    <3>11. CheckConsistent'
      BY <1>0, <3>1, <3>3 DEF CheckConsistent
    <3>12. DrainedIsQuiet'
      BY <1>0, <1>a, <3>1 DEF DrainedIsQuiet, Moved
    <3>. QED  BY <3>5, <3>8, <3>9, <3>10, <3>11, <3>12 DEF RuntimeInv
  <2>2. CASE Goto(r, "rereading") /\ UNCHANGED record
    <3>1. Moved(r, "rereading")
      BY <1>0, <2>2, GotoMoves DEF Labels
    <3>. QED  BY <1>a, <1>4, <2>2, <3>1, MoveKeepsInv DEF ClaimId, Labels, Owning
  <2>. QED  BY <1>4, <2>1, <2>2 DEF ClaimId
<1>5. CASE ReadExisting(r)
  BY <1>5, AnswerKeepsInv DEF ReadExisting
<1>6. CASE PrepareInput(r)
  <2>1. Moved(r, "loadPrepare")
    BY <1>0, <1>6, GotoMoves DEF PrepareInput, Labels, Owning
  <2>2. runs = 0
    BY <1>0, <1>6 DEF PrepareInput, OwnerConsistent, Owning
  <2>. QED  BY <1>a, <1>6, <2>1, <2>2, MoveKeepsInv DEF PrepareInput, Labels, Owning
<1>7. CASE LoadPrepare(r)
  <2>1. CASE LoadedForPrepare(dispatch[r].request)
    <3>1. Moved(r, "swapPrepare")
      BY <1>0, <1>7, <2>1, GotoMoves DEF LoadPrepare, Labels, Owning
    <3>2. runs = 0
      BY <1>0, <1>7 DEF LoadPrepare, OwnerConsistent, Owning
    <3>. QED  BY <1>a, <1>7, <3>1, <3>2, MoveKeepsInv DEF LoadPrepare, Labels, Owning
  <2>2. CASE ~LoadedForPrepare(dispatch[r].request)
    <3>1. Moved(r, "idle")
      BY <1>0, <1>7, <2>2, DoneMoves DEF LoadPrepare
    <3>. QED  BY <1>7, <3>1, MoveKeepsInv DEF LoadPrepare, Labels, Owning
  <2>. QED  BY <2>1, <2>2
<1>8. CASE SwapPrepare(r)
  <2>1. CASE Prepare(dispatch[r].version) /\ Goto(r, "dispatching")
    <3>1. /\ Moved(r, "dispatching")
          /\ UNCHANGED <<checking, life, worldVars, historyVars>> /\ dispatch[r].at = "swapPrepare"
      BY <1>0, <1>8, <2>1, GotoMoves DEF SwapPrepare, Labels, Owning
    <3>2. /\ record.version # 0 /\ record.request = dispatch[r].request /\ record.receipt = None
          /\ runs = 0
      BY <1>0, <3>1 DEF OwnerConsistent, Owning
    <3>3. /\ record' \in RecordType
          /\ record'.version # 0 /\ record'.phase = "prepared" /\ record'.receipt = None
          /\ record'.reconciliation = None /\ record'.request = record.request
      BY <1>0, <2>1, PrepareShape DEF RuntimeTypeOK
    <3>4. answers = {}
      BY <1>0, <3>2 DEF AnswersAreDurable, RuntimeTypeOK
    <3>5. RuntimeTypeOK'
      BY <1>0, <3>1, <3>3 DEF RuntimeTypeOK, Moved, worldVars
    <3>6. UnderWay' => UnderWay
      BY <3>1 DEF UnderWay, Moved, Owning
    <3>7. OwnerConsistent'
      BY <1>0, <3>1, <3>2, <3>3 DEF OwnerConsistent, Moved, Owning, worldVars
    <3>8. RecordConsistent' /\ RunsOnce'
      BY <1>0, <3>1, <3>2, <3>3 DEF RecordConsistent, RunsOnce, worldVars
    <3>9. ReceiptIsTrue' /\ SoundReconciliation' /\ AnswersAreDurable'
      BY <3>1, <3>3, <3>4 DEF ReceiptIsTrue, SoundReconciliation, AnswersAreDurable
    <3>10. CheckConsistent'
      BY <1>0, <3>1, <3>3, <3>6 DEF CheckConsistent, worldVars
    <3>11. DrainedIsQuiet'
      BY <1>0, <1>a, <3>1 DEF DrainedIsQuiet, Moved
    <3>. QED  BY <3>5, <3>7, <3>8, <3>9, <3>10, <3>11 DEF RuntimeInv
  <2>2. CASE Done(r) /\ UNCHANGED record
    <3>1. Moved(r, "idle")
      BY <1>0, <2>2, DoneMoves
    <3>. QED  BY <1>8, <2>2, <3>1, MoveKeepsInv DEF SwapPrepare, Labels, Owning
  <2>. QED  BY <1>8, <2>1, <2>2 DEF SwapPrepare
<1>9. CASE FailPrepare(r) \/ CancelDispatch(r)
  <2>1. /\ SettleWith(r, "none") /\ dispatch[r].at \in {"preparing", "dispatching"}
        /\ UNCHANGED <<record, checking, life, worldVars, historyVars>>
    BY <1>9 DEF FailPrepare, CancelDispatch
  <2>2. world = "none"
    BY <1>0, <2>1 DEF OwnerConsistent, RecordConsistent, Owning
  <2>. QED  BY <2>1, <2>2, SettleWithKeepsInv DEF Owning
<1>10. CASE EnterHandler(r)
  <2>1. /\ Moved(r, "handler") /\ runs' = runs + 1 /\ dispatch[r].at = "dispatching"
        /\ UNCHANGED <<record, checking, life, world, historyVars>>
    BY <1>0, <1>10, GotoMoves DEF EnterHandler, Labels, Owning
  <2>2. runs = 0 /\ record.phase = "prepared" /\ record.version # 0
    BY <1>0, <2>1 DEF OwnerConsistent, Owning
  <2>3. UnderWay' => UnderWay
    BY <2>1 DEF UnderWay, Moved, Owning
  <2>4. RuntimeTypeOK'
    BY <1>0, <2>1, <2>2 DEF RuntimeTypeOK, Moved
  <2>5. OwnerConsistent'
    BY <1>0, <2>1, <2>2 DEF OwnerConsistent, Moved, Owning
  <2>6. RecordConsistent' /\ RunsOnce'
    BY <1>0, <2>1, <2>2 DEF RecordConsistent, RunsOnce
  <2>7. ReceiptIsTrue' /\ SoundReconciliation' /\ AnswersAreDurable'
    BY <1>0, <2>1, <2>3 DEF ReceiptIsTrue, SoundReconciliation, AnswersAreDurable
  <2>8. CheckConsistent'
    BY <1>0, <2>1, <2>3 DEF CheckConsistent
  <2>9. DrainedIsQuiet'
    BY <1>0, <1>a, <2>1 DEF DrainedIsQuiet, Moved
  <2>. QED  BY <2>4, <2>5, <2>6, <2>7, <2>8, <2>9 DEF RuntimeInv
<1>11. CASE CommitWork(r)
  <2>1. /\ dispatch[r].at = "handler" /\ world' = "committed"
        /\ UNCHANGED <<record, dispatch, checking, life, runs, historyVars>>
    BY <1>11 DEF CommitWork
  <2>2. UnderWay /\ UnderWay'
    BY <2>1 DEF UnderWay, Owning
  <2>3. record.version # 0 /\ record.receipt = None
    BY <1>0, <2>1 DEF OwnerConsistent, Owning
  <2>4. RuntimeTypeOK'
    BY <1>0, <2>1 DEF RuntimeTypeOK
  <2>5. OwnerConsistent'
    BY <1>0, <2>1 DEF OwnerConsistent, Owning
  <2>6. RecordConsistent' /\ RunsOnce'
    BY <1>0, <2>1, <2>3 DEF RecordConsistent, RunsOnce, OwnerConsistent, Owning
  <2>7. ReceiptIsTrue' /\ SoundReconciliation' /\ AnswersAreDurable'
    BY <1>0, <2>1, <2>2, <2>3 DEF ReceiptIsTrue, SoundReconciliation, AnswersAreDurable
  <2>8. CheckConsistent'
    BY <1>0, <2>1, <2>2 DEF CheckConsistent
  <2>9. DrainedIsQuiet'
    BY <1>0, <2>1 DEF DrainedIsQuiet
  <2>. QED  BY <2>4, <2>5, <2>6, <2>7, <2>8, <2>9 DEF RuntimeInv
<1>12. CASE LeaveHandler(r)
  BY <1>12, SettleWithKeepsInv DEF LeaveHandler, Owning
<1>13. CASE LoadSettle(r)
  <2>1. CASE LoadedForSettle(dispatch[r].request)
    <3>1. Moved(r, "swapSettle")
      BY <1>0, <1>13, <2>1, GotoMoves DEF LoadSettle, Labels, Owning
    <3>2. dispatch[r].effect \in {"unknown", world}
      BY <1>0, <1>13 DEF LoadSettle, OwnerConsistent, Owning
    <3>. QED  BY <1>a, <1>13, <2>1, <3>1, <3>2, MoveKeepsInv DEF LoadSettle, Labels, Owning
  <2>2. CASE ~LoadedForSettle(dispatch[r].request)
    <3>1. Moved(r, "idle")
      BY <1>0, <1>13, <2>2, DoneMoves DEF LoadSettle
    <3>. QED  BY <1>13, <2>2, <3>1, MoveKeepsInv DEF LoadSettle, Labels, Owning
  <2>. QED  BY <2>1, <2>2
<1>14. CASE SwapSettle(r)
  <2>1. CASE Settle(dispatch[r].version, dispatch[r].effect) /\ answers' = answers \cup {dispatch[r].effect}
    <3>. DEFINE e == dispatch[r].effect
    <3>1. /\ Moved(r, "idle") /\ dispatch[r].at = "swapSettle"
          /\ UNCHANGED <<checking, life, worldVars, overlapped>>
      BY <1>0, <1>14, DoneMoves DEF SwapSettle
    <3>2. /\ e \in {"unknown", world} /\ e \in Effects
          /\ record.version # 0 /\ record.receipt = None
      BY <1>0, <3>1 DEF OwnerConsistent, Owning, RuntimeTypeOK, Dispatching
    <3>3. answers' = {e}
      BY <1>0, <2>1, <3>2 DEF AnswersAreDurable, RuntimeTypeOK
    <3>4. Settle(dispatch[r].version, e)
      BY <2>1
    <3>. HIDE DEF e
    <3>5. /\ record' \in RecordType
          /\ record'.version # 0 /\ record'.phase = "settled" /\ record'.receipt = e
          /\ record'.reconciliation = None /\ record'.request = record.request
      BY <1>0, <3>2, <3>4, SettleShape DEF RuntimeTypeOK
    <3>6. \A q \in Runtimes : dispatch'[q].at \notin Owning
      BY <1>0, <3>1 DEF OwnerConsistent, Moved, Owning
    <3>7. RuntimeTypeOK'
      BY <1>0, <3>1, <3>2, <3>3, <3>5 DEF RuntimeTypeOK, Moved, worldVars
    <3>8. OwnerConsistent'
      BY <1>0, <3>1, <3>6 DEF OwnerConsistent, Moved
    <3>9. RecordConsistent' /\ RunsOnce'
      BY <1>0, <3>1, <3>2, <3>5 DEF RecordConsistent, RunsOnce, worldVars
    <3>10. ~UnderWay'
      BY <3>6 DEF UnderWay
    <3>11. ReceiptIsTrue' /\ SoundReconciliation' /\ AnswersAreDurable'
      BY <3>1, <3>2, <3>3, <3>5, <3>10 DEF ReceiptIsTrue, SoundReconciliation, AnswersAreDurable, worldVars
    <3>12. CheckConsistent'
      BY <1>0, <3>1, <3>5, <3>10 DEF CheckConsistent, worldVars
    <3>13. DrainedIsQuiet'
      BY <1>0, <3>1 DEF DrainedIsQuiet, Moved
    <3>. QED  BY <3>7, <3>8, <3>9, <3>11, <3>12, <3>13 DEF RuntimeInv
  <2>2. CASE UNCHANGED <<record, answers>>
    <3>1. Moved(r, "idle")
      BY <1>0, <1>14, DoneMoves DEF SwapSettle
    <3>. QED  BY <1>14, <2>2, <3>1, MoveKeepsInv DEF SwapSettle, Labels, Owning
  <2>. QED  BY <1>14, <2>1, <2>2 DEF SwapSettle
<1>15. CASE Abort(r)
  BY <1>0, <1>15, AbortedKeepsInv DEF Abort
<1>. QED
  BY <1>1, <1>2, <1>3, <1>4, <1>5, <1>6, <1>7, <1>8, <1>9, <1>10, <1>11, <1>12, <1>13, <1>14, <1>15
  DEF DispatchStep

-----------------------------------------------------------------------------
(* The reconcile. *)

LEMMA ReconcileKeepsInv ==
  ASSUME RuntimeInv, NEW r \in Runtimes, ReconcileStep(r)
  PROVE  RuntimeInv'
<1>. USE DEF historyVars
<1>0. /\ RuntimeTypeOK /\ OwnerConsistent /\ RecordConsistent /\ RunsOnce /\ ReceiptIsTrue
      /\ AnswersAreDurable /\ CheckConsistent /\ SoundReconciliation /\ DrainedIsQuiet
  BY DEF RuntimeInv
<1>a. checking[r].at # "idle" => life[r] # "drained"
  BY <1>0 DEF DrainedIsQuiet
<1>b. record.phase # "absent" => record.version # 0
  BY <1>0 DEF RecordConsistent
<1>1. CASE StartReconcile(r)
  <2>1. Rechecked(r, "reading")
    BY <1>0, <1>1, CheckMoves DEF StartReconcile, Checks
  <2>. QED  BY <1>1, <2>1, CheckKeepsInv DEF StartReconcile, Checks
<1>2. CASE ReadInDoubt(r)
  <2>1. CASE record.phase # "absent" /\ ~Certain
    <3>1. Rechecked(r, "asking")
      BY <1>0, <1>2, <2>1, CheckMoves DEF ReadInDoubt, Checks
    <3>. QED  BY <1>a, <1>b, <1>2, <2>1, <3>1, CheckKeepsInv DEF ReadInDoubt, Checks
  <2>2. CASE ~(record.phase # "absent" /\ ~Certain)
    <3>1. Rechecked(r, "idle")
      BY <1>0, <1>2, <2>2, StopMoves DEF ReadInDoubt
    <3>. QED  BY <1>2, <3>1, CheckKeepsInv DEF ReadInDoubt, Checks
  <2>. QED  BY <2>1, <2>2
<1>3. CASE AskDomain(r)
  <2>1. /\ Rechecked(r, "loading") /\ checking'[r].effect = world
        /\ checking[r].at = "asking" /\ overlapped' = (overlapped \/ UnderWay)
        /\ UNCHANGED <<record, dispatch, life, worldVars, answers>>
    BY <1>0, <1>3, AskMoves DEF AskDomain
  <2>2. UnderWay' = UnderWay
    BY <2>1 DEF UnderWay
  <2>3. RuntimeTypeOK'
    BY <1>0, <2>1 DEF RuntimeTypeOK, Rechecked, worldVars
  <2>4. OwnerConsistent' /\ RunsOnce' /\ RecordConsistent'
    BY <1>0, <2>1 DEF OwnerConsistent, RunsOnce, RecordConsistent, worldVars
  <2>5. ReceiptIsTrue' /\ AnswersAreDurable' /\ SoundReconciliation'
    BY <1>0, <2>1, <2>2 DEF ReceiptIsTrue, AnswersAreDurable, SoundReconciliation, worldVars
  <2>6. CheckConsistent'
    BY <1>0, <2>1, <2>2 DEF CheckConsistent, Rechecked, worldVars
  <2>7. DrainedIsQuiet'
    BY <1>0, <1>a, <2>1 DEF DrainedIsQuiet, Rechecked
  <2>. QED  BY <2>3, <2>4, <2>5, <2>6, <2>7 DEF RuntimeInv
<1>4. CASE GiveUpReconcile(r)
  <2>1. Rechecked(r, "idle")
    BY <1>0, <1>4, StopMoves DEF GiveUpReconcile
  <2>. QED  BY <1>4, <2>1, CheckKeepsInv DEF GiveUpReconcile, Checks
<1>5. CASE LoadReconcile(r)
  <2>1. CASE LoadedForReconcile
    <3>1. Rechecked(r, "swapping") /\ checking'[r].effect = checking[r].effect
      BY <1>0, <1>5, <2>1, CheckMoves DEF LoadReconcile, Checks
    <3>2. ~overlapped => checking[r].effect = world /\ ~UnderWay
      BY <1>0, <1>5 DEF LoadReconcile, CheckConsistent
    <3>. QED  BY <1>a, <1>b, <1>5, <2>1, <3>1, <3>2, CheckKeepsInv
              DEF LoadReconcile, LoadedForReconcile, Checks
  <2>2. CASE ~LoadedForReconcile
    <3>1. Rechecked(r, "idle")
      BY <1>0, <1>5, <2>2, StopMoves DEF LoadReconcile
    <3>. QED  BY <1>5, <3>1, CheckKeepsInv DEF LoadReconcile, Checks
  <2>. QED  BY <2>1, <2>2
<1>6. CASE SwapReconcile(r)
  <2>1. CASE Reconcile(checking[r].version, checking[r].effect)
    <3>. DEFINE e == checking[r].effect
    <3>1. /\ Rechecked(r, "idle") /\ checking[r].at = "swapping"
          /\ UNCHANGED <<dispatch, life, worldVars, historyVars>>
      BY <1>0, <1>6, StopMoves DEF SwapReconcile
    <3>2. /\ e \in {"none", "committed"} /\ record.version # 0
          /\ ~overlapped => e = world /\ ~UnderWay
      BY <1>0, <3>1 DEF CheckConsistent, RuntimeTypeOK, Reconciling
    <3>3. Reconcile(checking[r].version, e)
      BY <2>1
    <3>. HIDE DEF e
    <3>4. /\ record' \in RecordType /\ record'.version # 0 /\ record'.reconciliation = e
          /\ record'.phase = record.phase /\ record'.request = record.request
          /\ record'.receipt = record.receipt
      BY <1>0, <3>2, <3>3, ReconcileShape DEF RuntimeTypeOK
    <3>5. UnderWay' = UnderWay
      BY <3>1 DEF UnderWay
    <3>6. RuntimeTypeOK'
      BY <1>0, <3>1, <3>4 DEF RuntimeTypeOK, Rechecked, worldVars
    <3>7. OwnerConsistent'
      BY <1>0, <3>1, <3>4 DEF OwnerConsistent, worldVars
    <3>8. RecordConsistent' /\ RunsOnce'
      BY <1>0, <3>1, <3>2, <3>4 DEF RecordConsistent, RunsOnce, worldVars
    <3>9. ReceiptIsTrue' /\ AnswersAreDurable'
      BY <1>0, <3>1, <3>4, <3>5 DEF ReceiptIsTrue, AnswersAreDurable, worldVars
    <3>10. SoundReconciliation'
      BY <3>1, <3>2, <3>4, <3>5 DEF SoundReconciliation, worldVars
    <3>11. CheckConsistent'
      BY <1>0, <3>1, <3>4, <3>5 DEF CheckConsistent, Rechecked, worldVars
    <3>12. DrainedIsQuiet'
      BY <1>0, <3>1 DEF DrainedIsQuiet, Rechecked
    <3>. QED  BY <3>6, <3>7, <3>8, <3>9, <3>10, <3>11, <3>12 DEF RuntimeInv
  <2>2. CASE UNCHANGED record
    <3>1. Rechecked(r, "idle")
      BY <1>0, <1>6, StopMoves DEF SwapReconcile
    <3>. QED  BY <1>6, <2>2, <3>1, CheckKeepsInv DEF SwapReconcile, Checks
  <2>. QED  BY <1>6, <2>1, <2>2 DEF SwapReconcile
<1>. QED  BY <1>1, <1>2, <1>3, <1>4, <1>5, <1>6 DEF ReconcileStep

-----------------------------------------------------------------------------
(* The life of a runtime, and the theorem. *)

LEMMA LifeKeepsInv ==
  ASSUME RuntimeInv, NEW r \in Runtimes, LifeStep(r)
  PROVE  RuntimeInv'
<1>. USE DEF historyVars, worldVars
<1>0. /\ RuntimeTypeOK /\ OwnerConsistent /\ RecordConsistent /\ RunsOnce /\ ReceiptIsTrue
      /\ AnswersAreDurable /\ CheckConsistent /\ SoundReconciliation /\ DrainedIsQuiet
  BY DEF RuntimeInv
<1>1. /\ UNCHANGED <<record, worldVars, historyVars>>
      /\ life' \in [Runtimes -> {"open", "closing", "drained"}]
      /\ \A q \in Runtimes : q # r => life'[q] = life[q]
      /\ checking' = checking \/ Rechecked(r, "idle")
      /\ Moved(r, dispatch[r].at) \/ dispatch' = dispatch \/ Moved(r, "idle")
      /\ life'[r] = "drained" => dispatch'[r].at = "idle" /\ checking'[r].at = "idle"
  <2>1. CASE Close(r)
    <3>1. Moved(r, dispatch[r].at)
      BY <1>0, <2>1, AbortMoves DEF Close
    <3>. QED  BY <1>0, <2>1, <3>1 DEF Close, RuntimeTypeOK
  <2>2. CASE Drained(r)
    BY <1>0, <2>2 DEF Drained, RuntimeTypeOK
  <2>3. CASE Restart(r)
    <3>1. Moved(r, "idle") /\ Rechecked(r, "idle")
      BY <1>0, <2>3, DoneMoves, StopMoves DEF Restart
    <3>. QED  BY <1>0, <2>3, <3>1 DEF Restart, RuntimeTypeOK
  <2>. QED  BY <2>1, <2>2, <2>3 DEF LifeStep
<1>2. RuntimeTypeOK'
  BY <1>0, <1>1 DEF RuntimeTypeOK, Moved, Rechecked
<1>3. /\ \A q \in Runtimes : dispatch'[q].at = dispatch[q].at \/ dispatch'[q].at = "idle"
      /\ \A q \in Runtimes : dispatch'[q].at # "idle" =>
           dispatch'[q].request = dispatch[q].request /\ dispatch'[q].effect = dispatch[q].effect
  BY <1>1 DEF Moved
<1>4. /\ \A q \in Runtimes : checking'[q].at = checking[q].at \/ checking'[q].at = "idle"
      /\ \A q \in Runtimes : checking'[q].at # "idle" => checking'[q].effect = checking[q].effect
  BY <1>1 DEF Rechecked
<1>5. UnderWay' => UnderWay
  BY <1>3 DEF UnderWay, Owning
<1>6. OwnerConsistent'
  BY <1>0, <1>1, <1>3 DEF OwnerConsistent, Owning
<1>7. RecordConsistent' /\ RunsOnce'
  BY <1>0, <1>1 DEF RecordConsistent, RunsOnce
<1>8. ReceiptIsTrue' /\ SoundReconciliation' /\ AnswersAreDurable'
  BY <1>0, <1>1, <1>5 DEF ReceiptIsTrue, SoundReconciliation, AnswersAreDurable
<1>9. CheckConsistent'
  BY <1>0, <1>1, <1>4, <1>5 DEF CheckConsistent
<1>10. DrainedIsQuiet'
  BY <1>0, <1>1, <1>3, <1>4 DEF DrainedIsQuiet
<1>. QED  BY <1>2, <1>6, <1>7, <1>8, <1>9, <1>10 DEF RuntimeInv

LEMMA InitInv == RuntimeInit => RuntimeInv
<1>. SUFFICES ASSUME RuntimeInit PROVE RuntimeInv
  OBVIOUS
<1>1. record \in RecordType
  BY DEF RuntimeInit, JournalInit, RecordType
<1>2. NoDispatch \in Dispatching /\ NoCheck \in Reconciling
  BY DEF NoDispatch, Dispatching, NoCheck, Reconciling, Effects
<1>3. RuntimeTypeOK
  BY <1>1, <1>2 DEF RuntimeInit, RuntimeTypeOK
<1>4. \A r \in Runtimes : dispatch[r].at = "idle" /\ checking[r].at = "idle"
  BY DEF RuntimeInit, NoDispatch, NoCheck
<1>5. ~UnderWay /\ OwnerConsistent /\ CheckConsistent /\ DrainedIsQuiet
  BY <1>4 DEF UnderWay, Owning, OwnerConsistent, CheckConsistent, DrainedIsQuiet
<1>6. RecordConsistent /\ RunsOnce /\ ReceiptIsTrue /\ AnswersAreDurable /\ SoundReconciliation
  BY DEF RuntimeInit, JournalInit, RecordConsistent, RunsOnce, ReceiptIsTrue, AnswersAreDurable,
     SoundReconciliation
<1>. QED  BY <1>3, <1>5, <1>6 DEF RuntimeInv

\* The inductive invariant holds for any number of processes and requests.
THEOREM RuntimeInvariant == RuntimeSpec => []RuntimeInv
<1>1. RuntimeInit => RuntimeInv
  BY InitInv
<1>2. RuntimeInv /\ [RuntimeNext]_runtimeVars => RuntimeInv'
  <2>. SUFFICES ASSUME RuntimeInv, [RuntimeNext]_runtimeVars PROVE RuntimeInv'
    OBVIOUS
  <2>1. CASE RuntimeNext
    BY <2>1, DispatchKeepsInv, ReconcileKeepsInv, LifeKeepsInv DEF RuntimeNext
  <2>2. CASE UNCHANGED runtimeVars
    BY <2>2
    DEF runtimeVars, worldVars, historyVars, RuntimeInv, RuntimeTypeOK, RunsOnce, OwnerConsistent,
        RecordConsistent, ReceiptIsTrue, AnswersAreDurable, CheckConsistent, SoundReconciliation,
        DrainedIsQuiet, UnderWay
  <2>. QED  BY <2>1, <2>2
<1>. QED  BY <1>1, <1>2, PTL DEF RuntimeSpec

\* An invocation id is handled at most once, whatever crashes and is retried.
THEOREM HandledOnce == RuntimeSpec => []RunsOnce
<1>1. RuntimeInv => RunsOnce
  BY DEF RuntimeInv
<1>. QED  BY <1>1, RuntimeInvariant, PTL

\* A handler that runs runs on a prepared record of its own call.
THEOREM HandlerIsPrepared == RuntimeSpec => []PreparedBeforeHandler
<1>1. RuntimeInv => PreparedBeforeHandler
  BY DEF RuntimeInv, OwnerConsistent, PreparedBeforeHandler, Owning
<1>. QED  BY <1>1, RuntimeInvariant, PTL

\* A certain receipt is true, and final for the world as well.
THEOREM ReceiptsAreTrue == RuntimeSpec => []ReceiptIsTrue
<1>1. RuntimeInv => ReceiptIsTrue
  BY DEF RuntimeInv
<1>. QED  BY <1>1, RuntimeInvariant, PTL

\* What callers were told is what the journal holds.
THEOREM AnswersDurable == RuntimeSpec => []AnswersAreDurable
<1>1. RuntimeInv => AnswersAreDurable
  BY DEF RuntimeInv
<1>. QED  BY <1>1, RuntimeInvariant, PTL

\* A conclusion reached when the dispatch was over is true for good.
THEOREM ReconciliationSound == RuntimeSpec => []SoundReconciliation
<1>1. RuntimeInv => SoundReconciliation
  BY DEF RuntimeInv
<1>. QED  BY <1>1, RuntimeInvariant, PTL

\* When a drain ends, no handler of that process runs, and nothing begins to.
THEOREM DrainsAreQuiet == RuntimeSpec => []DrainedIsQuiet
<1>1. RuntimeInv => DrainedIsQuiet
  BY DEF RuntimeInv
<1>. QED  BY <1>1, RuntimeInvariant, PTL

-----------------------------------------------------------------------------
(* KernelModuleHost *)

HostStatuses == {"registered", "activating", "active", "readying", "ready", "suspending", "suspended",
                 "disposing", "disposed", "failed"}
HostRecord == [module : Modules \cup {NoRecord}, generation : Nat, status : HostStatuses, context : BOOLEAN]
WalkOf(phases) == [at : phases, i : Nat, record : Records \cup {NoRecord}]
Replacing == [at : {"none", "activating", "readying", "releasing", "done", "dropping", "failed"},
              previous : Records \cup {NoRecord}]

HostTypes ==
  /\ current \in [Modules -> Records]
  /\ rec \in [Records -> HostRecord]
  /\ entries \subseteq Records
  /\ active \in [Modules -> Records \cup {NoRecord}]
  /\ starter \in WalkOf({"none", "activating", "readying", "rolling", "started", "failed"})
  /\ suspender \in WalkOf({"none", "suspending"})
  /\ disposer \in WalkOf({"none", "waiting", "disposing", "done"})
  /\ replacer \in [Replacements -> Replacing]
  /\ crossed \subseteq Modules

\* The record has not left its activate hook.
Young(r) == rec[r].status \in {"registered", "activating"}

\* The record of a generation that has begun.
Begun(r) == r \in Records /\ rec[r].module \in Modules

\* A record belongs to one module, and so do the current one, the visible one and the one
\* it replaces; a module is replaced only once its first record is no longer young; what is
\* registered belongs to a context that is active.
BelongInv ==
  /\ \A m \in Modules : rec[m].module = m /\ rec[current[m]].module = m
  /\ \A m \in Modules : active[m] # NoRecord => active[m] \in entries /\ rec[active[m]].module = m
  /\ \A e \in entries : rec[e].context
  /\ \A r \in Replacements :
       IF replacer[r].at = "none"
       THEN rec[r].module = NoRecord /\ rec[r].status = "registered" /\ ~rec[r].context
       ELSE /\ rec[r].module \in Modules /\ replacer[r].previous \in Records
            /\ rec[replacer[r].previous].module = rec[r].module /\ ~Young(rec[r].module)

\* Where startOnce is: it alone activates the first records, in the order of the plan, and
\* before it has begun nothing has happened to them.
StartInv ==
  /\ \A m \in Modules : Young(m) => current[m] = m
  /\ \A r \in Replacements : rec[r].status = "activating" => replacer[r].at = "activating"
  /\ \A m \in Modules : rec[m].status = "activating" => starter.at = "activating" /\ starter.record = m
  /\ starter.at = "none" /\ ~Disposed => \A m \in Modules : rec[m].status = "registered"
  /\ starter.at \in {"activating", "readying", "rolling"} =>
       /\ starter.i \in 1..Len(Order) /\ Begun(starter.record)
       /\ disposer.at \in {"none", "waiting"}
  /\ starter.at = "activating" =>
       /\ starter.record = Order[starter.i] /\ rec[starter.record].status = "activating"
       /\ \A j \in 1..Len(Order) : j > starter.i => rec[Order[j]].status = "registered"
  /\ suspender.at = "suspending" =>
       suspender.i \in 1..Len(Order) /\ Begun(suspender.record) /\ ~Young(suspender.record)

\* A module on which no two calls crossed: at most one replacement is under way, one
\* generation ahead of the current record; everything else registered is of the current
\* generation or of one before; and the visible service is the current one, unless that
\* registered none and the one before it is still being released.
Older(m) ==
  /\ \A r \in Replacements : InFlight(r) /\ rec[r].module = m =>
       /\ replacer[r].previous = current[m] /\ rec[r].generation = rec[current[m]].generation + 1
       /\ ~Disposed /\ \A q \in Replacements : InFlight(q) /\ rec[q].module = m => q = r
  /\ \A e \in entries : rec[e].module = m =>
       rec[e].generation <= rec[current[m]].generation \/ (e \in Replacements /\ InFlight(e))
  /\ \A r \in Replacements : replacer[r].at = "releasing" /\ rec[r].module = m =>
       rec[replacer[r].previous].generation < rec[current[m]].generation
  /\ active[m] \in {NoRecord, current[m]} \/
       /\ current[m] \notin entries
       /\ \E r \in Replacements : replacer[r].at = "releasing" /\ replacer[r].previous = active[m]

\* What dispose has passed has no active context.
DisposeInv ==
  /\ disposer.at = "disposing" => disposer.i \in 1..Len(Order) /\ Begun(disposer.record)
  /\ disposer.at = "disposing" /\ Order[disposer.i] \notin crossed => disposer.record = RecordAt(disposer.i)
  /\ \A j \in 1..Len(Order) :
       Order[j] \notin crossed /\ (disposer.at = "done" \/ (disposer.at = "disposing" /\ j > disposer.i))
         => ~rec[RecordAt(j)].context

\* The inductive invariant of the module host.
HostInv ==
  /\ HostTypes
  /\ BelongInv
  /\ StartInv
  /\ DisposeInv
  /\ \A m \in Modules \ crossed : Older(m)

\* The plan names every module once.
LEMMA OrderFacts ==
  /\ Len(Order) \in Nat /\ Len(Order) >= 1
  /\ \A i \in 1..Len(Order) : Order[i] \in Modules
  /\ \A m \in Modules : \E i \in 1..Len(Order) : Order[i] = m
  /\ \A i, j \in 1..Len(Order) : Order[i] = Order[j] => i = j
<1>1. Order \in Seq(Modules) /\ Order # <<>>
  BY HostAssumption
<1>2. Len(Order) \in Nat /\ DOMAIN Order = 1..Len(Order)
  BY <1>1
<1>3. Len(Order) >= 1
  BY <1>1, <1>2
<1>4. \A i \in 1..Len(Order) : Order[i] \in Modules
  BY <1>1, <1>2
<1>5. \A m \in Modules : \E i \in 1..Len(Order) : Order[i] = m
  BY <1>2 DEF Modules, ToSet
<1>6. \A i, j \in 1..Len(Order) : Order[i] = Order[j] => i = j
  BY HostAssumption, <1>2 DEF IsInjective
<1>. QED
  BY <1>2, <1>3, <1>4, <1>5, <1>6

\* A non-empty set of places has a last one.
LEMMA LastPlace ==
  ASSUME NEW n \in Nat, NEW S, S \subseteq 1..n, S # {}
  PROVE  Max(S) \in S /\ \A y \in S : y <= Max(S)
<1>. DEFINE T == {n - x : x \in S}
<1>1. T \subseteq Nat /\ T # {}
  <2>1. \A x \in S : x \in 1..n
    OBVIOUS
  <2>2. \A x \in S : n - x \in Nat
    BY <2>1
  <2>. QED
    BY <2>2
<1>2. PICK t \in T : \A y \in T : <<y, t>> \notin OpToRel(<, Nat)
  <2>. HIDE DEF T
  <2>. QED
    BY <1>1, NatLessThanWellFounded, WFMin
<1>3. \A y \in T : ~(y < t)
  BY <1>1, <1>2 DEF OpToRel
<1>4. PICK x \in S : t = n - x
  BY <1>2
<1>5. \A y \in S : x >= y
  <2>. SUFFICES ASSUME NEW y \in S PROVE x >= y
    OBVIOUS
  <2>1. n - y \in T
    OBVIOUS
  <2>2. ~(n - y < n - x)
    BY <1>3, <1>4, <2>1
  <2>. QED
    BY <2>2
<1>6. \E z \in S : \A y \in S : z >= y
  BY <1>5
<1>7. Max(S) \in S /\ \A y \in S : Max(S) >= y
  BY <1>6 DEF Max
<1>. QED
  BY <1>7

\* Another status changes nothing else.
LEMMA StatusFields ==
  ASSUME NEW all \in [Records -> HostRecord], NEW r \in Records, NEW status \in HostStatuses
  PROVE  /\ WithStatus(all, r, status) \in [Records -> HostRecord]
         /\ \A x \in Records :
              /\ WithStatus(all, r, status)[x].module = all[x].module
              /\ WithStatus(all, r, status)[x].generation = all[x].generation
              /\ WithStatus(all, r, status)[x].context = all[x].context
              /\ WithStatus(all, r, status)[x].status = IF x = r THEN status ELSE all[x].status
BY DEF WithStatus, HostRecord

\* What cleanupModule does: contexts end, and what is registered goes when one of the
\* records has its module and generation.
LEMMA CleanupFields ==
  ASSUME HostTypes, NEW all \in [Records -> HostRecord], NEW gone, Cleanup(gone, all)
  PROVE  /\ rec' \in [Records -> HostRecord]
         /\ \A x \in Records :
              /\ rec'[x].module = all[x].module /\ rec'[x].generation = all[x].generation
              /\ rec'[x].status = all[x].status
              /\ rec'[x].context = IF x \in gone THEN FALSE ELSE all[x].context
         /\ entries' \subseteq entries
         /\ \A e \in entries : e \in entries' <=> ~\E r \in gone : SameOwner(e, r)
         /\ active' \in [Modules -> Records \cup {NoRecord}]
         /\ \A m \in Modules : active'[m] = IF active[m] \in entries /\ active[m] \notin entries'
                                           THEN NoRecord ELSE active[m]
<1>1. rec' = [r \in Records |-> IF r \in gone THEN [all[r] EXCEPT !.context = FALSE] ELSE all[r]]
  BY DEF Cleanup
<1>2. \A x \in Records :
        /\ rec'[x] \in HostRecord
        /\ rec'[x].module = all[x].module /\ rec'[x].generation = all[x].generation
        /\ rec'[x].status = all[x].status
        /\ rec'[x].context = IF x \in gone THEN FALSE ELSE all[x].context
  BY <1>1 DEF HostRecord
<1>3. rec' \in [Records -> HostRecord]
  BY <1>1, <1>2
<1>4. PICK owned : /\ owned = {e \in entries : \E r \in gone : SameOwner(e, r)}
                   /\ entries' = entries \ owned
                   /\ active' = [m \in Modules |-> IF active[m] \in owned THEN NoRecord ELSE active[m]]
  BY DEF Cleanup
<1>5. \A e \in entries : e \in entries' <=> ~\E r \in gone : SameOwner(e, r)
  BY <1>4
<1>6. active' \in [Modules -> Records \cup {NoRecord}]
  BY <1>4 DEF HostTypes
<1>7. \A m \in Modules : active[m] \in owned <=> active[m] \in entries /\ active[m] \notin entries'
  BY <1>4
<1>8. \A m \in Modules : active'[m] = IF active[m] \in entries /\ active[m] \notin entries'
                                      THEN NoRecord ELSE active[m]
  BY <1>4, <1>7
<1>. QED
  BY <1>2, <1>3, <1>4, <1>5, <1>6, <1>8

\* A step that registers nothing and begins no generation: what is registered and visible
\* may go, a record may leave its hook, a replacement may come nearer to its end; and who
\* disposes marks the modules of which a replacement is under way.
Calm ==
  /\ current' = current
  /\ \A x \in Records : rec'[x].module = rec[x].module /\ rec'[x].generation = rec[x].generation
  /\ \A x \in Records : Young(x)' => Young(x)
  /\ \A e \in entries' : e \in entries /\ rec'[e].context
  /\ \A m \in Modules : active'[m] # NoRecord => active'[m] = active[m] /\ active'[m] \in entries'
  /\ \A r \in Replacements :
       /\ replacer[r].at = "none" => rec'[r].status = rec[r].status /\ rec'[r].context = rec[r].context
       /\ replacer'[r].previous = replacer[r].previous
       /\ replacer'[r].at = "none" <=> replacer[r].at = "none"
       /\ InFlight(r)' => InFlight(r)
       /\ InFlight(r) => InFlight(r)' \/ r \notin entries'
       /\ replacer'[r].at = "releasing" => replacer[r].at = "releasing"
       /\ replacer[r].at = "releasing" => replacer'[r].at = "releasing" \/ replacer[r].previous \notin entries'
  /\ crossed \subseteq crossed'
  /\ Disposed' => Disposed \/ \A m \in Modules \ crossed' : ~BeingReplaced(m)

\* A calm step leaves every record with its module.
LEMMA CalmBelong ==
  ASSUME HostTypes, BelongInv, Calm
  PROVE  BelongInv'
<1>. USE DEF HostTypes
<1>0. Modules \subseteq Records /\ Replacements \subseteq Records /\ NoRecord \notin Records
  BY HostAssumption DEF Records
<1>1. \A m \in Modules : current[m] \in Records /\ active[m] \in Records \cup {NoRecord}
  OBVIOUS
<1>2. \A m \in Modules : rec'[m].module = m /\ rec'[current'[m]].module = m
  BY <1>0, <1>1 DEF BelongInv, Calm
<1>3. \A m \in Modules : active'[m] # NoRecord => active'[m] \in entries' /\ rec'[active'[m]].module = m
  BY <1>0, <1>1 DEF BelongInv, Calm
<1>4. \A e \in entries' : rec'[e].context
  BY DEF Calm
<1>5. ASSUME NEW r \in Replacements
      PROVE  IF replacer'[r].at = "none"
             THEN rec'[r].module = NoRecord /\ rec'[r].status = "registered" /\ ~rec'[r].context
             ELSE /\ rec'[r].module \in Modules /\ replacer'[r].previous \in Records
                  /\ rec'[replacer'[r].previous].module = rec'[r].module /\ rec'[rec'[r].module].status \notin {"registered", "activating"}
  <2>1. CASE replacer[r].at = "none"
    <3>1. rec[r].module = NoRecord /\ rec[r].status = "registered" /\ ~rec[r].context
      BY <2>1 DEF BelongInv
    <3>2. replacer'[r].at = "none" /\ rec'[r].status = rec[r].status /\ rec'[r].context = rec[r].context
      BY <2>1 DEF Calm
    <3>3. rec'[r].module = rec[r].module
      BY <1>0 DEF Calm
    <3>. QED
      BY <3>1, <3>2, <3>3
  <2>2. CASE replacer[r].at # "none"
    <3>1. /\ rec[r].module \in Modules /\ replacer[r].previous \in Records
          /\ rec[replacer[r].previous].module = rec[r].module /\ ~Young(rec[r].module)
      BY <2>2 DEF BelongInv
    <3>2. replacer'[r].at # "none" /\ replacer'[r].previous = replacer[r].previous
      BY <2>2 DEF Calm
    <3>3. rec'[r].module = rec[r].module /\ rec'[replacer[r].previous].module = rec[replacer[r].previous].module
      BY <1>0, <3>1 DEF Calm
    <3>4. \A m \in Modules : Young(m)' => Young(m)
      BY <1>0 DEF Calm
    <3>5. rec'[rec[r].module].status \notin {"registered", "activating"}
      BY <3>1, <3>4 DEF Young
    <3>6. rec'[r].module = rec[r].module => rec'[rec'[r].module].status \notin {"registered", "activating"}
      BY <3>5 DEF Young
    <3>. QED
      BY <3>1, <3>2, <3>3, <3>6
  <2>. QED
    BY <2>1, <2>2
<1>6. \A r \in Replacements :
         IF replacer'[r].at = "none"
         THEN rec'[r].module = NoRecord /\ rec'[r].status = "registered" /\ ~rec'[r].context
         ELSE /\ rec'[r].module \in Modules /\ replacer'[r].previous \in Records
              /\ rec'[replacer'[r].previous].module = rec'[r].module /\ rec'[rec'[r].module].status \notin {"registered", "activating"}
  BY <1>5
<1>. QED
  BY <1>2, <1>3, <1>4, <1>6 DEF BelongInv, Young

\* A calm step leaves the generations of a module in their order.
LEMMA CalmOlder ==
  ASSUME HostTypes, BelongInv, Calm, NEW m \in Modules, m \notin crossed', Older(m)
  PROVE  Older(m)'
<1>0. Modules \subseteq Records /\ Replacements \subseteq Records /\ NoRecord \notin Records
  BY HostAssumption DEF Records
<1>1. current'[m] = current[m] /\ current[m] \in Records
  BY DEF Calm, HostTypes
<1>2. rec'[current'[m]].generation = rec[current[m]].generation
  BY <1>1 DEF Calm
<1>3. ASSUME NEW r \in Replacements, InFlight(r)', rec'[r].module = m
      PROVE  /\ replacer'[r].previous = current'[m] /\ rec'[r].generation = rec'[current'[m]].generation + 1
             /\ ~Disposed' /\ \A q \in Replacements : InFlight(q)' /\ rec'[q].module = m => q = r
  <2>1. InFlight(r) /\ rec[r].module = m /\ rec'[r].generation = rec[r].generation
    BY <1>0, <1>3 DEF Calm
  <2>2. /\ replacer[r].previous = current[m] /\ rec[r].generation = rec[current[m]].generation + 1
        /\ ~Disposed /\ \A q \in Replacements : InFlight(q) /\ rec[q].module = m => q = r
    BY <2>1 DEF Older
  <2>3. replacer'[r].previous = replacer[r].previous
    BY DEF Calm
  <2>4. \A q \in Replacements : InFlight(q)' /\ rec'[q].module = m => q = r
    BY <1>0, <2>2 DEF Calm
  <2>5. ~Disposed'
    <3>1. BeingReplaced(m)
      BY <2>1 DEF BeingReplaced
    <3>. QED
      BY <3>1, <2>2 DEF Calm
  <2>. QED
    BY <1>1, <1>2, <2>1, <2>2, <2>3, <2>4, <2>5
<1>4. ASSUME NEW e \in entries', rec'[e].module = m
      PROVE  rec'[e].generation <= rec'[current'[m]].generation \/ (e \in Replacements /\ InFlight(e)')
  <2>1. e \in entries /\ e \in Records
    BY DEF Calm, HostTypes
  <2>2. rec[e].module = m /\ rec'[e].generation = rec[e].generation
    BY <1>4, <2>1 DEF Calm
  <2>3. rec[e].generation <= rec[current[m]].generation \/ (e \in Replacements /\ InFlight(e))
    BY <2>1, <2>2 DEF Older
  <2>4. e \in Replacements /\ InFlight(e) => InFlight(e)'
    BY DEF Calm
  <2>. QED
    BY <1>2, <2>2, <2>3, <2>4
<1>5. ASSUME NEW r \in Replacements, replacer'[r].at = "releasing", rec'[r].module = m
      PROVE  rec'[replacer'[r].previous].generation < rec'[current'[m]].generation
  <2>1. replacer[r].at = "releasing" /\ rec[r].module = m /\ replacer'[r].previous = replacer[r].previous
    BY <1>0, <1>5 DEF Calm
  <2>2. replacer[r].previous \in Records
    BY <2>1 DEF BelongInv
  <2>3. rec[replacer[r].previous].generation < rec[current[m]].generation
    BY <2>1 DEF Older
  <2>4. rec'[replacer[r].previous].generation = rec[replacer[r].previous].generation
    BY <2>2 DEF Calm
  <2>. QED
    BY <1>2, <2>1, <2>3, <2>4
<1>6. active'[m] \in {NoRecord, current'[m]} \/
        /\ current'[m] \notin entries'
        /\ \E r \in Replacements : replacer'[r].at = "releasing" /\ replacer'[r].previous = active'[m]
  <2>1. SUFFICES ASSUME active'[m] # NoRecord, active'[m] # current[m]
                 PROVE  /\ current[m] \notin entries'
                        /\ \E r \in Replacements : replacer'[r].at = "releasing" /\ replacer'[r].previous = active'[m]
    BY <1>1
  <2>2. active'[m] = active[m] /\ active[m] \in entries'
    BY <2>1 DEF Calm
  <2>3. current[m] \notin entries /\ \E r \in Replacements : replacer[r].at = "releasing" /\ replacer[r].previous = active[m]
    BY <2>1, <2>2 DEF Older
  <2>4. PICK r \in Replacements : replacer[r].at = "releasing" /\ replacer[r].previous = active[m]
    BY <2>3
  <2>5. replacer'[r].at = "releasing" /\ replacer'[r].previous = replacer[r].previous
    BY <2>2, <2>4 DEF Calm
  <2>. QED
    BY <2>2, <2>3, <2>4, <2>5 DEF Calm
<1>. QED
  BY <1>3, <1>4, <1>5, <1>6 DEF Older

\* A step outside the start that leaves the young records alone keeps where the start is.
LEMMA CalmStart ==
  ASSUME HostTypes, BelongInv, StartInv, Calm, starter' = starter,
         \/ \A m \in Modules : Young(m) => rec'[m].status = rec[m].status
         \/ Disposed' /\ starter.at \notin {"activating", "readying", "rolling"},
         \A r \in Records : rec'[r].status = "activating" => rec[r].status = "activating",
         \A r \in Replacements : rec'[r].status = "activating" => replacer'[r].at = replacer[r].at,
         starter.at \in {"activating", "readying", "rolling"} => disposer'.at \in {"none", "waiting"},
         Disposed => Disposed',
         suspender'.at = "suspending" =>
            suspender'.i \in 1..Len(Order) /\ Begun(suspender'.record) /\ ~Young(suspender'.record)
  PROVE  StartInv'
<1>0. Modules \subseteq Records /\ Replacements \subseteq Records
  BY DEF Records
<1>1. \A m \in Modules : Young(m)' => current'[m] = m
  BY <1>0 DEF StartInv, Calm
<1>2. \A r \in Replacements : rec'[r].status = "activating" => replacer'[r].at = "activating"
  BY <1>0 DEF StartInv
<1>3. \A m \in Modules : rec'[m].status = "activating" => starter'.at = "activating" /\ starter'.record = m
  BY <1>0 DEF StartInv
<1>4. starter'.at = "none" /\ ~Disposed' => \A m \in Modules : rec'[m].status = "registered"
  BY DEF StartInv, Young
<1>5. starter'.at \in {"activating", "readying", "rolling"} =>
       /\ starter'.i \in 1..Len(Order) /\ starter'.record \in Records /\ rec'[starter'.record].module \in Modules
       /\ disposer'.at \in {"none", "waiting"}
  BY DEF StartInv, Begun, Calm
<1>6. starter'.at = "activating" =>
       /\ starter'.record = Order[starter'.i] /\ rec'[starter'.record].status = "activating"
       /\ \A j \in 1..Len(Order) : j > starter'.i => rec'[Order[j]].status = "registered"
  BY OrderFacts DEF StartInv, Young
<1>7. suspender'.at = "suspending" =>
       /\ suspender'.i \in 1..Len(Order) /\ suspender'.record \in Records
       /\ rec'[suspender'.record].module \in Modules /\ rec'[suspender'.record].status \notin {"registered", "activating"}
  BY DEF Calm, Young, Begun
<1>. QED
  BY <1>1, <1>2, <1>3, <1>4, <1>5, <1>6, <1>7 DEF StartInv, Young, Begun

\* What dispose has passed stays without context, when none becomes active.
LEMMA CalmDispose ==
  ASSUME HostTypes, DisposeInv, disposer' = disposer, crossed \subseteq crossed',
         \A x \in Records : rec[x].module \in Modules => rec'[x].module \in Modules,
         \/ disposer.at \in {"none", "waiting"}
         \/ /\ \A m \in Modules \ crossed' : current'[m] = current[m]
            /\ \A x \in Records : rec'[x].context => rec[x].context
  PROVE  DisposeInv'
<1>1. disposer'.at = "disposing" => disposer'.i \in 1..Len(Order) /\ disposer'.record \in Records /\ rec'[disposer'.record].module \in Modules
  BY DEF DisposeInv, Begun
<1>2. disposer'.at = "disposing" /\ Order[disposer'.i] \notin crossed' => disposer'.record = current'[Order[disposer'.i]]
  BY <1>1, OrderFacts DEF DisposeInv, RecordAt
<1>3. \A j \in 1..Len(Order) :
       Order[j] \notin crossed' /\ (disposer'.at = "done" \/ (disposer'.at = "disposing" /\ j > disposer'.i))
         => ~rec'[current'[Order[j]]].context
  BY OrderFacts DEF DisposeInv, RecordAt, HostTypes
<1>. QED
  BY <1>1, <1>2, <1>3 DEF DisposeInv, RecordAt, Begun

\* What the invariant says of the records, and of the record at a place of the plan.
LEMMA RecordFacts ==
  ASSUME HostInv
  PROVE  /\ Modules \subseteq Records /\ Replacements \subseteq Records /\ NoRecord \notin Records
         /\ rec \in [Records -> HostRecord] /\ NoRecord \notin Modules /\ Modules \cap Replacements = {}
         /\ \A i \in 1..Len(Order) : Order[i] \in Modules /\ RecordAt(i) = current[Order[i]]
                                     /\ RecordAt(i) \in Records /\ rec[RecordAt(i)].module = Order[i]
         /\ \A r \in Replacements : rec[r].module \in Modules <=> replacer[r].at # "none"
<1>1. /\ Modules \subseteq Records /\ Replacements \subseteq Records
      /\ NoRecord \notin Records /\ NoRecord \notin Modules /\ Modules \cap Replacements = {}
  BY HostAssumption DEF Records
<1>2. \A i \in 1..Len(Order) : Order[i] \in Modules /\ RecordAt(i) = current[Order[i]]
                               /\ RecordAt(i) \in Records /\ rec[RecordAt(i)].module = Order[i]
  BY OrderFacts DEF RecordAt, HostInv, HostTypes, BelongInv
<1>3. \A r \in Replacements : rec[r].module \in Modules <=> replacer[r].at # "none"
  BY <1>1 DEF HostInv, BelongInv
<1>. QED
  BY <1>1, <1>2, <1>3 DEF HostInv, HostTypes

\* A calm step keeps the invariant, when it keeps its types and where start and dispose are.
LEMMA CalmKeeps ==
  ASSUME HostInv, HostTypes', Calm, StartInv', DisposeInv'
  PROVE  HostInv'
<1>1. BelongInv'
  BY CalmBelong DEF HostInv
<1>2. \A m \in Modules \ crossed' : Older(m)'
  <2>1. SUFFICES ASSUME NEW m \in Modules, m \notin crossed' PROVE Older(m)'
    OBVIOUS
  <2>2. Older(m)
    BY <2>1 DEF HostInv, Calm
  <2>. QED
    BY <2>1, <2>2, CalmOlder DEF HostInv
<1>. QED
  BY <1>1, <1>2 DEF HostInv

\* A cleanup of records that have begun, after a change of their status only, is calm but
\* for what the step does to the replacements.
LEMMA CalmCleanup ==
  ASSUME HostInv, NEW all \in [Records -> HostRecord], NEW gone \in SUBSET Records, Cleanup(gone, all),
         \A x \in Records : /\ all[x].module = rec[x].module /\ all[x].generation = rec[x].generation
                            /\ all[x].context = rec[x].context
                            /\ all[x].status = rec[x].status \/ (rec[x].module \in Modules /\ all[x].status \notin {"registered", "activating"})
                            /\ x \in gone => rec[x].module \in Modules
  PROVE  /\ rec' \in [Records -> HostRecord] /\ entries' \subseteq Records
         /\ active' \in [Modules -> Records \cup {NoRecord}]
         /\ \A x \in Records :
              /\ rec'[x].module = rec[x].module /\ rec'[x].generation = rec[x].generation
              /\ rec'[x].status = all[x].status
              /\ rec'[x].context <=> rec[x].context /\ x \notin gone
              /\ Young(x)' => Young(x)
         /\ \A e \in entries' : e \in entries /\ rec'[e].context
         /\ \A e \in gone : e \notin entries'
         /\ \A m \in Modules : active'[m] # NoRecord => active'[m] = active[m] /\ active'[m] \in entries'
         /\ \A r \in Replacements :
              replacer[r].at = "none" => rec'[r].status = rec[r].status /\ rec'[r].context = rec[r].context
<1>0. HostTypes /\ BelongInv
  BY DEF HostInv
<1>1. /\ rec' \in [Records -> HostRecord]
      /\ \A x \in Records :
           /\ rec'[x].module = all[x].module /\ rec'[x].generation = all[x].generation
           /\ rec'[x].status = all[x].status
           /\ rec'[x].context = IF x \in gone THEN FALSE ELSE all[x].context
      /\ entries' \subseteq entries
      /\ \A e \in entries : e \in entries' <=> ~\E r \in gone : SameOwner(e, r)
      /\ active' \in [Modules -> Records \cup {NoRecord}]
      /\ \A m \in Modules : active'[m] = IF active[m] \in entries /\ active[m] \notin entries'
                                        THEN NoRecord ELSE active[m]
  BY <1>0, CleanupFields
<1>2. \A x \in Records : /\ rec'[x].module = rec[x].module /\ rec'[x].generation = rec[x].generation
                         /\ rec'[x].context <=> rec[x].context /\ x \notin gone
  <2>1. ASSUME NEW x \in Records
        PROVE  /\ all[x].module = rec[x].module /\ all[x].generation = rec[x].generation
               /\ all[x].context = rec[x].context /\ rec[x].context \in BOOLEAN
    BY <1>0 DEF HostTypes, HostRecord
  <2>. QED  BY ONLY <1>1, <2>1
<1>3. \A x \in Records : Young(x)' => Young(x)
  BY <1>1 DEF Young
<1>4. \A e \in gone : e \notin entries'
  BY <1>1 DEF SameOwner
<1>5. \A e \in entries' : e \in entries /\ e \in Records /\ rec'[e].context
  BY <1>0, <1>1, <1>2, <1>4 DEF BelongInv, HostTypes
<1>6. \A m \in Modules : active'[m] # NoRecord => active'[m] = active[m] /\ active'[m] \in entries'
  BY <1>0, <1>1 DEF BelongInv
<1>7. \A r \in Replacements :
         replacer[r].at = "none" => rec'[r].status = rec[r].status /\ rec'[r].context = rec[r].context
  <2>1. SUFFICES ASSUME NEW r \in Replacements, replacer[r].at = "none"
                 PROVE  rec'[r].status = rec[r].status /\ rec'[r].context = rec[r].context
    OBVIOUS
  <2>2. r \in Records /\ rec[r].module \notin Modules
    BY <2>1, RecordFacts
  <2>3. all[r].status = rec[r].status /\ all[r].context = rec[r].context /\ r \notin gone
    BY <2>2
  <2>. QED
    BY <1>1, <2>2, <2>3
<1>. QED
  BY <1>1, <1>2, <1>3, <1>4, <1>5, <1>6, <1>7

\* What a record is when its hook begins.
LEMMA ActivatingFields ==
  ASSUME NEW all \in [Records -> HostRecord], NEW r \in Records, NEW new,
         new = [all EXCEPT ![r].status = "activating", ![r].context = TRUE]
  PROVE  /\ new \in [Records -> HostRecord]
         /\ \A x \in Records :
              /\ new[x].module = all[x].module /\ new[x].generation = all[x].generation
              /\ new[x].status = IF x = r THEN "activating" ELSE all[x].status
              /\ x # r => new[x].context = all[x].context
         /\ new[r].context
<1>1. PICK mid : mid = WithStatus(all, r, "activating")
  OBVIOUS
<1>2. /\ mid \in [Records -> HostRecord]
      /\ \A x \in Records : /\ mid[x].module = all[x].module /\ mid[x].generation = all[x].generation
                            /\ mid[x].context = all[x].context
                            /\ mid[x].status = IF x = r THEN "activating" ELSE all[x].status
  BY <1>1, StatusFields DEF HostStatuses
<1>3. new = [mid EXCEPT ![r].context = TRUE]
  BY <1>1 DEF WithStatus
<1>4. \A x \in Records : new[x] = IF x = r THEN [mid[r] EXCEPT !.context = TRUE] ELSE mid[x]
  BY <1>2, <1>3
<1>5. [mid[r] EXCEPT !.context = TRUE] \in HostRecord /\ [mid[r] EXCEPT !.context = TRUE].context
  BY <1>2 DEF HostRecord
<1>6. new \in [Records -> HostRecord]
  BY <1>2, <1>3, <1>4, <1>5
<1>7. \A x \in Records :
              /\ new[x].module = all[x].module /\ new[x].generation = all[x].generation
              /\ new[x].status = IF x = r THEN "activating" ELSE all[x].status
              /\ x # r => new[x].context = all[x].context
  <2>1. /\ new[r].module = mid[r].module /\ new[r].generation = mid[r].generation
        /\ new[r].status = mid[r].status
    BY <1>2, <1>4 DEF HostRecord
  <2>2. \A x \in Records : x # r => new[x] = mid[x]
    BY <1>4
  <2>. QED
    BY <1>2, <2>1, <2>2
<1>. QED
  BY <1>4, <1>5, <1>6, <1>7

\* startOnce activates the modules one after the other.
LEMMA ActivatingKeeps ==
  ASSUME HostInv, NEW all \in [Records -> HostRecord], NEW i \in 1..Len(Order),
         starter.at \in {"none", "activating"}, disposer.at \in {"none", "waiting"},
         \A j \in 1..Len(Order) : j >= i => rec[Order[j]].status = "registered",
         \A x \in Records : /\ all[x].module = rec[x].module /\ all[x].generation = rec[x].generation
                            /\ all[x].context = rec[x].context
                            /\ all[x].status = rec[x].status \/
                                    /\ rec[x].module \in Modules /\ rec[x].status # "registered"
                                    /\ all[x].status \notin {"registered", "activating"},
         \A m \in Modules : all[m].status # "activating",
         StartGoes("activating", i), rec' = Activating(i, all),
         UNCHANGED <<current, entries, active, suspender, disposer, replacer, crossed>>
  PROVE  HostInv'
<1>0. HostTypes /\ BelongInv /\ StartInv /\ DisposeInv
  BY DEF HostInv
<1>1. /\ Modules \subseteq Records /\ Replacements \subseteq Records /\ NoRecord \notin Records
      /\ Modules \cap Replacements = {}
      /\ \A r \in Replacements : rec[r].module \in Modules <=> replacer[r].at # "none"
      /\ Order[i] \in Modules /\ RecordAt(i) = current[Order[i]]
  BY RecordFacts
<1>2. RecordAt(i) = Order[i] /\ rec[Order[i]].status = "registered" /\ rec[Order[i]].module = Order[i]
  BY <1>0, <1>1 DEF StartInv, Young, BelongInv
<1>3. rec' = [all EXCEPT ![Order[i]].status = "activating", ![Order[i]].context = TRUE]
  BY <1>2 DEF Activating
<1>4. /\ rec' \in [Records -> HostRecord]
      /\ \A x \in Records :
           /\ rec'[x].module = rec[x].module /\ rec'[x].generation = rec[x].generation
           /\ rec'[x].status = IF x = Order[i] THEN "activating" ELSE all[x].status
           /\ x # Order[i] => rec'[x].context = rec[x].context
      /\ rec'[Order[i]].context
  <2>1. Order[i] \in Records
    BY <1>1
  <2>2. /\ rec' \in [Records -> HostRecord]
        /\ \A x \in Records :
             /\ rec'[x].module = all[x].module /\ rec'[x].generation = all[x].generation
             /\ rec'[x].status = IF x = Order[i] THEN "activating" ELSE all[x].status
             /\ x # Order[i] => rec'[x].context = all[x].context
        /\ rec'[Order[i]].context
    BY <1>3, <2>1, ActivatingFields
  <2>. QED
    BY <2>2
<1>5. starter' = [at |-> "activating", i |-> i, record |-> Order[i]]
  BY <1>2, OrderFacts DEF StartGoes
<1>6. HostTypes'
  <2>1. starter' \in WalkOf({"none", "activating", "readying", "rolling", "started", "failed"})
    BY <1>1, <1>5 DEF WalkOf
  <2>. QED
    BY <1>0, <1>4, <2>1 DEF HostTypes, WalkOf, Replacing
<1>7. Calm
  <2>1. \A x \in Records : Young(x)' => Young(x)
    BY <1>2, <1>4 DEF Young
  <2>2. \A r \in Replacements : replacer[r].at = "none" => rec'[r].status = rec[r].status /\ rec'[r].context = rec[r].context
    BY <1>1, <1>2, <1>4
  <2>3. \A e \in entries' : e \in entries /\ rec'[e].context
    BY <1>0, <1>4 DEF HostTypes, BelongInv
  <2>4. \A m \in Modules : active'[m] # NoRecord => active'[m] = active[m] /\ active'[m] \in entries'
    BY <1>0 DEF BelongInv
  <2>. QED
    BY <1>4, <2>1, <2>2, <2>3, <2>4 DEF Calm, InFlight, Disposed
<1>8. StartInv'
  <2>1. \A m \in Modules : Young(m)' => current'[m] = m
    BY <1>0, <1>1, <1>7 DEF StartInv, Calm
  <2>2. \A r \in Replacements : rec'[r].status = "activating" => replacer'[r].at = "activating"
    <3>1. SUFFICES ASSUME NEW r \in Replacements, rec'[r].status = "activating" PROVE replacer[r].at = "activating"
      OBVIOUS
    <3>2. r \in Records /\ r # Order[i]
      BY <1>1
    <3>3. rec[r].status = "activating"
      BY <1>4, <3>1, <3>2
    <3>. QED
      BY <1>0, <3>3 DEF StartInv
  <2>3. \A m \in Modules : rec'[m].status = "activating" => m = Order[i]
    BY <1>1, <1>4
  <2>4. rec'[Order[i]].status = "activating" /\ rec'[Order[i]].module \in Modules
    BY <1>1, <1>2, <1>4
  <2>5. \A j \in 1..Len(Order) : j > i => rec'[Order[j]].status = "registered"
    <3>1. SUFFICES ASSUME NEW j \in 1..Len(Order), j > i PROVE rec'[Order[j]].status = "registered"
      OBVIOUS
    <3>2. Order[j] \in Modules /\ Order[j] # Order[i]
      BY <3>1, OrderFacts
    <3>3. Order[j] \in Records /\ rec[Order[j]].status = "registered"
      BY <1>1, <3>1, <3>2, OrderFacts
    <3>4. current[Order[j]] = Order[j]
      BY <1>0, <3>2, <3>3 DEF StartInv, Young
    <3>5. all[Order[j]].status = rec[Order[j]].status
      BY <3>3
    <3>. QED
      BY <1>4, <3>2, <3>3, <3>5
  <2>6. suspender'.at = "suspending" =>
          /\ suspender'.i \in 1..Len(Order) /\ suspender'.record \in Records
          /\ rec'[suspender'.record].module \in Modules
          /\ rec'[suspender'.record].status \notin {"registered", "activating"}
    BY <1>0, <1>7 DEF StartInv, Begun, Calm, Young
  <2>. QED
    BY <1>1, <1>5, <2>1, <2>2, <2>3, <2>4, <2>5, <2>6 DEF StartInv, Begun, Young
<1>9. DisposeInv'
  BY <1>0, <1>4, CalmDispose
<1>. QED
  BY <1>6, <1>7, <1>8, <1>9, CalmKeeps

\* A step that changes only the status of records that have begun is calm, whatever call
\* of replaceModule it belongs to, as long as that call stays under way or released.
LEMMA StatusesCalm ==
  ASSUME HostInv,
         \A x \in Records : /\ rec'[x].module = rec[x].module /\ rec'[x].generation = rec[x].generation
                            /\ rec'[x].context = rec[x].context
                            /\ rec'[x].status = rec[x].status \/
                                 /\ rec[x].module \in Modules
                                 /\ rec'[x].status \notin {"registered", "activating"},
         UNCHANGED <<current, entries, active, disposer, crossed>>,
         \A r \in Replacements : /\ replacer'[r].previous = replacer[r].previous
                                 /\ replacer'[r].at = "none" <=> replacer[r].at = "none"
                                 /\ InFlight(r)' <=> InFlight(r)
                                 /\ replacer'[r].at = "releasing" <=> replacer[r].at = "releasing"
  PROVE  Calm
<1>0. BelongInv /\ HostTypes
  BY DEF HostInv
<1>1. \A x \in Records : Young(x)' => Young(x)
  BY DEF Young
<1>2. \A r \in Replacements : replacer[r].at = "none" => rec'[r].status = rec[r].status /\ rec'[r].context = rec[r].context
  BY RecordFacts
<1>3. \A e \in entries' : e \in entries /\ rec'[e].context
  BY <1>0 DEF HostTypes, BelongInv
<1>4. \A m \in Modules : active'[m] # NoRecord => active'[m] = active[m] /\ active'[m] \in entries'
  BY <1>0 DEF BelongInv
<1>5. Disposed' => Disposed
  BY DEF Disposed
<1>. QED
  BY <1>1, <1>2, <1>3, <1>4, <1>5 DEF Calm

\* Once all are activated the start only changes where it is.
LEMMA LaterStart ==
  ASSUME HostInv, Calm, suspender' = suspender, replacer' = replacer,
         \A m \in Modules : rec'[m].status # "activating",
         \A r \in Replacements : rec'[r].status = "activating" => rec[r].status = "activating",
         starter'.at \in {"readying", "rolling", "started", "failed"},
         starter'.at \in {"readying", "rolling"} =>
            /\ starter'.i \in 1..Len(Order) /\ starter'.record \in Records
            /\ rec[starter'.record].module \in Modules /\ disposer'.at \in {"none", "waiting"}
  PROVE  StartInv'
<1>0. HostTypes /\ BelongInv /\ StartInv
  BY DEF HostInv
<1>1. \A m \in Modules : Young(m)' => current'[m] = m
  BY <1>0, RecordFacts DEF StartInv, Calm
<1>2. \A r \in Replacements : rec'[r].status = "activating" => replacer'[r].at = "activating"
  BY <1>0 DEF StartInv
<1>3. suspender'.at = "suspending" =>
          /\ suspender'.i \in 1..Len(Order) /\ suspender'.record \in Records
          /\ rec'[suspender'.record].module \in Modules
          /\ rec'[suspender'.record].status \notin {"registered", "activating"}
  BY <1>0 DEF StartInv, Begun, Calm, Young
<1>4. starter'.at \in {"readying", "rolling"} => rec'[starter'.record].module \in Modules
  BY DEF Calm
<1>5. starter'.at \notin {"none", "activating"}
  OBVIOUS
<1>. QED
  BY <1>1, <1>2, <1>3, <1>4, <1>5 DEF StartInv, Begun, Young

\* The start activates and readies the modules.
LEMMA StartHostKeeps == HostInv /\ StartHost => HostInv'
<1>. SUFFICES ASSUME HostInv, StartHost PROVE HostInv'
  OBVIOUS
<1>1. HostTypes /\ StartInv /\ starter.at = "none" /\ ~Disposed
  BY DEF HostInv, StartHost
<1>2. 1 \in 1..Len(Order)
  BY OrderFacts
<1>3. \A m \in Modules : rec[m].status = "registered"
  BY <1>1 DEF StartInv
<1>4. \A j \in 1..Len(Order) : rec[Order[j]].status = "registered"
  BY <1>3, OrderFacts
<1>5. rec \in [Records -> HostRecord] /\ disposer.at = "none"
  BY <1>1 DEF HostTypes, Disposed
<1>6. StartGoes("activating", 1) /\ rec' = Activating(1, rec)
      /\ UNCHANGED <<current, entries, active, suspender, disposer, replacer, crossed>>
  BY DEF StartHost
<1>7. \A m \in Modules : rec[m].status # "activating"
  BY <1>3
<1>. QED
  BY ONLY HostInv, <1>1, <1>2, <1>4, <1>5, <1>6, <1>7, ActivatingKeeps

LEMMA StartActivatedKeeps == HostInv /\ StartActivated => HostInv'
<1>. SUFFICES ASSUME HostInv, StartActivated PROVE HostInv'
  OBVIOUS
<1>1. HostTypes /\ StartInv /\ BelongInv /\ DisposeInv /\ starter.at = "activating"
  BY DEF HostInv, StartActivated
<1>2. /\ starter.i \in 1..Len(Order) /\ starter.record \in Records /\ rec[starter.record].module \in Modules
      /\ disposer.at \in {"none", "waiting"}
      /\ starter.record = Order[starter.i] /\ rec[starter.record].status = "activating"
      /\ \A j \in 1..Len(Order) : j > starter.i => rec[Order[j]].status = "registered"
      /\ \A m \in Modules : rec[m].status = "activating" => m = starter.record
  BY <1>1 DEF StartInv, Begun
<1>. PICK done : done = WithStatus(rec, starter.record, "active")
  OBVIOUS
<1>3. /\ done \in [Records -> HostRecord]
      /\ \A x \in Records :
              /\ done[x].module = rec[x].module /\ done[x].generation = rec[x].generation
              /\ done[x].context = rec[x].context
              /\ done[x].status = IF x = starter.record THEN "active" ELSE rec[x].status
  <2>1. PICK all, r : all = rec /\ r = starter.record
    OBVIOUS
  <2>2. all \in [Records -> HostRecord] /\ r \in Records /\ "active" \in HostStatuses
    BY <1>1, <1>2, <2>1 DEF HostTypes, HostStatuses
  <2>3. done = WithStatus(all, r, "active")
    BY ONLY <2>1, done = WithStatus(rec, starter.record, "active")
  <2> QED BY ONLY <2>1, <2>2, <2>3, StatusFields
<1>4. \A m \in Modules : done[m].status # "activating"
  BY <1>2, <1>3, RecordFacts
<1>5. UNCHANGED <<current, entries, active, suspender, disposer, culprit, replacer, crossed>>
  BY DEF StartActivated
<1>6. CASE starter.i < Len(Order)
  <2>1. rec' = Activating(starter.i + 1, done) /\ StartGoes("activating", starter.i + 1)
    BY <1>6 DEF StartActivated
  <2>2. starter.i + 1 \in 1..Len(Order)
    BY <1>2, <1>6, OrderFacts
  <2>3. \A j \in 1..Len(Order) : j >= starter.i + 1 => rec[Order[j]].status = "registered"
    BY <1>2
  <2>4. \A x \in Records : /\ done[x].module = rec[x].module /\ done[x].generation = rec[x].generation
                           /\ done[x].context = rec[x].context
                           /\ done[x].status = rec[x].status \/
                                /\ rec[x].module \in Modules /\ rec[x].status # "registered"
                                /\ done[x].status \notin {"registered", "activating"}
    BY <1>2, <1>3
  <2>. QED
    BY ONLY HostInv, <1>1, <1>2, <1>3, <1>4, <1>5, <2>1, <2>2, <2>3, <2>4, ActivatingKeeps
<1>7. CASE ~(starter.i < Len(Order))
  <2>1. rec' = WithStatus(done, RecordAt(1), "readying") /\ StartGoes("readying", 1)
    BY <1>7 DEF StartActivated
  <2>2. 1 \in 1..Len(Order)
    BY OrderFacts
  <2>3. RecordAt(1) \in Records /\ rec[RecordAt(1)].module \in Modules
    BY <2>2, RecordFacts
  <2>4. starter' = [at |-> "readying", i |-> 1, record |-> RecordAt(1)]
    BY <2>1 DEF StartGoes
  <2>5. /\ rec' \in [Records -> HostRecord]
        /\ \A x \in Records :
                /\ rec'[x].module = rec[x].module /\ rec'[x].generation = rec[x].generation
                /\ rec'[x].context = rec[x].context
                /\ rec'[x].status = IF x = RecordAt(1) THEN "readying" ELSE done[x].status
    <3>1. PICK c \in Records : c = RecordAt(1)
      BY <2>3
    <3>2. /\ WithStatus(done, c, "readying") \in [Records -> HostRecord]
          /\ \A x \in Records :
                  /\ WithStatus(done, c, "readying")[x].module = done[x].module
                  /\ WithStatus(done, c, "readying")[x].generation = done[x].generation
                  /\ WithStatus(done, c, "readying")[x].context = done[x].context
                  /\ WithStatus(done, c, "readying")[x].status = IF x = c THEN "readying" ELSE done[x].status
      BY <1>3, StatusFields DEF HostStatuses
    <3>3. rec' = WithStatus(done, c, "readying")
      BY <2>1, <3>1
    <3>. QED
      BY <1>3, <3>1, <3>2, <3>3
  <2>6. HostTypes'
    BY <1>1, <1>5, <2>3, <2>4, <2>5 DEF HostTypes, WalkOf
  <2>7. Calm
    <3>1. \A x \in Records : /\ rec'[x].module = rec[x].module /\ rec'[x].generation = rec[x].generation
                             /\ rec'[x].context = rec[x].context
                             /\ rec'[x].status = rec[x].status \/
                                 /\ rec[x].module \in Modules
                                 /\ rec'[x].status \notin {"registered", "activating"}
      BY <1>2, <1>3, <2>3, <2>5
    <3>. QED
      BY <1>5, <3>1, StatusesCalm DEF InFlight
  <2>8. StartInv'
    <3>1. \A m \in Modules : rec'[m].status # "activating"
      BY <1>4, <2>5, RecordFacts
    <3>2. \A r \in Replacements : rec'[r].status = "activating" => rec[r].status = "activating"
      BY <1>3, <2>5, RecordFacts
    <3>. QED
      BY <1>2, <1>5, <2>2, <2>3, <2>4, <2>7, <3>1, <3>2, LaterStart
  <2>9. DisposeInv'
    BY <1>1, <1>2, <1>5, <2>5, CalmDispose
  <2>. QED
    BY <2>6, <2>7, <2>8, <2>9, CalmKeeps
<1>. QED
  BY <1>6, <1>7

LEMMA StartReadyKeeps == HostInv /\ StartReady => HostInv'
<1>. SUFFICES ASSUME HostInv, StartReady PROVE HostInv'
  OBVIOUS
<1>1. HostTypes /\ StartInv /\ BelongInv /\ DisposeInv /\ starter.at = "readying"
  BY DEF HostInv, StartReady
<1>2. /\ starter.i \in 1..Len(Order) /\ starter.record \in Records /\ rec[starter.record].module \in Modules
      /\ disposer.at \in {"none", "waiting"}
      /\ \A m \in Modules : rec[m].status # "activating"
  BY <1>1 DEF StartInv, Begun
<1>. PICK done : done = WithStatus(rec, starter.record, "ready")
  OBVIOUS
<1>3. /\ done \in [Records -> HostRecord]
      /\ \A x \in Records :
              /\ done[x].module = rec[x].module /\ done[x].generation = rec[x].generation
              /\ done[x].context = rec[x].context
              /\ done[x].status = IF x = starter.record THEN "ready" ELSE rec[x].status
  BY <1>1, <1>2, StatusFields DEF HostTypes, HostStatuses
<1>5. UNCHANGED <<current, entries, active, suspender, disposer, culprit, replacer, crossed>>
  BY DEF StartReady
<1>6. /\ rec' \in [Records -> HostRecord]
      /\ \A x \in Records :
              /\ rec'[x].module = rec[x].module /\ rec'[x].generation = rec[x].generation
              /\ rec'[x].context = rec[x].context
              /\ rec'[x].status = rec[x].status \/
                   /\ rec[x].module \in Modules
                   /\ rec'[x].status \notin {"registered", "activating"}
      /\ starter' \in WalkOf({"none", "activating", "readying", "rolling", "started", "failed"})
      /\ starter'.at \in {"readying", "started"}
      /\ starter'.at = "readying" =>
           /\ starter'.i \in 1..Len(Order) /\ starter'.record \in Records
           /\ rec[starter'.record].module \in Modules
  <2>1. CASE starter.i < Len(Order)
    <3>1. starter.i + 1 \in 1..Len(Order)
      BY <1>2, <2>1, OrderFacts
    <3>2. PICK c \in Records : c = RecordAt(starter.i + 1) /\ rec[c].module \in Modules
      BY <3>1, RecordFacts
    <3>3. rec' = WithStatus(done, c, "readying") /\ StartGoes("readying", starter.i + 1)
      BY <2>1, <3>2 DEF StartReady
    <3>4. /\ WithStatus(done, c, "readying") \in [Records -> HostRecord]
          /\ \A x \in Records :
                  /\ WithStatus(done, c, "readying")[x].module = done[x].module
                  /\ WithStatus(done, c, "readying")[x].generation = done[x].generation
                  /\ WithStatus(done, c, "readying")[x].context = done[x].context
                  /\ WithStatus(done, c, "readying")[x].status = IF x = c THEN "readying" ELSE done[x].status
      BY <1>3, StatusFields DEF HostStatuses
    <3>5. starter' = [at |-> "readying", i |-> starter.i + 1, record |-> c]
      BY <1>2, <3>2, <3>3 DEF StartGoes
    <3>6. starter' \in WalkOf({"none", "activating", "readying", "rolling", "started", "failed"})
      BY <3>1, <3>5 DEF WalkOf
    <3>. QED
      BY <1>2, <1>3, <3>1, <3>2, <3>3, <3>4, <3>5, <3>6
  <2>2. CASE ~(starter.i < Len(Order))
    <3>1. rec' = done /\ starter' = [at |-> "started", i |-> 0, record |-> NoRecord]
      BY <2>2 DEF StartReady, StartGoes
    <3>2. starter' \in WalkOf({"none", "activating", "readying", "rolling", "started", "failed"})
      BY <3>1 DEF WalkOf
    <3>. QED
      BY <1>2, <1>3, <3>1, <3>2
  <2>. QED
    BY <2>1, <2>2
<1>7. HostTypes'
  BY <1>1, <1>5, <1>6 DEF HostTypes, WalkOf
<1>8. Calm
  BY <1>5, <1>6, StatusesCalm DEF InFlight
<1>9. StartInv'
  <2>1. \A m \in Modules : rec'[m].status # "activating"
    BY <1>2, <1>6, RecordFacts
  <2>2. \A r \in Replacements : rec'[r].status = "activating" => rec[r].status = "activating"
    BY <1>6, RecordFacts
  <2>. QED
    BY <1>2, <1>5, <1>6, <1>8, <2>1, <2>2, LaterStart
<1>10. DisposeInv'
  BY <1>1, <1>2, <1>5, <1>6, CalmDispose
<1>. QED
  BY <1>7, <1>8, <1>9, <1>10, CalmKeeps

\* A step of the start that cleans one record up, its own.
LEMMA RollingKeeps ==
  ASSUME HostInv, NEW all \in [Records -> HostRecord],
         starter.at \in {"activating", "readying", "rolling"},
         \A x \in Records : /\ all[x].module = rec[x].module /\ all[x].generation = rec[x].generation
                            /\ all[x].context = rec[x].context
                            /\ all[x].status = rec[x].status \/
                                 /\ rec[x].module \in Modules
                                 /\ all[x].status \notin {"registered", "activating"},
         \A m \in Modules : all[m].status # "activating",
         Cleanup({starter.record}, all) \/ (rec' = all /\ UNCHANGED <<entries, active>>),
         NEW n \in 0..Len(Order), StartGoes(IF n = 0 THEN "failed" ELSE "rolling", n),
         UNCHANGED <<current, suspender, disposer, replacer, crossed>>
  PROVE  HostInv'
<1>1. HostTypes /\ StartInv /\ BelongInv /\ DisposeInv
  BY DEF HostInv
<1>2. /\ starter.record \in Records /\ rec[starter.record].module \in Modules
      /\ disposer.at \in {"none", "waiting"}
  BY <1>1 DEF StartInv, Begun
<1>3. /\ starter' \in WalkOf({"none", "activating", "readying", "rolling", "started", "failed"})
      /\ starter'.at \in {"rolling", "failed"}
      /\ starter'.at = "rolling" =>
           /\ starter'.i \in 1..Len(Order) /\ starter'.record \in Records
           /\ rec[starter'.record].module \in Modules
  <2>1. CASE n = 0
    <3>1. starter' = [at |-> "failed", i |-> 0, record |-> NoRecord]
      BY <2>1 DEF StartGoes
    <3>. QED
      BY <3>1 DEF WalkOf
  <2>2. CASE n # 0
    <3>1. n \in 1..Len(Order)
      BY <2>2, OrderFacts
    <3>2. PICK c \in Records : c = RecordAt(n) /\ rec[c].module \in Modules
      BY <3>1, RecordFacts
    <3>3. starter' = [at |-> "rolling", i |-> n, record |-> c]
      BY <2>2, <3>2 DEF StartGoes
    <3>. QED
      BY <3>1, <3>2, <3>3, OrderFacts DEF WalkOf
  <2>. QED
    BY <2>1, <2>2
<1>4. /\ rec' \in [Records -> HostRecord] /\ entries' \subseteq Records
      /\ active' \in [Modules -> Records \cup {NoRecord}]
      /\ \A x \in Records : rec'[x].status = all[x].status
      /\ Calm
  <2>1. CASE Cleanup({starter.record}, all)
    <3>1. /\ rec' \in [Records -> HostRecord] /\ entries' \subseteq Records
          /\ active' \in [Modules -> Records \cup {NoRecord}]
          /\ \A x \in Records :
               /\ rec'[x].module = rec[x].module /\ rec'[x].generation = rec[x].generation
               /\ rec'[x].status = all[x].status
               /\ rec'[x].context <=> rec[x].context /\ x \notin {starter.record}
               /\ Young(x)' => Young(x)
          /\ \A e \in entries' : e \in entries /\ rec'[e].context
          /\ \A m \in Modules : active'[m] # NoRecord => active'[m] = active[m] /\ active'[m] \in entries'
          /\ \A r \in Replacements :
               replacer[r].at = "none" => rec'[r].status = rec[r].status /\ rec'[r].context = rec[r].context
      <4>1. \A x \in Records : x \in {starter.record} => rec[x].module \in Modules
        BY <1>2
      <4>2. {starter.record} \in SUBSET Records
        BY <1>2
      <4>. QED
        BY <2>1, <4>1, <4>2, CalmCleanup
    <3>2. Calm
      BY <3>1 DEF Calm, InFlight, Disposed
    <3>. QED
      BY <3>1, <3>2
  <2>2. CASE rec' = all /\ UNCHANGED <<entries, active>>
    <3>1. Calm
      BY <2>2, StatusesCalm DEF InFlight
    <3>. QED
      BY <1>1, <2>2, <3>1 DEF HostTypes
  <2>. QED
    BY <2>1, <2>2
<1>5. HostTypes'
  BY <1>1, <1>3, <1>4 DEF HostTypes, WalkOf
<1>6. StartInv'
  <2>1. \A m \in Modules : rec'[m].status # "activating"
    BY <1>4, RecordFacts
  <2>2. \A r \in Replacements : rec'[r].status = "activating" => rec[r].status = "activating"
    BY <1>4, RecordFacts
  <2>. QED
    BY <1>2, <1>3, <1>4, <2>1, <2>2, LaterStart
<1>7. DisposeInv'
  BY <1>1, <1>2, <1>4, CalmDispose DEF Calm
<1>. QED
  BY <1>4, <1>5, <1>6, <1>7, CalmKeeps

\* A module fails while the start activates or readies it.
LEMMA StartFailsKeeps == HostInv /\ StartFails => HostInv'
<1>. SUFFICES ASSUME HostInv, StartFails PROVE HostInv'
  OBVIOUS
<1>1. HostTypes /\ StartInv /\ starter.at \in {"activating", "readying"}
  BY DEF HostInv, StartFails
<1>2. /\ starter.i \in 1..Len(Order) /\ starter.record \in Records /\ rec[starter.record].module \in Modules
      /\ \A m \in Modules : rec[m].status = "activating" => m = starter.record
  BY <1>1 DEF StartInv, Begun
<1>. PICK failed : failed = WithStatus(rec, starter.record, "failed")
  OBVIOUS
<1>3. /\ failed \in [Records -> HostRecord]
      /\ \A x \in Records :
              /\ failed[x].module = rec[x].module /\ failed[x].generation = rec[x].generation
              /\ failed[x].context = rec[x].context
              /\ failed[x].status = IF x = starter.record THEN "failed" ELSE rec[x].status
  BY <1>1, <1>2, StatusFields DEF HostTypes, HostStatuses
<1>4. Cleanup({starter.record}, failed) \/ (rec' = failed /\ UNCHANGED <<entries, active>>)
  BY DEF StartFails
<1>5. PICK n \in 0..Len(Order) : StartGoes(IF n = 0 THEN "failed" ELSE "rolling", n)
  <2>1. starter.i - 1 \in 0..Len(Order) /\ Len(Order) \in 0..Len(Order)
    BY <1>2, OrderFacts
  <2>. QED
    BY <2>1 DEF StartFails
<1>6. \A m \in Modules : failed[m].status # "activating"
  BY <1>2, <1>3, RecordFacts
<1>7. UNCHANGED <<current, suspender, disposer, replacer, crossed>>
  BY DEF StartFails
<1>8. \A x \in Records : /\ failed[x].module = rec[x].module /\ failed[x].generation = rec[x].generation
                         /\ failed[x].context = rec[x].context
                         /\ failed[x].status = rec[x].status \/
                              /\ rec[x].module \in Modules
                              /\ failed[x].status \notin {"registered", "activating"}
  BY <1>2, <1>3
<1>. QED
  BY ONLY HostInv, <1>1, <1>3, <1>4, <1>5, <1>6, <1>7, <1>8, RollingKeeps

\* The roll back of the start goes on to the module before.
LEMMA RollbackNextKeeps == HostInv /\ RollbackNext => HostInv'
<1>. SUFFICES ASSUME HostInv, RollbackNext PROVE HostInv'
  OBVIOUS
<1>1. HostTypes /\ StartInv /\ starter.at = "rolling"
  BY DEF HostInv, RollbackNext
<1>2. /\ starter.i \in 1..Len(Order) /\ starter.record \in Records /\ rec[starter.record].module \in Modules
      /\ \A m \in Modules : rec[m].status # "activating"
  BY <1>1 DEF StartInv, Begun
<1>3. PICK status \in HostStatuses :
        /\ status = rec[starter.record].status \/ status \in {"disposed", "failed"}
        /\ Cleanup({starter.record}, WithStatus(rec, starter.record, status))
  <2>1. rec[starter.record].status \in HostStatuses
    BY <1>1, <1>2 DEF HostTypes, HostRecord
  <2>. QED
    BY <2>1 DEF RollbackNext, HostStatuses
<1>. PICK all : all = WithStatus(rec, starter.record, status)
  OBVIOUS
<1>4. /\ all \in [Records -> HostRecord]
      /\ \A x \in Records :
              /\ all[x].module = rec[x].module /\ all[x].generation = rec[x].generation
              /\ all[x].context = rec[x].context
              /\ all[x].status = IF x = starter.record THEN status ELSE rec[x].status
  BY <1>1, <1>2, StatusFields DEF HostTypes
<1>5. starter.i - 1 \in 0..Len(Order)
      /\ StartGoes(IF starter.i - 1 = 0 THEN "failed" ELSE "rolling", starter.i - 1)
  BY <1>2, OrderFacts DEF RollbackNext
<1>6. \A m \in Modules : all[m].status # "activating"
  BY <1>2, <1>3, <1>4, RecordFacts
<1>7. UNCHANGED <<current, suspender, disposer, replacer, crossed>>
  BY DEF RollbackNext
<1>8. \A x \in Records : /\ all[x].module = rec[x].module /\ all[x].generation = rec[x].generation
                         /\ all[x].context = rec[x].context
                         /\ all[x].status = rec[x].status \/
                              /\ rec[x].module \in Modules
                              /\ all[x].status \notin {"registered", "activating"}
  BY <1>2, <1>3, <1>4
<1>9. Cleanup({starter.record}, all)
  BY <1>3
<1>. QED
  BY ONLY HostInv, <1>1, <1>4, <1>5, <1>6, <1>7, <1>8, <1>9, RollingKeeps

\* The next module is asked to suspend, if one is left.
LEMMA SuspendKeeps ==
  ASSUME HostInv, NEW all \in [Records -> HostRecord], NEW limit \in 0..Len(Order),
         \A x \in Records : /\ all[x].module = rec[x].module /\ all[x].generation = rec[x].generation
                            /\ all[x].context = rec[x].context
                            /\ all[x].status = rec[x].status \/
                                 /\ rec[x].module \in Modules /\ ~Young(x)
                                 /\ all[x].status \notin {"registered", "activating"},
         SuspendFrom(limit, all),
         UNCHANGED <<current, entries, active, starter, disposer, replacer, crossed>>
  PROVE  HostInv'
<1>1. HostTypes /\ StartInv /\ BelongInv /\ DisposeInv
  BY DEF HostInv
<1>. PICK able : able = {i \in 1..limit : all[RecordAt(i)].status \in {"ready", "active"}}
  OBVIOUS
<1>2. \/ able = {} /\ rec' = all /\ suspender' = NoWalk
      \/ /\ able # {}
         /\ rec' = WithStatus(all, RecordAt(Max(able)), "suspending")
         /\ suspender' = [at |-> "suspending", i |-> Max(able), record |-> RecordAt(Max(able))]
  BY DEF SuspendFrom
<1>3. /\ rec' \in [Records -> HostRecord]
      /\ \A x \in Records : /\ rec'[x].module = rec[x].module /\ rec'[x].generation = rec[x].generation
                            /\ rec'[x].context = rec[x].context
                            /\ rec'[x].status = rec[x].status \/
                                 /\ rec[x].module \in Modules /\ ~Young(x)
                                 /\ rec'[x].status \notin {"registered", "activating"}
      /\ suspender' \in WalkOf({"none", "suspending"})
      /\ suspender'.at = "suspending" =>
           /\ suspender'.i \in 1..Len(Order) /\ suspender'.record \in Records
           /\ rec[suspender'.record].module \in Modules /\ ~Young(suspender'.record)
  <2>1. CASE able = {} /\ rec' = all /\ suspender' = NoWalk
    <3>1. suspender' \in WalkOf({"none", "suspending"}) /\ suspender'.at = "none"
      BY <2>1 DEF NoWalk, WalkOf
    <3>. QED
      BY <2>1, <3>1
  <2>2. CASE /\ able # {}
             /\ rec' = WithStatus(all, RecordAt(Max(able)), "suspending")
             /\ suspender' = [at |-> "suspending", i |-> Max(able), record |-> RecordAt(Max(able))]
    <3>1. PICK k : k = Max(able)
      OBVIOUS
    <3>2. k \in 1..Len(Order) /\ all[RecordAt(k)].status \in {"ready", "active"}
      <4>1. limit \in Nat /\ \A i \in 1..limit : i \in 1..Len(Order)
        BY OrderFacts
      <4>2. able \subseteq 1..limit /\ \A i \in able : all[RecordAt(i)].status \in {"ready", "active"}
        OBVIOUS
      <4>3. k \in able
        BY ONLY <2>2, <3>1, <4>1, <4>2, LastPlace
      <4>. QED
        BY <4>1, <4>2, <4>3
    <3>3. PICK c \in Records : c = RecordAt(k) /\ rec[c].module \in Modules
      BY <3>2, RecordFacts
    <3>4. /\ WithStatus(all, c, "suspending") \in [Records -> HostRecord]
          /\ \A x \in Records :
                  /\ WithStatus(all, c, "suspending")[x].module = all[x].module
                  /\ WithStatus(all, c, "suspending")[x].generation = all[x].generation
                  /\ WithStatus(all, c, "suspending")[x].context = all[x].context
                  /\ WithStatus(all, c, "suspending")[x].status = IF x = c THEN "suspending" ELSE all[x].status
      BY StatusFields DEF HostStatuses
    <3>5. rec' = WithStatus(all, c, "suspending") /\ suspender' = [at |-> "suspending", i |-> k, record |-> c]
      BY <2>2, <3>1, <3>3
    <3>6. ~Young(c)
      BY <3>2, <3>3 DEF Young
    <3>7. suspender' \in WalkOf({"none", "suspending"})
      BY <3>2, <3>5 DEF WalkOf
    <3>. QED
      BY <3>2, <3>3, <3>4, <3>5, <3>6, <3>7
  <2>. QED
    BY <1>2, <2>1, <2>2
<1>4. HostTypes'
  BY <1>1, <1>3 DEF HostTypes
<1>5. Calm
  BY <1>3, StatusesCalm DEF InFlight
<1>6. StartInv'
  <2>1. \A m \in Modules : Young(m) => rec'[m].status = rec[m].status
    BY <1>3, RecordFacts
  <2>2. \A r \in Records : rec'[r].status = "activating" => rec[r].status = "activating"
    BY <1>3
  <2>3. starter.at \in {"activating", "readying", "rolling"} => disposer'.at \in {"none", "waiting"}
    BY <1>1 DEF StartInv
  <2>4. Disposed => Disposed'
    BY DEF Disposed
  <2>. QED
    BY <1>1, <1>3, <1>5, <2>1, <2>2, <2>3, <2>4, CalmStart DEF Begun
<1>7. DisposeInv'
  BY <1>1, <1>3, CalmDispose
<1>. QED
  BY <1>4, <1>5, <1>6, <1>7, CalmKeeps

\* The host is asked to suspend.
LEMMA SuspendHostKeeps == HostInv /\ SuspendHost => HostInv'
<1>. SUFFICES ASSUME HostInv, SuspendHost PROVE HostInv'
  OBVIOUS
<1>1. Len(Order) \in 0..Len(Order)
  BY OrderFacts
<1>2. rec \in [Records -> HostRecord]
  BY DEF HostInv, HostTypes
<1>. QED
  BY <1>1, <1>2, SuspendKeeps DEF SuspendHost

\* The suspend hook of one module has ended.
LEMMA SuspendNextKeeps == HostInv /\ SuspendNext => HostInv'
<1>. SUFFICES ASSUME HostInv, SuspendNext PROVE HostInv'
  OBVIOUS
<1>1. HostTypes /\ StartInv /\ suspender.at = "suspending"
  BY DEF HostInv, SuspendNext
<1>2. /\ suspender.i \in 1..Len(Order) /\ suspender.record \in Records
      /\ rec[suspender.record].module \in Modules /\ ~Young(suspender.record)
  BY <1>1 DEF StartInv, Begun
<1>3. PICK status \in {"suspended", "failed"} :
        SuspendFrom(suspender.i - 1, WithStatus(rec, suspender.record, status))
  BY DEF SuspendNext
<1>. PICK all : all = WithStatus(rec, suspender.record, status)
  OBVIOUS
<1>4. /\ all \in [Records -> HostRecord]
      /\ \A x \in Records :
              /\ all[x].module = rec[x].module /\ all[x].generation = rec[x].generation
              /\ all[x].context = rec[x].context
              /\ all[x].status = IF x = suspender.record THEN status ELSE rec[x].status
  <2>1. status \in HostStatuses
    BY DEF HostStatuses
  <2>. QED
    BY <1>1, <1>2, <2>1, StatusFields DEF HostTypes
<1>5. PICK limit \in 0..Len(Order) : limit = suspender.i - 1
  BY <1>2, OrderFacts
<1>6. UNCHANGED <<current, entries, active, starter, disposer, replacer, crossed>>
  BY DEF SuspendNext
<1>7. \A x \in Records : /\ all[x].module = rec[x].module /\ all[x].generation = rec[x].generation
                         /\ all[x].context = rec[x].context
                         /\ all[x].status = rec[x].status \/
                              /\ rec[x].module \in Modules /\ ~Young(x)
                              /\ all[x].status \notin {"registered", "activating"}
  BY <1>2, <1>4
<1>8. SuspendFrom(limit, all)
  BY <1>3, <1>5
<1>. QED
  BY ONLY HostInv, <1>1, <1>4, <1>6, <1>7, <1>8, SuspendKeeps

\* The host is asked to dispose.
LEMMA DisposeHostKeeps == HostInv /\ DisposeHost => HostInv'
<1>. SUFFICES ASSUME HostInv, DisposeHost PROVE HostInv'
  OBVIOUS
<1>1. HostTypes /\ StartInv /\ BelongInv
  BY DEF HostInv
<1>2. /\ UNCHANGED <<current, rec, entries, active, starter, suspender, replacer>>
      /\ crossed' = crossed \cup {m \in Modules : BeingReplaced(m)} /\ ~Disposed
  BY DEF DisposeHost
<1>3. disposer' = [at |-> "waiting", i |-> 0, record |-> NoRecord]
  BY DEF DisposeHost, NoWalk
<1>4. HostTypes'
  <2>1. disposer' \in WalkOf({"none", "waiting", "disposing", "done"})
    BY <1>3 DEF WalkOf
  <2>2. crossed' \subseteq Modules
    BY <1>1, <1>2 DEF HostTypes
  <2>. QED
    BY <1>1, <1>2, <2>1, <2>2 DEF HostTypes
<1>5. Calm
  <2>1. \A e \in entries' : e \in entries /\ rec'[e].context
    BY <1>1, <1>2 DEF BelongInv
  <2>2. \A m \in Modules : active'[m] # NoRecord => active'[m] = active[m] /\ active'[m] \in entries'
    BY <1>1, <1>2 DEF BelongInv
  <2>3. \A r \in Replacements : InFlight(r)' <=> InFlight(r)
    BY <1>2 DEF InFlight
  <2>4. \A r \in Records : Young(r)' <=> Young(r)
    BY <1>2 DEF Young
  <2>5. crossed \subseteq crossed' /\ \A m \in Modules \ crossed' : ~BeingReplaced(m)
    BY <1>2
  <2>. QED
    BY <1>2, <2>1, <2>2, <2>3, <2>4, <2>5 DEF Calm
<1>6. StartInv'
  <2>1. starter.at \in {"activating", "readying", "rolling"} => disposer'.at \in {"none", "waiting"}
    BY <1>3
  <2>2. suspender'.at = "suspending" =>
            suspender'.i \in 1..Len(Order) /\ Begun(suspender'.record) /\ ~Young(suspender'.record)
    BY <1>1, <1>2 DEF StartInv
  <2>3. Disposed => Disposed'
    BY <1>2
  <2>. QED
    BY <1>1, <1>2, <1>5, <2>1, <2>2, <2>3, CalmStart
<1>7. DisposeInv'
  BY <1>3 DEF DisposeInv
<1>. QED
  BY <1>4, <1>5, <1>6, <1>7, CalmKeeps

\* The next module is asked to go, if one is left.
LEMMA DisposeKeeps ==
  ASSUME HostInv, NEW all \in [Records -> HostRecord], NEW limit \in 0..Len(Order), NEW gone \in SUBSET Records,
         Disposed, StartIsOver,
         \A x \in Records : /\ all[x].module = rec[x].module /\ all[x].generation = rec[x].generation
                            /\ all[x].context = rec[x].context
                            /\ all[x].status = rec[x].status \/
                                 /\ rec[x].module \in Modules
                                 /\ all[x].status \notin {"registered", "activating"},
         \A x \in gone : rec[x].module \in Modules,
         \A j \in 1..Len(Order) : Order[j] \notin crossed /\ j > limit =>
           ~rec[RecordAt(j)].context \/ RecordAt(j) \in gone,
         DisposeFrom(limit, all, gone),
         UNCHANGED <<current, starter, suspender, replacer, crossed>>
  PROVE  HostInv'
<1>0. \A j \in 1..Len(Order) : RecordAt(j) \in Records /\ rec[RecordAt(j)].module \in Modules
  BY RecordFacts
<1>1. HostTypes /\ StartInv /\ BelongInv
  BY DEF HostInv
<1>2. limit \in Nat /\ \A j \in 1..limit : j \in 1..Len(Order)
  BY OrderFacts
<1>. PICK left : left = {j \in 1..limit : all[RecordAt(j)].status # "disposed"}
  OBVIOUS
<1>. PICK i : i = IF left = {} THEN 0 ELSE Max(left)
  OBVIOUS
<1>3. i \in 0..limit /\ (i # 0 => i \in 1..Len(Order))
  <2>1. CASE left = {}
    BY <1>2, <2>1
  <2>2. CASE left # {}
    <3>1. left \subseteq 1..limit
      OBVIOUS
    <3>2. Max(left) \in left
      BY ONLY <1>2, <2>2, <3>1, LastPlace
    <3>. QED
      BY <1>2, <2>2, <3>1, <3>2
  <2>. QED
    BY <2>1, <2>2
<1>. PICK passed : passed = {RecordAt(j) : j \in (i + 1)..limit}
  OBVIOUS
<1>. PICK new : new = IF i = 0 THEN all ELSE WithStatus(all, RecordAt(i), "disposing")
  OBVIOUS
<1>4. /\ Cleanup(gone \cup passed, new)
      /\ disposer' = IF i = 0 THEN [NoWalk EXCEPT !.at = "done"]
                     ELSE [at |-> "disposing", i |-> i, record |-> RecordAt(i)]
  BY DEF DisposeFrom
<1>5. /\ new \in [Records -> HostRecord]
      /\ \A x \in Records : /\ new[x].module = rec[x].module /\ new[x].generation = rec[x].generation
                            /\ new[x].context = rec[x].context
                            /\ new[x].status = rec[x].status \/
                                 /\ rec[x].module \in Modules
                                 /\ new[x].status \notin {"registered", "activating"}
  <2>1. CASE i = 0
    BY <2>1
  <2>2. CASE i # 0
    <3>1. PICK c \in Records : c = RecordAt(i) /\ rec[c].module \in Modules
      BY ONLY <1>0, <1>3, <2>2
    <3>2. /\ WithStatus(all, c, "disposing") \in [Records -> HostRecord]
          /\ \A x \in Records :
                  /\ WithStatus(all, c, "disposing")[x].module = all[x].module
                  /\ WithStatus(all, c, "disposing")[x].generation = all[x].generation
                  /\ WithStatus(all, c, "disposing")[x].context = all[x].context
                  /\ WithStatus(all, c, "disposing")[x].status = IF x = c THEN "disposing" ELSE all[x].status
      BY StatusFields DEF HostStatuses
    <3>3. new = WithStatus(all, c, "disposing")
      BY <2>2, <3>1
    <3>4. \A x \in Records : /\ all[x].module = rec[x].module /\ all[x].generation = rec[x].generation
                             /\ all[x].context = rec[x].context
                             /\ all[x].status = rec[x].status \/
                                  /\ rec[x].module \in Modules
                                  /\ all[x].status \notin {"registered", "activating"}
      OBVIOUS
    <3>. QED
      BY ONLY <3>1, <3>2, <3>3, <3>4
  <2>. QED
    BY <2>1, <2>2
<1>6. \A j \in (i + 1)..limit : j \in 1..Len(Order)
  BY <1>2, <1>3
<1>7. /\ rec' \in [Records -> HostRecord] /\ entries' \subseteq Records
      /\ active' \in [Modules -> Records \cup {NoRecord}]
      /\ \A x \in Records :
           /\ rec'[x].module = rec[x].module /\ rec'[x].generation = rec[x].generation
           /\ rec'[x].status = new[x].status
           /\ rec'[x].context <=> rec[x].context /\ x \notin gone \cup passed
           /\ Young(x)' => Young(x)
      /\ \A e \in entries' : e \in entries /\ rec'[e].context
      /\ \A m \in Modules : active'[m] # NoRecord => active'[m] = active[m] /\ active'[m] \in entries'
      /\ \A r \in Replacements :
           replacer[r].at = "none" => rec'[r].status = rec[r].status /\ rec'[r].context = rec[r].context
  <2>1. \A x \in passed : x \in Records /\ rec[x].module \in Modules
    BY ONLY <1>0, <1>6, passed = {RecordAt(j) : j \in (i + 1)..limit}
  <2>2. PICK ended \in SUBSET Records : ended = gone \cup passed
    BY <2>1
  <2>3. \A x \in ended : rec[x].module \in Modules
    BY <2>1, <2>2
  <2>4. Cleanup(ended, new)
    BY <1>4, <2>2
  <2>5. \A x \in Records : /\ new[x].module = rec[x].module /\ new[x].generation = rec[x].generation
                           /\ new[x].context = rec[x].context
                           /\ new[x].status = rec[x].status \/
                                (rec[x].module \in Modules /\ new[x].status \notin {"registered", "activating"})
                           /\ x \in ended => rec[x].module \in Modules
    BY ONLY <1>5, <2>3
  <2>6. new \in [Records -> HostRecord]
    BY <1>5
  <2>. QED
    BY ONLY HostInv, <2>2, <2>4, <2>5, <2>6, CalmCleanup
<1>8. /\ disposer' \in WalkOf({"none", "waiting", "disposing", "done"})
      /\ disposer'.at = IF i = 0 THEN "done" ELSE "disposing"
      /\ i # 0 => disposer'.i = i /\ disposer'.record = RecordAt(i)
  <2>1. CASE i = 0
    <3>1. disposer' = [at |-> "done", i |-> 0, record |-> NoRecord]
      BY <1>4, <2>1 DEF NoWalk
    <3>. QED
      BY <2>1, <3>1 DEF WalkOf
  <2>2. CASE i # 0
    <3>1. disposer' = [at |-> "disposing", i |-> i, record |-> RecordAt(i)]
      BY <1>4, <2>2
    <3>2. i \in Nat /\ RecordAt(i) \in Records
      BY <1>3, <2>2, RecordFacts
    <3>. QED
      BY <2>2, <3>1, <3>2 DEF WalkOf
  <2>. QED
    BY <2>1, <2>2
<1>9. HostTypes'
  BY <1>1, <1>7, <1>8 DEF HostTypes
<1>10. Calm
  BY <1>7 DEF Calm, InFlight
<1>11. StartInv'
  <2>1. \A r \in Records : rec'[r].status = "activating" => rec[r].status = "activating"
    BY ONLY <1>5, <1>7
  <2>2. Disposed'
    BY <1>8 DEF Disposed
  <2>3. starter.at \notin {"activating", "readying", "rolling"}
    BY DEF StartIsOver
  <2>4. suspender'.at = "suspending" =>
            suspender'.i \in 1..Len(Order) /\ Begun(suspender'.record) /\ ~Young(suspender'.record)
    BY <1>1 DEF StartInv
  <2>. QED
    BY <1>1, <1>10, <2>1, <2>2, <2>3, <2>4, CalmStart
<1>12. DisposeInv'
  <2>1. disposer'.at = "disposing" =>
          /\ disposer'.i \in 1..Len(Order) /\ disposer'.record \in Records
          /\ rec'[disposer'.record].module \in Modules /\ disposer'.record = RecordAt(disposer'.i)
    BY ONLY <1>0, <1>3, <1>7, <1>8
  <2>2. ASSUME NEW j \in 1..Len(Order), Order[j] \notin crossed, j > i
        PROVE  ~rec'[RecordAt(j)].context
    <3>1. RecordAt(j) \in Records
      BY RecordFacts
    <3>2. CASE j > limit
      BY <1>7, <2>2, <3>1, <3>2
    <3>3. CASE j <= limit
      <4>1. j \in (i + 1)..limit
        BY <1>2, <1>3, <2>2, <3>3
      <4>2. RecordAt(j) \in passed
        BY <4>1
      <4>. QED
        BY <1>7, <3>1, <4>2
    <3>. QED
      BY <1>2, <3>2, <3>3
  <2>3. \A j \in 1..Len(Order) : current'[Order[j]] = RecordAt(j)
    BY DEF RecordAt
  <2>4. \A j \in 1..Len(Order) :
          Order[j] \notin crossed' /\ (disposer'.at = "done" \/ (disposer'.at = "disposing" /\ j > disposer'.i))
             => ~rec'[current'[Order[j]]].context
    BY <1>3, <1>8, <2>2, <2>3
  <2>. QED
    BY <2>1, <2>3, <2>4 DEF DisposeInv, Begun, RecordAt
<1>. QED
  BY <1>9, <1>10, <1>11, <1>12, CalmKeeps

\* dispose begins, once the start is over.
LEMMA DisposeBeginsKeeps == HostInv /\ DisposeBegins => HostInv'
<1>. SUFFICES ASSUME HostInv, DisposeBegins PROVE HostInv'
  OBVIOUS
<1>1. Len(Order) \in 0..Len(Order) /\ {} \in SUBSET Records
  BY OrderFacts
<1>2. rec \in [Records -> HostRecord] /\ Disposed /\ StartIsOver
  BY DEF HostInv, HostTypes, DisposeBegins, Disposed
<1>3. \A j \in 1..Len(Order) : ~(j > Len(Order))
  BY OrderFacts
<1>4. DisposeFrom(Len(Order), rec, {}) /\ UNCHANGED <<current, starter, suspender, replacer, crossed>>
  BY DEF DisposeBegins
<1>. QED
  BY <1>1, <1>2, <1>3, <1>4, DisposeKeeps

\* The dispose hook of one module has ended.
LEMMA DisposeNextKeeps == HostInv /\ DisposeNext => HostInv'
<1>. SUFFICES ASSUME HostInv, DisposeNext PROVE HostInv'
  OBVIOUS
<1>1. HostTypes /\ StartInv /\ DisposeInv /\ disposer.at = "disposing"
  BY DEF HostInv, DisposeNext
<1>2. /\ disposer.i \in 1..Len(Order) /\ disposer.record \in Records
      /\ rec[disposer.record].module \in Modules
      /\ Order[disposer.i] \notin crossed => disposer.record = RecordAt(disposer.i)
      /\ \A j \in 1..Len(Order) : Order[j] \notin crossed /\ j > disposer.i => ~rec[RecordAt(j)].context
  BY <1>1 DEF DisposeInv, Begun
<1>3. PICK status \in {"disposed", "failed"} :
        DisposeFrom(disposer.i - 1, WithStatus(rec, disposer.record, status), {disposer.record})
  BY DEF DisposeNext
<1>. PICK all : all = WithStatus(rec, disposer.record, status)
  OBVIOUS
<1>4. /\ all \in [Records -> HostRecord]
      /\ \A x \in Records :
              /\ all[x].module = rec[x].module /\ all[x].generation = rec[x].generation
              /\ all[x].context = rec[x].context
              /\ all[x].status = IF x = disposer.record THEN status ELSE rec[x].status
  <2>1. status \in HostStatuses
    BY DEF HostStatuses
  <2>. QED
    BY <1>1, <1>2, <2>1, StatusFields DEF HostTypes
<1>5. PICK limit \in 0..Len(Order) : limit = disposer.i - 1
  BY <1>2, OrderFacts
<1>. PICK gone : gone = {disposer.record}
  OBVIOUS
<1>6. gone \in SUBSET Records /\ \A x \in gone : rec[x].module \in Modules
  BY <1>2
<1>7. \A j \in 1..Len(Order) : Order[j] \notin crossed /\ j > limit =>
           ~rec[RecordAt(j)].context \/ RecordAt(j) \in gone
  <2>1. SUFFICES ASSUME NEW j \in 1..Len(Order), Order[j] \notin crossed, j > limit
                 PROVE  ~rec[RecordAt(j)].context \/ RecordAt(j) \in gone
    OBVIOUS
  <2>2. CASE j = disposer.i
    BY <1>2, <2>1, <2>2
  <2>3. CASE j > disposer.i
    BY <1>2, <2>1, <2>3
  <2>. QED
    BY <1>2, <1>5, <2>1, <2>2, <2>3, OrderFacts
<1>8. \A x \in Records : /\ all[x].module = rec[x].module /\ all[x].generation = rec[x].generation
                         /\ all[x].context = rec[x].context
                         /\ all[x].status = rec[x].status \/
                              /\ rec[x].module \in Modules
                              /\ all[x].status \notin {"registered", "activating"}
  BY <1>2, <1>4
<1>9. Disposed /\ StartIsOver
  <2>1. starter.at \notin {"activating", "readying", "rolling"}
    BY <1>1 DEF StartInv
  <2>2. starter.at \in {"none", "activating", "readying", "rolling", "started", "failed"}
    BY <1>1 DEF HostTypes, WalkOf
  <2>. QED
    BY <1>1, <2>1, <2>2 DEF Disposed, StartIsOver
<1>10. DisposeFrom(limit, all, gone) /\ UNCHANGED <<current, starter, suspender, replacer, crossed>>
  BY <1>3, <1>5 DEF DisposeNext
<1>. QED
  BY ONLY HostInv, <1>4, <1>6, <1>7, <1>8, <1>9, <1>10, DisposeKeeps

\* A call of replaceModule goes on, its new generation at another place in its life.
LEMMA ReplacementKeeps ==
  ASSUME HostInv, NEW r \in Replacements, replacer[r].at \in {"activating", "readying"},
         NEW at \in {"readying", "dropping"}, NEW status \in {"readying", "failed"},
         replacer' = [replacer EXCEPT ![r].at = at], rec' = WithStatus(rec, r, status),
         UNCHANGED <<current, entries, active, starter, suspender, disposer, crossed>>
  PROVE  HostInv'
<1>1. HostTypes /\ StartInv /\ BelongInv /\ DisposeInv
  BY DEF HostInv
<1>2. r \in Records /\ rec[r].module \in Modules /\ r \notin Modules
  BY RecordFacts
<1>3. /\ rec' \in [Records -> HostRecord]
      /\ \A x \in Records : /\ rec'[x].module = rec[x].module /\ rec'[x].generation = rec[x].generation
                            /\ rec'[x].context = rec[x].context
                            /\ rec'[x].status = IF x = r THEN status ELSE rec[x].status
  <2>1. rec \in [Records -> HostRecord] /\ status \in HostStatuses
    BY <1>1 DEF HostTypes, HostStatuses
  <2>. QED
    BY ONLY <1>2, <2>1, rec' = WithStatus(rec, r, status), StatusFields
<1>4. /\ replacer' \in [Replacements -> Replacing]
      /\ \A q \in Replacements : /\ replacer'[q].previous = replacer[q].previous
                                 /\ replacer'[q].at = IF q = r THEN at ELSE replacer[q].at
  BY <1>1 DEF HostTypes, Replacing
<1>5. HostTypes'
  BY <1>1, <1>3, <1>4 DEF HostTypes
<1>6. Calm
  <2>1. \A x \in Records : /\ rec'[x].module = rec[x].module /\ rec'[x].generation = rec[x].generation
                           /\ rec'[x].context = rec[x].context
                           /\ rec'[x].status = rec[x].status \/
                               /\ rec[x].module \in Modules
                               /\ rec'[x].status \notin {"registered", "activating"}
    BY <1>2, <1>3
  <2>2. \A q \in Replacements : /\ replacer'[q].previous = replacer[q].previous
                                /\ replacer'[q].at = "none" <=> replacer[q].at = "none"
                                /\ InFlight(q)' <=> InFlight(q)
                                /\ replacer'[q].at = "releasing" <=> replacer[q].at = "releasing"
    BY <1>4 DEF InFlight
  <2>. QED
    BY <2>1, <2>2, StatusesCalm
<1>7. StartInv'
  <2>1. \A m \in Modules : rec'[m].status = rec[m].status
    BY <1>2, <1>3, RecordFacts
  <2>2. \A q \in Records : rec'[q].status = "activating" => rec[q].status = "activating" /\ q # r
    BY <1>3
  <2>3. \A q \in Replacements : rec'[q].status = "activating" => replacer'[q].at = replacer[q].at
    BY <1>4, <2>2, RecordFacts
  <2>4. starter.at \in {"activating", "readying", "rolling"} => disposer'.at \in {"none", "waiting"}
    BY <1>1 DEF StartInv
  <2>5. suspender'.at = "suspending" =>
            suspender'.i \in 1..Len(Order) /\ Begun(suspender'.record) /\ ~Young(suspender'.record)
    BY <1>1 DEF StartInv
  <2>6. Disposed => Disposed'
    BY DEF Disposed
  <2>. QED
    BY <1>1, <1>6, <2>1, <2>2, <2>3, <2>4, <2>5, <2>6, CalmStart
<1>8. DisposeInv'
  BY <1>1, <1>3, CalmDispose
<1>. QED
  BY <1>5, <1>6, <1>7, <1>8, CalmKeeps

\* The new generation is activated.
LEMMA ReplacementActivatedKeeps ==
  ASSUME HostInv, NEW r \in Replacements, ReplacementActivated(r)
  PROVE  HostInv'
BY ReplacementKeeps DEF ReplacementActivated

\* The new generation fails.
LEMMA ReplacementFailsKeeps ==
  ASSUME HostInv, NEW r \in Replacements, ReplacementFails(r)
  PROVE  HostInv'
BY ReplacementKeeps DEF ReplacementFails

\* The calls of replaceModule, one of them at another place.
CallAt(r, at) == [replacer EXCEPT ![r].at = at]

\* A call of replaceModule ends: the old generation has been released, or the new one dropped.
LEMMA EndKeeps ==
  ASSUME HostInv, NEW r \in Replacements, NEW end \in {"done", "failed"}, NEW x \in Records,
         NEW all \in [Records -> HostRecord],
         \/ replacer[r].at = "releasing" /\ x = replacer[r].previous
         \/ replacer[r].at = "dropping" /\ x = r,
         replacer' = CallAt(r, end),
         \A y \in Records : /\ all[y].module = rec[y].module /\ all[y].generation = rec[y].generation
                            /\ all[y].context = rec[y].context
                            /\ all[y].status = rec[y].status \/
                                 (y = x /\ all[y].status \in {"disposed", "failed"}),
         Cleanup({x}, all),
         UNCHANGED <<current, starter, suspender, disposer, crossed>>
  PROVE  HostInv'
<1>1. HostTypes /\ StartInv /\ BelongInv /\ DisposeInv
  BY DEF HostInv
<1>2. r \in Records /\ rec[r].module \in Modules /\ rec[x].module = rec[r].module /\ ~Young(rec[r].module)
  BY <1>1, RecordFacts DEF BelongInv
<1>3. x \in Modules => x = rec[r].module
  BY <1>1, <1>2 DEF BelongInv
<1>4. /\ replacer' \in [Replacements -> Replacing]
      /\ \A q \in Replacements : /\ replacer'[q].previous = replacer[q].previous
                                 /\ replacer'[q].at = IF q = r THEN end ELSE replacer[q].at
  BY <1>1 DEF CallAt, HostTypes, Replacing
<1>5. \A y \in Records : /\ all[y].module = rec[y].module /\ all[y].generation = rec[y].generation
                         /\ all[y].context = rec[y].context
                         /\ all[y].status = rec[y].status \/
                              (rec[y].module \in Modules /\ all[y].status \notin {"registered", "activating"})
                         /\ y \in {x} => rec[y].module \in Modules
  BY <1>2
<1>6. /\ rec' \in [Records -> HostRecord] /\ entries' \subseteq Records
      /\ active' \in [Modules -> Records \cup {NoRecord}]
      /\ \A y \in Records :
           /\ rec'[y].module = rec[y].module /\ rec'[y].generation = rec[y].generation
           /\ rec'[y].status = all[y].status
           /\ rec'[y].context <=> rec[y].context /\ y \notin {x}
           /\ Young(y)' => Young(y)
      /\ \A e \in entries' : e \in entries /\ rec'[e].context
      /\ \A e \in {x} : e \notin entries'
      /\ \A m \in Modules : active'[m] # NoRecord => active'[m] = active[m] /\ active'[m] \in entries'
      /\ \A q \in Replacements :
           replacer[q].at = "none" => rec'[q].status = rec[q].status /\ rec'[q].context = rec[q].context
  <2>1. {x} \in SUBSET Records
    OBVIOUS
  <2>. QED
    BY ONLY HostInv, all \in [Records -> HostRecord], <1>5, <2>1, Cleanup({x}, all), CalmCleanup
<1>7. HostTypes'
  BY <1>1, <1>4, <1>6 DEF HostTypes
<1>8. Calm
  <2>1. \A q \in Replacements :
         /\ replacer'[q].previous = replacer[q].previous
         /\ replacer'[q].at = "none" <=> replacer[q].at = "none"
         /\ InFlight(q)' => InFlight(q)
         /\ InFlight(q) => InFlight(q)' \/ q \notin entries'
         /\ replacer'[q].at = "releasing" => replacer[q].at = "releasing"
         /\ replacer[q].at = "releasing" => replacer'[q].at = "releasing" \/ replacer[q].previous \notin entries'
    BY <1>4, <1>6 DEF InFlight
  <2>. QED
    BY <1>6, <2>1 DEF Calm, Disposed
<1>9. StartInv'
  <2>1. \A m \in Modules : Young(m) => rec'[m].status = rec[m].status
    <3>1. \A m \in Modules : Young(m) => m # x
      BY <1>2, <1>3
    <3>. QED
      BY <1>6, <3>1, RecordFacts
  <2>2. \A q \in Records : rec'[q].status = "activating" => rec[q].status = "activating"
    BY <1>6
  <2>3. \A q \in Replacements : rec'[q].status = "activating" => replacer'[q].at = replacer[q].at
    <3>1. rec[r].status # "activating"
      BY <1>1 DEF StartInv
    <3>. QED
      BY <1>4, <2>2, <3>1, RecordFacts
  <2>4. starter.at \in {"activating", "readying", "rolling"} => disposer'.at \in {"none", "waiting"}
    BY <1>1 DEF StartInv
  <2>5. suspender'.at = "suspending" =>
            suspender'.i \in 1..Len(Order) /\ Begun(suspender'.record) /\ ~Young(suspender'.record)
    BY <1>1 DEF StartInv
  <2>6. Disposed => Disposed'
    BY DEF Disposed
  <2>. QED
    BY <1>1, <1>8, <2>1, <2>2, <2>3, <2>4, <2>5, <2>6, CalmStart
<1>10. DisposeInv'
  BY <1>1, <1>6, CalmDispose
<1>. QED
  BY <1>7, <1>8, <1>9, <1>10, CalmKeeps

\* The old generation has been released.
LEMMA ReleaseEndsKeeps ==
  ASSUME HostInv, NEW r \in Replacements, ReleaseEnds(r)
  PROVE  HostInv'
<1>1. PICK x \in Records : x = replacer[r].previous
  BY DEF HostInv, BelongInv, ReleaseEnds
<1>2. PICK status \in {"disposed", "failed"} : Cleanup({x}, WithStatus(rec, x, status))
  BY <1>1 DEF ReleaseEnds
<1>. PICK all : all = WithStatus(rec, x, status)
  OBVIOUS
<1>3. /\ all \in [Records -> HostRecord]
      /\ \A y \in Records : /\ all[y].module = rec[y].module /\ all[y].generation = rec[y].generation
                            /\ all[y].context = rec[y].context
                            /\ all[y].status = IF y = x THEN status ELSE rec[y].status
  <2>1. status \in HostStatuses /\ rec \in [Records -> HostRecord]
    BY DEF HostStatuses, HostInv, HostTypes
  <2>. QED
    BY ONLY x \in Records, all = WithStatus(rec, x, status), <2>1, StatusFields
<1>4. /\ replacer[r].at = "releasing"
      /\ replacer' = [replacer EXCEPT ![r].at = "done"]
      /\ UNCHANGED <<current, starter, suspender, disposer, crossed>>
  BY DEF ReleaseEnds
<1>5. Cleanup({x}, all)
  BY <1>2
<1>6. \A y \in Records : /\ all[y].module = rec[y].module /\ all[y].generation = rec[y].generation
                         /\ all[y].context = rec[y].context
                         /\ all[y].status = rec[y].status \/
                              (y = x /\ all[y].status \in {"disposed", "failed"})
  BY <1>3
<1>. QED
  <2>1. PICK end \in {"done", "failed"} : end = "done"
    OBVIOUS
  <2>2. \/ replacer[r].at = "releasing" /\ x = replacer[r].previous
        \/ replacer[r].at = "dropping" /\ x = r
    BY <1>1, <1>4
  <2>3. replacer' = CallAt(r, end)
    BY <1>4, <2>1 DEF CallAt
  <2>4. all \in [Records -> HostRecord]
    BY <1>3
  <2>5. UNCHANGED <<current, starter, suspender, disposer, crossed>>
    BY <1>4
  <2>. QED
    BY ONLY HostInv, r \in Replacements, x \in Records, end \in {"done", "failed"},
            <1>5, <1>6, <2>2, <2>3, <2>4, <2>5, EndKeeps

\* The new generation has been dropped.
LEMMA DropEndsKeeps ==
  ASSUME HostInv, NEW r \in Replacements, DropEnds(r)
  PROVE  HostInv'
<1>1. /\ replacer[r].at = "dropping" /\ Cleanup({r}, rec)
      /\ replacer' = CallAt(r, "failed")
      /\ UNCHANGED <<current, starter, suspender, disposer, crossed>>
  BY DEF DropEnds, CallAt
<1>2. r \in Records /\ rec \in [Records -> HostRecord]
  BY RecordFacts
<1>. QED
  BY ONLY HostInv, r \in Replacements, <1>1, <1>2, EndKeeps

\* A module registers its service.
LEMMA RegisterServiceKeeps ==
  ASSUME HostInv, NEW r \in Records, RegisterService(r)
  PROVE  HostInv'
<1>1. HostTypes /\ StartInv /\ BelongInv /\ DisposeInv
  BY DEF HostInv
<1>2. /\ rec[r].context /\ rec[r].status = "activating"
      /\ ~\E e \in entries : SameOwner(e, r)
      /\ r \in Modules => active[rec[r].module] = NoRecord
      /\ entries' = entries \cup {r}
      /\ active' = IF r \in Modules THEN [active EXCEPT ![rec[r].module] = r] ELSE active
      /\ UNCHANGED <<current, rec, starter, suspender, disposer, replacer, crossed>>
  BY DEF RegisterService
<1>3. /\ Modules \subseteq Records /\ Replacements \subseteq Records /\ NoRecord \notin Records
      /\ Modules \cap Replacements = {}
  BY RecordFacts
<1>4. /\ r \in Modules => rec[r].module = r /\ current[r] = r
      /\ r \in Replacements => /\ InFlight(r)
                               /\ rec[r].module \in Modules
    BY <1>1, <1>2 DEF BelongInv, StartInv, InFlight, Young
<1>5. \A m \in Modules : active'[m] = IF r \in Modules /\ m = r THEN r ELSE active[m]
  BY <1>1, <1>2, <1>4 DEF HostTypes
<1>6. HostTypes'
  <2>1. active' \in [Modules -> Records \cup {NoRecord}] /\ entries' \subseteq Records
    BY <1>1, <1>2, <1>4 DEF HostTypes
  <2>. QED
    BY <1>1, <1>2, <2>1 DEF HostTypes
<1>7. BelongInv'
  <2>1. \A m \in Modules : active'[m] # NoRecord => active'[m] \in entries' /\ rec[active'[m]].module = m
    BY <1>1, <1>2, <1>4, <1>5 DEF BelongInv
  <2>2. \A e \in entries' : rec[e].context
    BY <1>1, <1>2 DEF BelongInv
  <2>. QED
    BY <1>1, <1>2, <2>1, <2>2 DEF BelongInv, Young
<1>8. StartInv'
  <2>1. \A x : Young(x)' <=> Young(x)
    BY <1>2 DEF Young
  <2>2. \A x : Begun(x)' <=> Begun(x)
    BY <1>2 DEF Begun
  <2>3. Disposed' <=> Disposed
    BY <1>2 DEF Disposed
  <2>. QED
    BY <1>1, <1>2, <2>1, <2>2, <2>3 DEF StartInv, Young, Begun
<1>9. DisposeInv'
  BY <1>1, <1>2, CalmDispose
<1>10. ASSUME NEW m \in Modules, m \notin crossed'
       PROVE  Older(m)'
  <2>1. Older(m)
    BY <1>2, <1>10 DEF HostInv
  <2>2. /\ \A q \in Replacements : InFlight(q)' <=> InFlight(q)
        /\ Disposed' <=> Disposed
    BY <1>2 DEF InFlight, Disposed
  <2>3. current[m] \in Records /\ rec[current[m]].module = m /\ rec[current[m]].generation \in Nat
    BY <1>1 DEF HostTypes, HostRecord, BelongInv
  <2>4. \A e \in entries' : rec[e].module = m =>
          rec[e].generation <= rec[current[m]].generation \/ (e \in Replacements /\ InFlight(e)')
    <3>1. r \in Modules /\ rec[r].module = m => rec[r].generation <= rec[current[m]].generation
      BY <1>4, <2>3
    <3>2. r \in Modules \/ r \in Replacements
      BY DEF Records
    <3>. QED
      BY <1>2, <1>4, <2>1, <2>2, <3>1, <3>2 DEF Older
  <2>5. active'[m] \in {NoRecord, current[m]} \/
          /\ current[m] \notin entries'
          /\ \E q \in Replacements : replacer[q].at = "releasing" /\ replacer[q].previous = active'[m]
    <3>1. CASE r \in Modules /\ m = r
      BY <1>4, <1>5, <3>1
    <3>2. CASE r \in Modules /\ m # r
      <4>1. r # current[m]
        BY <1>4, <2>3, <3>2
      <4>. QED
        BY <1>2, <1>5, <2>1, <3>2, <4>1 DEF Older
    <3>3. CASE r \in Replacements
      <4>1. r # current[m]
        <5>1. SUFFICES ASSUME r = current[m] PROVE FALSE
          OBVIOUS
        <5>2. rec[r].generation = rec[current[m]].generation + 1
          BY <1>4, <2>1, <2>3, <3>3, <5>1 DEF Older
        <5>. QED
          BY <2>3, <5>1, <5>2
      <4>2. active'[m] = active[m]
        BY <1>3, <1>5, <3>3
      <4>. QED
        BY <1>2, <2>1, <4>1, <4>2 DEF Older
    <3>. QED
      BY <3>1, <3>2, <3>3 DEF Records
  <2>. QED
    BY <1>2, <2>1, <2>2, <2>4, <2>5 DEF Older
<1>. QED
  BY <1>6, <1>7, <1>8, <1>9, <1>10 DEF HostInv

\* A replacement begins.
LEMMA ReplaceModuleKeeps ==
  ASSUME HostInv, NEW r \in Replacements, NEW m \in Modules, ReplaceModule(r, m)
  PROVE  HostInv'
<1>1. HostTypes /\ StartInv /\ BelongInv /\ DisposeInv
  BY DEF HostInv
<1>2. /\ ~Disposed /\ replacer[r].at = "none" /\ rec[current[m]].status \in {"ready", "active", "suspended"}
      /\ replacer' = [replacer EXCEPT ![r] = [at |-> "activating", previous |-> current[m]]]
      /\ crossed' = IF BeingReplaced(m) THEN crossed \cup {m} ELSE crossed
      /\ UNCHANGED <<current, entries, active, starter, suspender, disposer>>
  BY DEF ReplaceModule
<1>3. PICK new : /\ new = [module |-> m, generation |-> rec[current[m]].generation + 1,
                           status |-> "activating", context |-> TRUE]
                 /\ rec' = [rec EXCEPT ![r] = new]
  BY DEF ReplaceModule
<1>4. /\ Modules \subseteq Records /\ Replacements \subseteq Records /\ NoRecord \notin Records
      /\ NoRecord \notin Modules /\ Modules \cap Replacements = {}
  BY RecordFacts
<1>5. current[m] \in Records /\ rec[current[m]].module = m /\ rec[current[m]].generation \in Nat
  BY <1>1 DEF HostTypes, HostRecord, BelongInv
<1>6. new \in HostRecord /\ new.module = m /\ new.generation = rec[current[m]].generation + 1
      /\ new.status = "activating" /\ new.context
  BY <1>3, <1>5 DEF HostRecord, HostStatuses
<1>7. /\ rec' \in [Records -> HostRecord]
      /\ \A x \in Records : rec'[x] = IF x = r THEN new ELSE rec[x]
  BY <1>1, <1>3, <1>4, <1>6 DEF HostTypes
<1>8. /\ replacer' \in [Replacements -> Replacing]
      /\ \A q \in Replacements : q # r => replacer'[q] = replacer[q]
      /\ replacer'[r].at = "activating" /\ replacer'[r].previous = current[m]
  BY <1>1, <1>2, <1>5 DEF HostTypes, Replacing
\* The record is new to everyone.
<1>9. /\ rec[r].module = NoRecord /\ rec[r].status = "registered" /\ ~rec[r].context
      /\ \A x : Begun(x) => x # r
  BY <1>1, <1>2, <1>4 DEF BelongInv, Begun
<1>10. /\ \A e \in entries : e # r /\ e \in Records
       /\ \A k \in Modules : /\ k # r /\ current[k] # r /\ current[k] \in Records
                             /\ active[k] # r /\ active[k] \in Records \cup {NoRecord}
       /\ \A q \in Replacements : replacer[q].at # "none" => replacer[q].previous # r
  <2>1. \A e \in entries : e # r /\ e \in Records
    BY <1>1, <1>9 DEF BelongInv, HostTypes
  <2>2. \A k \in Modules : k # r /\ current[k] # r /\ current[k] \in Records
    BY <1>1, <1>4, <1>9 DEF BelongInv, HostTypes
  <2>3. \A k \in Modules : active[k] # r /\ active[k] \in Records \cup {NoRecord}
    BY <1>1, <1>4, <1>9 DEF BelongInv, HostTypes
  <2>4. \A q \in Replacements : replacer[q].at # "none" => replacer[q].previous # r
    BY <1>1, <1>4, <1>9 DEF BelongInv
  <2>. QED
    BY <2>1, <2>2, <2>3, <2>4
<1>11. ~Young(m)
  BY <1>1, <1>2 DEF StartInv, Young
<1>12. HostTypes'
  BY <1>1, <1>2, <1>7, <1>8 DEF HostTypes
<1>13. BelongInv'
  <2>1. \A k \in Modules : rec'[k].module = k /\ rec'[current'[k]].module = k
    BY <1>1, <1>2, <1>4, <1>7, <1>10 DEF BelongInv
  <2>2. \A k \in Modules : active'[k] # NoRecord => active'[k] \in entries' /\ rec'[active'[k]].module = k
    BY <1>1, <1>2, <1>7, <1>10 DEF BelongInv
  <2>3. \A e \in entries' : rec'[e].context
    BY <1>1, <1>2, <1>7, <1>10 DEF BelongInv
  <2>4. ASSUME NEW q \in Replacements, q # r
        PROVE  IF replacer'[q].at = "none"
               THEN rec'[q].module = NoRecord /\ rec'[q].status = "registered" /\ ~rec'[q].context
               ELSE /\ rec'[q].module \in Modules /\ replacer'[q].previous \in Records
                    /\ rec'[replacer'[q].previous].module = rec'[q].module
                    /\ rec'[rec'[q].module].status \notin {"registered", "activating"}
    <3>1. rec'[q] = rec[q] /\ replacer'[q] = replacer[q]
      BY <1>4, <1>7, <1>8, <2>4
    <3>2. CASE replacer[q].at = "none"
      BY <1>1, <3>1, <3>2 DEF BelongInv
    <3>3. CASE replacer[q].at # "none"
      <4>1. /\ rec[q].module \in Modules /\ replacer[q].previous \in Records
            /\ rec[replacer[q].previous].module = rec[q].module /\ ~Young(rec[q].module)
        BY <1>1, <3>3 DEF BelongInv
      <4>2. rec'[replacer[q].previous] = rec[replacer[q].previous] /\ rec'[rec[q].module] = rec[rec[q].module]
        BY <1>4, <1>7, <1>10, <3>3, <4>1
      <4>. QED
        BY <3>1, <3>3, <4>1, <4>2 DEF Young
    <3>. QED
      BY <3>2, <3>3
  <2>5. /\ replacer'[r].at # "none"
        /\ rec'[r].module \in Modules /\ replacer'[r].previous \in Records
        /\ rec'[replacer'[r].previous].module = rec'[r].module
        /\ rec'[rec'[r].module].status \notin {"registered", "activating"}
    <3>1. rec'[r].module = m
      BY <1>4, <1>6, <1>7
    <3>2. rec'[current[m]] = rec[current[m]] /\ rec'[m] = rec[m]
      BY <1>4, <1>7, <1>10
    <3>. QED
      BY <1>5, <1>8, <1>11, <3>1, <3>2 DEF Young
  <2>. QED
    BY <2>1, <2>2, <2>3, <2>4, <2>5 DEF BelongInv, Young
<1>14. StartInv'
  <2>1. \A k \in Modules : rec'[k] = rec[k]
    BY <1>4, <1>7, <1>10
  <2>2. \A q \in Replacements : rec'[q].status = "activating" => replacer'[q].at = "activating"
    BY <1>1, <1>4, <1>7, <1>8 DEF StartInv
  <2>3. \A x : Begun(x) => x \in Records /\ rec'[x] = rec[x]
    BY <1>7, <1>9 DEF Begun
  <2>4. starter.at \in {"activating", "readying", "rolling"} =>
          /\ starter.i \in 1..Len(Order) /\ starter.record \in Records /\ rec'[starter.record].module \in Modules
          /\ disposer.at \in {"none", "waiting"}
    BY <1>1, <2>3 DEF StartInv, Begun
  <2>5. starter.at = "activating" =>
          /\ starter.record = Order[starter.i] /\ rec'[starter.record].status = "activating"
          /\ \A j \in 1..Len(Order) : j > starter.i => rec'[Order[j]].status = "registered"
    BY <1>1, <2>1, <2>3, OrderFacts DEF StartInv
  <2>6. suspender.at = "suspending" =>
          /\ suspender.i \in 1..Len(Order) /\ suspender.record \in Records
          /\ rec'[suspender.record].module \in Modules
          /\ rec'[suspender.record].status \notin {"registered", "activating"}
    BY <1>1, <2>3 DEF StartInv, Begun, Young
  <2>. QED
    BY <1>1, <1>2, <2>1, <2>2, <2>4, <2>5, <2>6 DEF StartInv, Begun, Young, Disposed
<1>15. DisposeInv'
  <2>1. disposer.at \in {"none", "waiting"} /\ crossed \subseteq crossed'
    BY <1>2 DEF Disposed
  <2>2. \A x \in Records : rec[x].module \in Modules => rec'[x].module \in Modules
    BY <1>6, <1>7
  <2>. QED
    BY <1>1, <1>2, <2>1, <2>2, CalmDispose
<1>16. ASSUME NEW k \in Modules, k \notin crossed'
       PROVE  Older(k)'
  <2>1. Older(k)
    BY <1>2, <1>16 DEF HostInv
  <2>2. current'[k] = current[k] /\ rec'[current[k]] = rec[current[k]]
    BY <1>2, <1>7, <1>10
  <2>3. ASSUME NEW q \in Replacements, q # r, InFlight(q)', rec'[q].module = k
        PROVE  /\ InFlight(q) /\ rec[q].module = k /\ k # m
               /\ replacer'[q].previous = current[k] /\ rec'[q].generation = rec[current[k]].generation + 1
    <3>1. InFlight(q) /\ rec[q].module = k /\ rec'[q] = rec[q]
      BY <1>4, <1>7, <1>8, <2>3 DEF InFlight
    <3>2. BeingReplaced(k)
      BY <3>1 DEF BeingReplaced
    <3>3. k # m
      BY <1>2, <1>16, <3>2
    <3>. QED
      BY <1>8, <2>1, <2>3, <3>1, <3>3 DEF Older
  <2>4. rec'[r].module = m /\ rec'[r].generation = rec[current[m]].generation + 1
    BY <1>4, <1>6, <1>7
  <2>5. \A q \in Replacements : InFlight(q)' /\ rec'[q].module = k =>
          /\ replacer'[q].previous = current'[k] /\ rec'[q].generation = rec'[current'[k]].generation + 1
          /\ ~Disposed' /\ \A p \in Replacements : InFlight(p)' /\ rec'[p].module = k => p = q
    <3>1. SUFFICES ASSUME NEW q \in Replacements, InFlight(q)', rec'[q].module = k
                   PROVE  /\ replacer'[q].previous = current[k] /\ rec'[q].generation = rec[current[k]].generation + 1
                          /\ ~Disposed' /\ \A p \in Replacements : InFlight(p)' /\ rec'[p].module = k => p = q
      BY <2>2
    <3>2. ~Disposed'
      BY <1>2 DEF Disposed
    <3>3. CASE q = r
      BY <1>8, <2>3, <2>4, <3>1, <3>2, <3>3
    <3>4. CASE q # r
      <4>1. /\ InFlight(q) /\ rec[q].module = k /\ k # m
            /\ replacer'[q].previous = current[k] /\ rec'[q].generation = rec[current[k]].generation + 1
        BY <2>3, <3>1, <3>4
      <4>2. \A p \in Replacements : InFlight(p)' /\ rec'[p].module = k => p = q
        <5>1. SUFFICES ASSUME NEW p \in Replacements, InFlight(p)', rec'[p].module = k PROVE p = q
          OBVIOUS
        <5>2. p # r
          BY <2>4, <4>1, <5>1
        <5>3. InFlight(p) /\ rec[p].module = k
          BY <2>3, <5>1, <5>2
        <5>. QED
          BY <2>1, <4>1, <5>3 DEF Older
      <4>. QED
        BY <3>2, <4>1, <4>2
    <3>. QED
      BY <3>3, <3>4
  <2>6. \A e \in entries' : rec'[e].module = k =>
          rec'[e].generation <= rec'[current'[k]].generation \/ (e \in Replacements /\ InFlight(e)')
    <3>1. SUFFICES ASSUME NEW e \in entries, rec'[e].module = k
                   PROVE  rec'[e].generation <= rec[current[k]].generation \/ (e \in Replacements /\ InFlight(e)')
      BY <1>2, <2>2
    <3>2. rec'[e] = rec[e] /\ e # r
      BY <1>7, <1>10
    <3>3. e \in Replacements /\ InFlight(e) => InFlight(e)'
      BY <1>8, <3>2 DEF InFlight
    <3>. QED
      BY <2>1, <3>1, <3>2, <3>3 DEF Older
  <2>7. \A q \in Replacements : replacer'[q].at = "releasing" /\ rec'[q].module = k =>
          rec'[replacer'[q].previous].generation < rec'[current'[k]].generation
    <3>1. SUFFICES ASSUME NEW q \in Replacements, replacer'[q].at = "releasing", rec'[q].module = k
                   PROVE  rec'[replacer'[q].previous].generation < rec[current[k]].generation
      BY <2>2
    <3>2. q # r /\ replacer'[q] = replacer[q] /\ rec'[q] = rec[q]
      BY <1>4, <1>7, <1>8, <3>1
    <3>3. replacer[q].previous \in Records /\ replacer[q].previous # r
      BY <1>1, <1>10, <3>1, <3>2 DEF BelongInv
    <3>4. rec'[replacer[q].previous] = rec[replacer[q].previous]
      BY <1>7, <3>3
    <3>. QED
      BY <2>1, <3>1, <3>2, <3>4 DEF Older
  <2>8. active'[k] \in {NoRecord, current'[k]} \/
          /\ current'[k] \notin entries'
          /\ \E q \in Replacements : replacer'[q].at = "releasing" /\ replacer'[q].previous = active'[k]
    <3>1. active[k] \in {NoRecord, current[k]} \/
            /\ current[k] \notin entries
            /\ \E q \in Replacements : replacer[q].at = "releasing" /\ replacer[q].previous = active[k]
      BY <2>1 DEF Older
    <3>2. \A q \in Replacements : replacer[q].at = "releasing" => replacer'[q] = replacer[q]
      BY <1>2, <1>8
    <3>. QED
      BY <1>2, <3>1, <3>2
  <2>. QED
    BY <2>5, <2>6, <2>7, <2>8 DEF Older
<1>. QED
  BY <1>12, <1>13, <1>14, <1>15, <1>16 DEF HostInv

\* What becomes visible with a new generation: what is registered under its owner, which is
\* the new generation itself when no calls crossed, or what was visible before.
LEMMA VisibleFacts ==
  ASSUME HostInv, NEW r \in Replacements, InFlight(r), NEW m \in Modules, m = rec[r].module
  PROVE  /\ MadeVisible(r) \in [Modules -> Records \cup {NoRecord}]
         /\ \A k \in Modules : k # m => MadeVisible(r)[k] = active[k]
         /\ MadeVisible(r)[m] # active[m] =>
              MadeVisible(r)[m] \in entries /\ rec[MadeVisible(r)[m]].module = m
         /\ m \notin crossed =>
              MadeVisible(r)[m] = r \/ (r \notin entries /\ MadeVisible(r)[m] = active[m])
<1>1. HostTypes
  BY DEF HostInv
<1>. PICK staged : staged = {e \in entries : SameOwner(e, r)}
  OBVIOUS
<1>2. MadeVisible(r) = IF staged = {} THEN active ELSE [active EXCEPT ![m] = CHOOSE e \in staged : TRUE]
  BY DEF MadeVisible
<1>3. r \in entries => r \in staged
  BY DEF SameOwner
<1>4. CASE staged = {}
  BY <1>1, <1>2, <1>3, <1>4 DEF HostTypes
<1>5. CASE staged # {}
  <2>1. PICK e : e \in staged /\ MadeVisible(r) = [active EXCEPT ![m] = e]
    BY <1>2, <1>5
  <2>2. e \in entries /\ e \in Records /\ rec[e].module = m /\ rec[e].generation = rec[r].generation
    BY <1>1, <2>1 DEF SameOwner, HostTypes
  <2>3. /\ MadeVisible(r) \in [Modules -> Records \cup {NoRecord}]
        /\ MadeVisible(r)[m] = e
        /\ \A k \in Modules : k # m => MadeVisible(r)[k] = active[k]
    BY <1>1, <2>1, <2>2 DEF HostTypes
  <2>4. m \notin crossed => e = r
    <3>1. SUFFICES ASSUME m \notin crossed PROVE e = r
      OBVIOUS
    <3>2. Older(m)
      BY <3>1 DEF HostInv
    <3>3. rec[current[m]].generation \in Nat
      BY <1>1 DEF HostTypes, HostRecord
    <3>4. rec[r].generation = rec[current[m]].generation + 1
      BY <3>2 DEF Older
    <3>5. e \in Replacements /\ InFlight(e)
      BY <2>2, <3>2, <3>3, <3>4 DEF Older
    <3>. QED
      BY <2>2, <3>2, <3>5 DEF Older
  <2>. QED
    BY <2>2, <2>3, <2>4
<1>. QED
  BY <1>4, <1>5

\* The new generation takes the place of the old one.
LEMMA SwapInKeeps ==
  ASSUME HostInv, NEW r \in Replacements, SwapIn(r)
  PROVE  HostInv'
<1>1. HostTypes /\ StartInv /\ BelongInv /\ DisposeInv
  BY DEF HostInv
<1>2. /\ replacer[r].at = "readying"
      /\ replacer' = CallAt(r, "releasing")
      /\ active' = MadeVisible(r)
      /\ current' = [current EXCEPT ![rec[r].module] = r]
      /\ UNCHANGED <<entries, starter, suspender, disposer, crossed>>
  BY DEF SwapIn, CallAt
<1>3. /\ Modules \subseteq Records /\ Replacements \subseteq Records /\ NoRecord \notin Records
      /\ Modules \cap Replacements = {}
  BY RecordFacts
<1>4. PICK m \in Modules : m = rec[r].module
  BY <1>2, RecordFacts
<1>5. PICK old \in Records : old = replacer[r].previous /\ rec[old].module = m /\ ~Young(m)
  BY <1>1, <1>2, <1>4 DEF BelongInv
<1>6. /\ rec' \in [Records -> HostRecord]
      /\ \A x \in Records : /\ rec'[x].module = rec[x].module /\ rec'[x].generation = rec[x].generation
                            /\ rec'[x].context = rec[x].context
                            /\ rec'[x].status = rec[x].status \/
                                 (x \in {r, old} /\ rec'[x].status \notin {"registered", "activating"})
  <2>. PICK all : all = WithStatus(rec, r, "ready")
    OBVIOUS
  <2>1. rec' = WithStatus(all, old, "disposing") /\ rec \in [Records -> HostRecord] /\ r \in Records
    BY <1>1, <1>3, <1>5 DEF SwapIn, HostTypes
  <2>2. /\ all \in [Records -> HostRecord]
        /\ \A x \in Records : /\ all[x].module = rec[x].module /\ all[x].generation = rec[x].generation
                              /\ all[x].context = rec[x].context
                              /\ all[x].status = IF x = r THEN "ready" ELSE rec[x].status
    BY <2>1, StatusFields DEF HostStatuses
  <2>3. /\ rec' \in [Records -> HostRecord]
        /\ \A x \in Records : /\ rec'[x].module = all[x].module /\ rec'[x].generation = all[x].generation
                              /\ rec'[x].context = all[x].context
                              /\ rec'[x].status = IF x = old THEN "disposing" ELSE all[x].status
    <3>1. "disposing" \in HostStatuses
      BY DEF HostStatuses
    <3>2. /\ WithStatus(all, old, "disposing") \in [Records -> HostRecord]
          /\ \A x \in Records :
                  /\ WithStatus(all, old, "disposing")[x].module = all[x].module
                  /\ WithStatus(all, old, "disposing")[x].generation = all[x].generation
                  /\ WithStatus(all, old, "disposing")[x].context = all[x].context
                  /\ WithStatus(all, old, "disposing")[x].status = IF x = old THEN "disposing" ELSE all[x].status
      BY ONLY old \in Records, <2>2, <3>1, StatusFields
    <3>. QED
      BY <2>1, <3>2
  <2>. QED
    BY <2>2, <2>3
<1>7. /\ replacer' \in [Replacements -> Replacing]
      /\ \A q \in Replacements : q # r => replacer'[q] = replacer[q]
      /\ replacer'[r].at = "releasing" /\ replacer'[r].previous = old
  BY <1>1, <1>2, <1>5 DEF HostTypes, Replacing, CallAt
<1>8. /\ current' \in [Modules -> Records]
      /\ current'[m] = r /\ \A k \in Modules : k # m => current'[k] = current[k]
  BY <1>1, <1>2, <1>3, <1>4 DEF HostTypes
<1>9. InFlight(r)
  BY <1>2 DEF InFlight
<1>10. /\ active' \in [Modules -> Records \cup {NoRecord}]
       /\ \A k \in Modules : k # m => active'[k] = active[k]
       /\ active'[m] # active[m] => active'[m] \in entries /\ rec[active'[m]].module = m
       /\ m \notin crossed => active'[m] = r \/ (r \notin entries /\ active'[m] = active[m])
  BY <1>2, <1>4, <1>9, VisibleFacts
<1>11. \A k \in Modules : Young(k) => k # m /\ k # old /\ rec'[k].status = rec[k].status
  <2>1. \A k \in Modules : Young(k) => k # m /\ k # old /\ k # r
    BY <1>1, <1>3, <1>5 DEF BelongInv
  <2>. QED
    BY <1>3, <1>6, <2>1
<1>12. \A x \in Records : rec'[x].status \in {"registered", "activating"} => rec'[x].status = rec[x].status
  BY <1>6
<1>13. HostTypes'
  BY <1>1, <1>2, <1>6, <1>7, <1>8, <1>10 DEF HostTypes
<1>14. BelongInv'
  <2>1. \A k \in Modules : rec'[k].module = k /\ rec'[current'[k]].module = k
    BY <1>1, <1>3, <1>4, <1>6, <1>8 DEF BelongInv, HostTypes
  <2>2. \A k \in Modules : active'[k] # NoRecord => active'[k] \in entries' /\ rec'[active'[k]].module = k
    <3>1. SUFFICES ASSUME NEW k \in Modules, active'[k] # NoRecord
                   PROVE  active'[k] \in entries /\ rec'[active'[k]].module = k
      BY <1>2
    <3>2. active'[k] \in entries /\ rec[active'[k]].module = k
      BY <1>1, <1>10, <3>1 DEF BelongInv
    <3>. QED
      BY <1>1, <1>6, <3>2 DEF HostTypes
  <2>3. \A e \in entries' : rec'[e].context
    BY <1>1, <1>2, <1>6 DEF BelongInv, HostTypes
  <2>4. ASSUME NEW q \in Replacements
        PROVE  IF replacer'[q].at = "none"
               THEN rec'[q].module = NoRecord /\ rec'[q].status = "registered" /\ ~rec'[q].context
               ELSE /\ rec'[q].module \in Modules /\ replacer'[q].previous \in Records
                    /\ rec'[replacer'[q].previous].module = rec'[q].module
                    /\ rec'[rec'[q].module].status \notin {"registered", "activating"}
    <3>1. /\ replacer'[q].at = "none" <=> replacer[q].at = "none"
          /\ replacer'[q].previous = replacer[q].previous
      BY <1>2, <1>5, <1>7
    <3>2. CASE replacer[q].at = "none"
      <4>1. rec[q].module = NoRecord /\ rec[q].status = "registered" /\ ~rec[q].context
        BY <1>1, <3>2 DEF BelongInv
      <4>2. q # r /\ q # old /\ q \in Records
        BY <1>2, <1>3, <1>5, <3>2, <4>1
      <4>. QED
        BY <1>6, <3>1, <3>2, <4>1, <4>2
    <3>3. CASE replacer[q].at # "none"
      <4>1. /\ rec[q].module \in Modules /\ replacer[q].previous \in Records
            /\ rec[replacer[q].previous].module = rec[q].module /\ ~Young(rec[q].module)
        BY <1>1, <3>3 DEF BelongInv
      <4>2. PICK k \in Modules : k = rec[q].module /\ k = rec'[q].module
        BY <1>3, <1>6, <4>1
      <4>3. rec'[k].status \notin {"registered", "activating"}
        BY <1>3, <1>12, <4>1, <4>2 DEF Young
      <4>4. rec'[replacer[q].previous].module = k
        BY <1>6, <4>1, <4>2
      <4>. QED
        BY <3>1, <3>3, <4>1, <4>2, <4>3, <4>4
    <3>. QED
      BY <3>2, <3>3
  <2>. QED
    BY <2>1, <2>2, <2>3, <2>4 DEF BelongInv, Young
<1>15. StartInv'
  <2>1. \A k \in Modules : rec'[k].status \in {"registered", "activating"} => current'[k] = k
    BY <1>1, <1>3, <1>8, <1>11, <1>12 DEF StartInv, Young
  <2>2. \A q \in Replacements : rec'[q].status = "activating" => replacer'[q].at = "activating"
    <3>1. rec[r].status # "activating"
      BY <1>1, <1>2 DEF StartInv
    <3>. QED
      BY <1>1, <1>3, <1>7, <1>12, <3>1 DEF StartInv
  <2>3. \A k \in Modules : rec'[k].status = "activating" => starter.at = "activating" /\ starter.record = k
    BY <1>1, <1>3, <1>12 DEF StartInv
  <2>4. starter.at = "none" /\ ~Disposed => \A k \in Modules : rec'[k].status = "registered"
    BY <1>1, <1>11 DEF StartInv, Young
  <2>5. starter.at \in {"activating", "readying", "rolling"} =>
          /\ starter.i \in 1..Len(Order) /\ starter.record \in Records /\ rec'[starter.record].module \in Modules
          /\ disposer.at \in {"none", "waiting"}
    BY <1>1, <1>6 DEF StartInv, Begun
  <2>6. starter.at = "activating" =>
          /\ starter.record = Order[starter.i] /\ rec'[starter.record].status = "activating"
          /\ \A j \in 1..Len(Order) : j > starter.i => rec'[Order[j]].status = "registered"
    BY <1>1, <1>11, OrderFacts DEF StartInv, Young
  <2>7. suspender.at = "suspending" =>
          /\ suspender.i \in 1..Len(Order) /\ suspender.record \in Records
          /\ rec'[suspender.record].module \in Modules
          /\ rec'[suspender.record].status \notin {"registered", "activating"}
    BY <1>1, <1>6, <1>12 DEF StartInv, Begun, Young
  <2>. QED
    BY <1>2, <2>1, <2>2, <2>3, <2>4, <2>5, <2>6, <2>7 DEF StartInv, Begun, Young, Disposed
<1>16. DisposeInv'
  <2>1. disposer.at \in {"none", "waiting"} \/ \A k \in Modules \ crossed' : current'[k] = current[k]
    <3>1. SUFFICES ASSUME disposer.at \notin {"none", "waiting"}, NEW k \in Modules, k \notin crossed
                   PROVE  current'[k] = current[k]
      BY <1>2
    <3>2. Older(k) /\ Disposed
      BY <3>1 DEF HostInv, Disposed
    <3>3. k # m
      BY <1>4, <1>9, <3>2 DEF Older
    <3>. QED
      BY <1>8, <3>3
  <2>2. \A x \in Records : rec[x].module \in Modules => rec'[x].module \in Modules
    BY <1>6
  <2>3. \A x \in Records : rec'[x].context => rec[x].context
    BY <1>6
  <2>. QED
    BY <1>1, <1>2, <2>1, <2>2, <2>3, CalmDispose
<1>17. ASSUME NEW k \in Modules, k \notin crossed'
       PROVE  Older(k)'
  <2>1. Older(k)
    BY <1>2, <1>17 DEF HostInv
  <2>2. /\ \A q \in Replacements : InFlight(q)' <=> InFlight(q) /\ q # r
        /\ \A q \in Replacements : replacer'[q].at = "releasing" => replacer[q].at = "releasing" \/ q = r
        /\ \A q \in Replacements : replacer[q].at = "releasing" => replacer'[q].at = "releasing"
        /\ \A q \in Replacements : replacer'[q].previous = replacer[q].previous
    BY <1>2, <1>5, <1>7 DEF InFlight
  <2>3. \A q \in Replacements : replacer[q].at # "none" => replacer[q].previous \in Records
    BY <1>1 DEF BelongInv
  <2>4. Disposed' <=> Disposed
    BY <1>2 DEF Disposed
  <2>5. current[k] \in Records /\ rec[current[k]].generation \in Nat /\ r \in Records
    BY <1>1, <1>3 DEF HostTypes, HostRecord
  <2>6. CASE k # m
    <3>1. /\ current'[k] = current[k] /\ active'[k] = active[k]
          /\ rec'[current[k]].generation = rec[current[k]].generation
      BY <1>6, <1>8, <1>10, <2>5, <2>6
    <3>2. \A q \in Replacements : InFlight(q)' /\ rec'[q].module = k =>
            /\ replacer'[q].previous = current'[k] /\ rec'[q].generation = rec'[current'[k]].generation + 1
            /\ ~Disposed' /\ \A p \in Replacements : InFlight(p)' /\ rec'[p].module = k => p = q
      BY <1>3, <1>6, <2>1, <2>2, <2>4, <3>1 DEF Older
    <3>3. \A e \in entries' : rec'[e].module = k =>
            rec'[e].generation <= rec'[current'[k]].generation \/ (e \in Replacements /\ InFlight(e)')
      <4>1. SUFFICES ASSUME NEW e \in entries, rec'[e].module = k
                     PROVE  rec'[e].generation <= rec[current[k]].generation \/ (e \in Replacements /\ InFlight(e)')
        BY <1>2, <3>1
      <4>2. e \in Records /\ rec[e].module = k /\ rec'[e].generation = rec[e].generation
        BY <1>1, <1>6, <4>1 DEF HostTypes
      <4>3. e # r
        BY <1>4, <2>6, <4>2
      <4>. QED
        BY <2>1, <2>2, <4>2, <4>3 DEF Older
    <3>4. \A q \in Replacements : replacer'[q].at = "releasing" /\ rec'[q].module = k =>
            rec'[replacer'[q].previous].generation < rec'[current'[k]].generation
      <4>1. SUFFICES ASSUME NEW q \in Replacements, replacer'[q].at = "releasing", rec'[q].module = k
                     PROVE  rec'[replacer[q].previous].generation < rec[current[k]].generation
        BY <2>2, <3>1
      <4>2. rec[q].module = k /\ q # r
        BY <1>3, <1>4, <1>6, <2>6, <4>1
      <4>3. replacer[q].at = "releasing" /\ replacer[q].previous \in Records
        BY <2>2, <2>3, <4>1, <4>2
      <4>. QED
        BY <1>6, <2>1, <4>2, <4>3 DEF Older
    <3>5. active'[k] \in {NoRecord, current'[k]} \/
            /\ current'[k] \notin entries'
            /\ \E q \in Replacements : replacer'[q].at = "releasing" /\ replacer'[q].previous = active'[k]
      BY <1>2, <2>1, <2>2, <3>1 DEF Older
    <3>. QED
      BY <3>2, <3>3, <3>4, <3>5 DEF Older
  <2>7. CASE k = m
    <3>1. /\ current'[k] = r /\ rec'[r].generation = rec[current[k]].generation + 1
          /\ old = current[k] /\ \A q \in Replacements : InFlight(q) /\ rec[q].module = k => q = r
      BY <1>4, <1>5, <1>6, <1>8, <1>9, <2>1, <2>5, <2>7 DEF Older
    <3>2. \A q \in Replacements : ~(InFlight(q)' /\ rec'[q].module = k)
      BY <1>3, <1>6, <2>2, <3>1
    <3>3. \A e \in entries' : rec'[e].module = k => rec'[e].generation <= rec'[r].generation
      <4>1. SUFFICES ASSUME NEW e \in entries, rec'[e].module = k
                     PROVE  rec'[e].generation <= rec[current[k]].generation + 1
        BY <1>2, <3>1
      <4>2. /\ e \in Records /\ rec[e].module = k /\ rec'[e].generation = rec[e].generation
            /\ rec[e].generation \in Nat
        BY <1>1, <1>6, <4>1 DEF HostTypes, HostRecord
      <4>3. CASE rec[e].generation <= rec[current[k]].generation
        BY <2>5, <4>2, <4>3
      <4>4. CASE e \in Replacements /\ InFlight(e)
        BY <2>5, <3>1, <4>2, <4>4
      <4>. QED
        BY <2>1, <4>2, <4>3, <4>4 DEF Older
    <3>4. \A q \in Replacements : replacer'[q].at = "releasing" /\ rec'[q].module = k =>
            rec'[replacer'[q].previous].generation < rec'[r].generation
      <4>1. SUFFICES ASSUME NEW q \in Replacements, replacer'[q].at = "releasing", rec'[q].module = k
                     PROVE  rec'[replacer[q].previous].generation < rec[current[k]].generation + 1
        BY <2>2, <3>1
      <4>2. CASE q = r
        <5>1. rec'[replacer[q].previous].generation = rec[current[k]].generation
          BY <1>5, <1>6, <3>1, <4>2
        <5>. QED
          BY <2>5, <5>1
      <4>3. CASE q # r
        <5>1. rec[q].module = k /\ replacer[q].at = "releasing" /\ replacer[q].previous \in Records
          BY <1>3, <1>6, <2>2, <2>3, <4>1, <4>3
        <5>2. /\ rec'[replacer[q].previous].generation = rec[replacer[q].previous].generation
              /\ rec[replacer[q].previous].generation \in Nat
          BY <1>1, <1>6, <5>1 DEF HostTypes, HostRecord
        <5>3. rec[replacer[q].previous].generation < rec[current[k]].generation
          BY <2>1, <5>1 DEF Older
        <5>. QED
          BY <2>5, <5>2, <5>3
      <4>. QED
        BY <4>2, <4>3
    <3>5. active'[k] \in {NoRecord, r} \/
            /\ r \notin entries'
            /\ \E q \in Replacements : replacer'[q].at = "releasing" /\ replacer'[q].previous = active'[k]
      <4>1. SUFFICES ASSUME active'[k] # r, active'[k] # NoRecord
                     PROVE  /\ r \notin entries
                            /\ \E q \in Replacements : replacer'[q].at = "releasing" /\ replacer'[q].previous = active'[k]
        BY <1>2
      <4>2. r \notin entries /\ active'[k] = active[k]
        BY <1>2, <1>10, <1>17, <2>7, <4>1
      <4>3. CASE active[k] = current[k]
        <5>1. replacer'[r].at = "releasing" /\ replacer'[r].previous = active'[k]
          BY <1>7, <3>1, <4>2, <4>3
        <5>. QED
          BY <4>2, <5>1
      <4>4. CASE active[k] # current[k]
        <5>1. \E q \in Replacements : replacer[q].at = "releasing" /\ replacer[q].previous = active[k]
          BY <2>1, <4>1, <4>2, <4>4 DEF Older
        <5>. QED
          BY <2>2, <4>2, <5>1
      <4>. QED
        BY <4>3, <4>4
    <3>. QED
      BY <3>1, <3>2, <3>3, <3>4, <3>5 DEF Older
  <2>. QED
    BY <2>6, <2>7
<1>. QED
  BY <1>13, <1>14, <1>15, <1>16, <1>17 DEF HostInv

\* The invariant holds at the beginning.
LEMMA HostStarts == HostInit => HostInv
<1>. SUFFICES ASSUME HostInit PROVE HostInv
  OBVIOUS
<1>1. /\ Modules \subseteq Records /\ Replacements \subseteq Records /\ NoRecord \notin Records
      /\ Modules \cap Replacements = {}
  BY HostAssumption DEF Records
<1>2. /\ current \in [Modules -> Records] /\ \A m \in Modules : current[m] = m
      /\ active \in [Modules -> Records \cup {NoRecord}] /\ \A m \in Modules : active[m] = NoRecord
      /\ entries = {} /\ crossed = {}
  BY <1>1 DEF HostInit
<1>3. /\ starter = [at |-> "none", i |-> 0, record |-> NoRecord]
      /\ suspender = [at |-> "none", i |-> 0, record |-> NoRecord]
      /\ disposer = [at |-> "none", i |-> 0, record |-> NoRecord]
  BY DEF HostInit, NoWalk
<1>4. /\ rec \in [Records -> HostRecord]
      /\ \A r \in Records : /\ rec[r].module = IF r \in Modules THEN r ELSE NoRecord
                            /\ rec[r].status = "registered" /\ ~rec[r].context
  BY DEF HostInit, HostRecord, HostStatuses
<1>5. /\ replacer \in [Replacements -> Replacing]
      /\ \A r \in Replacements : replacer[r].at = "none"
  BY DEF HostInit, Replacing
<1>6. HostTypes
  BY <1>2, <1>3, <1>4, <1>5 DEF HostTypes, WalkOf
<1>7. BelongInv
  BY <1>1, <1>2, <1>4, <1>5 DEF BelongInv
<1>8. StartInv
  BY <1>1, <1>2, <1>3, <1>4 DEF StartInv
<1>9. DisposeInv
  BY <1>3 DEF DisposeInv
<1>10. \A m \in Modules : Older(m)
  BY <1>2, <1>5 DEF Older, InFlight
<1>. QED
  BY <1>6, <1>7, <1>8, <1>9, <1>10 DEF HostInv

\* Every step keeps it.
LEMMA HostStep == HostInv /\ [HostNext]_hostVars => HostInv'
<1>. SUFFICES ASSUME HostInv, [HostNext]_hostVars PROVE HostInv'
  OBVIOUS
<1>1. CASE StartHost
  BY <1>1, StartHostKeeps
<1>2. CASE StartActivated
  BY <1>2, StartActivatedKeeps
<1>3. CASE StartReady
  BY <1>3, StartReadyKeeps
<1>4. CASE StartFails
  BY <1>4, StartFailsKeeps
<1>5. CASE RollbackNext
  BY <1>5, RollbackNextKeeps
<1>6. CASE SuspendHost
  BY <1>6, SuspendHostKeeps
<1>7. CASE SuspendNext
  BY <1>7, SuspendNextKeeps
<1>8. CASE DisposeHost
  BY <1>8, DisposeHostKeeps
<1>9. CASE DisposeBegins
  BY <1>9, DisposeBeginsKeeps
<1>10. CASE DisposeNext
  BY <1>10, DisposeNextKeeps
<1>11. ASSUME NEW r \in Records, RegisterService(r) PROVE HostInv'
  BY <1>11, RegisterServiceKeeps
<1>12. ASSUME NEW r \in Replacements, NEW m \in Modules, ReplaceModule(r, m) PROVE HostInv'
  BY <1>12, ReplaceModuleKeeps
<1>13. ASSUME NEW r \in Replacements, ReplacementActivated(r) PROVE HostInv'
  BY <1>13, ReplacementActivatedKeeps
<1>14. ASSUME NEW r \in Replacements, SwapIn(r) PROVE HostInv'
  BY <1>14, SwapInKeeps
<1>15. ASSUME NEW r \in Replacements, ReleaseEnds(r) PROVE HostInv'
  BY <1>15, ReleaseEndsKeeps
<1>16. ASSUME NEW r \in Replacements, ReplacementFails(r) PROVE HostInv'
  BY <1>16, ReplacementFailsKeeps
<1>17. ASSUME NEW r \in Replacements, DropEnds(r) PROVE HostInv'
  BY <1>17, DropEndsKeeps
<1>18. CASE UNCHANGED hostVars
  BY <1>18 DEF hostVars, HostInv, HostTypes, BelongInv, StartInv, DisposeInv, Older, Begun, Young,
               InFlight, Disposed, RecordAt
<1>. QED
  BY <1>1, <1>2, <1>3, <1>4, <1>5, <1>6, <1>7, <1>8, <1>9, <1>10, <1>11, <1>12, <1>13, <1>14,
     <1>15, <1>16, <1>17, <1>18 DEF HostNext

\* The invariant of the module host: however start, suspend, dispose and replacements
\* overlap, records keep their modules, the start activates only the first ones, and on a
\* module on which no two calls crossed the generations stay in order.
THEOREM HostInvariant == HostSpec => []HostInv
<1>. QED
  BY HostStarts, HostStep, PTL DEF HostSpec

\* Whatever the plan and however calls overlap, a service that can be resolved is registered
\* and its module's context is active; once dispose has ended only one that a replacement
\* still releases is left.
THEOREM ServicesAreLive == HostSpec => []OnlyLiveServices
<1>1. HostInv => OnlyLiveServices
  <2>. SUFFICES ASSUME HostInv PROVE OnlyLiveServices
    OBVIOUS
  <2>1. HostTypes /\ BelongInv /\ DisposeInv
    BY DEF HostInv
  <2>2. ASSUME disposer.at = "done", NEW m \in Modules, m \notin crossed
        PROVE  /\ ~rec[current[m]].context
               /\ active[m] # NoRecord =>
                    \E r \in Replacements : replacer[r].at = "releasing" /\ replacer[r].previous = active[m]
    <3>1. PICK j \in 1..Len(Order) : Order[j] = m
      BY OrderFacts
    <3>2. ~rec[current[m]].context
      BY <2>1, <2>2, <3>1 DEF DisposeInv, RecordAt
    <3>3. active[m] # NoRecord => active[m] # current[m]
      BY <2>1, <3>2 DEF BelongInv
    <3>4. Older(m)
      BY <2>2 DEF HostInv
    <3>. QED
      BY <3>2, <3>3, <3>4 DEF Older
  <2>. QED
    BY <2>1, <2>2 DEF OnlyLiveServices, BelongInv
<1>. QED
  BY <1>1, HostInvariant, PTL

\* While a module is replaced its service is at no moment gone, however many generations
\* there are: a swap shows the new one, or leaves the old one to be seen.
THEOREM ReplacementKeepsService == HostSpec => SwapKeepsService
<1>. DEFINE Seen(m) ==
       active[m] # NoRecord /\ ~Disposed' /\ starter'.at \notin {"rolling", "failed"}
         => active'[m] \in {active[m], current'[m]} \/ current'[m] \notin entries
<1>1. ASSUME HostInv, [HostNext]_hostVars, NEW m \in Modules, m \notin crossed'
      PROVE  Seen(m)
  <2>1. HostTypes /\ BelongInv /\ (m \notin crossed => Older(m))
    BY <1>1 DEF HostInv
  <2>2. CASE active' = active
    BY <2>2
  <2>3. CASE StartFails \/ RollbackNext
    BY <2>3 DEF StartFails, RollbackNext, StartGoes
  <2>4. CASE DisposeBegins \/ DisposeNext
    <3>1. Disposed'
      <4>1. PICK limit, all, gone : DisposeFrom(limit, all, gone)
        BY ONLY <2>4 DEF DisposeBegins, DisposeNext
      <4>2. PICK i : disposer' = IF i = 0 THEN [NoWalk EXCEPT !.at = "done"]
                                 ELSE [at |-> "disposing", i |-> i, record |-> RecordAt(i)]
        BY ONLY <4>1 DEF DisposeFrom
      <4>. QED  BY ONLY <4>2 DEF Disposed, NoWalk
    <3>. QED
      BY <3>1
  <2>5. ASSUME NEW r \in Records, RegisterService(r) PROVE Seen(m)
    <3>1. r \in Modules => rec[r].module = r /\ active[r] = NoRecord
      BY <2>1, <2>5 DEF RegisterService, BelongInv
    <3>2. active[m] # NoRecord => active'[m] = active[m]
      BY <2>1, <2>5, <3>1 DEF RegisterService, HostTypes
    <3>. QED
      BY <3>2
  <2>6. ASSUME NEW r \in Replacements, SwapIn(r) PROVE Seen(m)
    <3>1. InFlight(r) /\ active' = MadeVisible(r) /\ crossed' = crossed
          /\ current' = [current EXCEPT ![rec[r].module] = r]
      BY <2>6 DEF SwapIn, InFlight
    <3>2. PICK k \in Modules : k = rec[r].module
      BY <1>1, <3>1, RecordFacts DEF InFlight
    <3>3. /\ m # k => active'[m] = active[m]
          /\ m = k => active'[m] = r \/ active'[m] = active[m]
      BY <1>1, <3>1, <3>2, VisibleFacts
    <3>4. current'[k] = r
      BY <2>1, <3>1, <3>2 DEF HostTypes
    <3>. QED
      BY <3>3, <3>4
  <2>7. ASSUME NEW r \in Replacements, NEW x \in Records, NEW all \in [Records -> HostRecord],
               Cleanup({x}, all), current' = current, crossed' = crossed,
               rec[x].module = m => rec[x].generation # rec[current[m]].generation
        PROVE  Seen(m)
    <3>1. CASE current[m] \notin entries
      BY <2>7, <3>1
    <3>2. CASE current[m] \in entries
      <4>1. active[m] \in {NoRecord, current[m]}
        BY <1>1, <2>1, <2>7, <3>2 DEF Older
      <4>2. rec[current[m]].module = m
        BY <2>1 DEF BelongInv
      <4>3. ~SameOwner(current[m], x)
        BY <2>7, <4>2 DEF SameOwner
      <4>4. current[m] \in entries'
        <5>1. PICK gone : gone = {x}
          OBVIOUS
        <5>2. Cleanup(gone, all)
          BY <2>7, <5>1
        <5>3. \A e \in entries : e \in entries' <=> ~\E y \in gone : SameOwner(e, y)
          BY ONLY all \in [Records -> HostRecord], <2>1, <5>2, CleanupFields
        <5>. QED
          BY <3>2, <4>3, <5>1, <5>3
      <4>5. active[m] # NoRecord => active'[m] = active[m]
        BY <2>1, <2>7, <4>1, <4>4, CleanupFields
      <4>. QED
        BY <4>5
    <3>. QED
      BY <3>1, <3>2
  <2>8. ASSUME NEW r \in Replacements, ReleaseEnds(r) PROVE Seen(m)
    <3>1. PICK x \in Records : x = replacer[r].previous /\ rec[x].module = rec[r].module
      BY <2>1, <2>8 DEF BelongInv, ReleaseEnds
    <3>2. PICK status \in {"disposed", "failed"} : Cleanup({x}, WithStatus(rec, x, status))
      BY <2>8, <3>1 DEF ReleaseEnds
    <3>3. WithStatus(rec, x, status) \in [Records -> HostRecord]
      BY <2>1, StatusFields DEF HostTypes, HostStatuses
    <3>4. rec[x].module = m => rec[x].generation # rec[current[m]].generation
      <4>1. SUFFICES ASSUME rec[x].module = m PROVE rec[x].generation # rec[current[m]].generation
        OBVIOUS
      <4>2. rec[x].generation \in Nat /\ rec[current[m]].generation \in Nat
        BY <2>1 DEF HostTypes, HostRecord
      <4>3. crossed' = crossed /\ replacer[r].at = "releasing"
        BY <2>8 DEF ReleaseEnds
      <4>4. rec[x].generation < rec[current[m]].generation
        BY <1>1, <2>1, <3>1, <4>1, <4>3 DEF Older
      <4>. QED
        BY <4>2, <4>4
    <3>5. current' = current /\ crossed' = crossed
      BY <2>8 DEF ReleaseEnds
    <3>. QED
      BY <2>7, <3>2, <3>3, <3>4, <3>5
  <2>9. ASSUME NEW r \in Replacements, DropEnds(r) PROVE Seen(m)
    <3>1. /\ r \in Records /\ rec \in [Records -> HostRecord] /\ InFlight(r)
          /\ Cleanup({r}, rec) /\ current' = current /\ crossed' = crossed
      BY <1>1, <2>9, RecordFacts DEF DropEnds, InFlight
    <3>2. rec[r].module = m => rec[r].generation # rec[current[m]].generation
      <4>1. SUFFICES ASSUME rec[r].module = m PROVE rec[r].generation # rec[current[m]].generation
        OBVIOUS
      <4>2. rec[current[m]].generation \in Nat
        BY <2>1 DEF HostTypes, HostRecord
      <4>3. rec[r].generation = rec[current[m]].generation + 1
        BY <1>1, <2>1, <3>1, <4>1 DEF Older
      <4>. QED
        BY <4>2, <4>3
    <3>. QED
      BY <2>7, <3>1, <3>2
  <2>10. CASE UNCHANGED hostVars
    BY <2>2, <2>10 DEF hostVars
  <2>. HIDE DEF Seen
  <2>. QED
    BY <1>1, <2>2, <2>3, <2>4, <2>5, <2>6, <2>8, <2>9, <2>10
       DEF HostNext, StartHost, StartActivated, StartReady, SuspendHost, SuspendNext, DisposeHost,
           ReplaceModule, ReplacementActivated, ReplacementFails
<1>2. HostInv /\ [HostNext]_hostVars =>
        [\A m \in Modules \ crossed' :
           active[m] # NoRecord /\ ~Disposed' /\ starter'.at \notin {"rolling", "failed"}
             => active'[m] \in {active[m], current'[m]} \/ current'[m] \notin entries]_hostVars
  BY <1>1
<1>. QED
  BY <1>2, HostInvariant, PTL DEF HostSpec, SwapKeepsService

=============================================================================
