------------------------ MODULE OrderedAdmissionProofs ------------------------
(***************************************************************************)
(* Proofs about OrderedAdmission: what follows for every queue that        *)
(* implements it.                                                          *)
(***************************************************************************)
EXTENDS OrderedAdmission, TLAPS

\* Admitting requests that wait for nobody disturbs nothing that the invariant says of
\* the state it starts from.
LEMMA AdmitKeeps ==
  ASSUME ConflictAssumption,
         NEW st \in [Requests -> {"idle", "waiting", "granted"}],
         NEW sc \in [Requests -> Scopes],
         NEW rv \in [Requests -> SUBSET Requests],
         \A r \in Requests : st[r] # "waiting" => rv[r] = {},
         \A r, q \in Requests :
           r # q /\ st[r] # "idle" /\ st[q] # "idle" /\ Conflict(sc[r], sc[q]) =>
             q \in rv[r] \/ r \in rv[q],
         Admit(st, sc, rv)
  PROVE  AdmissionInv'
<1>1. PICK G \in SUBSET {r \in Requests : st[r] = "waiting" /\ rv[r] = {}} :
        /\ state' = [r \in Requests |-> IF r \in G THEN "granted" ELSE st[r]]
        /\ scope' = sc
        /\ rivals' = rv
  BY DEF Admit
<1>2. \A r \in Requests : state'[r] = IF r \in G THEN "granted" ELSE st[r]
  BY <1>1
<1>3. \A r \in G : st[r] = "waiting" /\ rv[r] = {}
  BY <1>1
<1>4. state' \in [Requests -> {"idle", "waiting", "granted"}]
  BY <1>1
<1>5. \A r \in Requests : state'[r] # "waiting" => rivals'[r] = {}
  BY <1>1, <1>2, <1>3
<1>6. ASSUME NEW r \in Requests, NEW q \in Requests, r # q, state'[r] # "idle", state'[q] # "idle",
             Conflict(scope'[r], scope'[q])
      PROVE  q \in rivals'[r] \/ r \in rivals'[q]
  <2>1. st[r] # "idle" /\ st[q] # "idle"
    BY <1>2, <1>3, <1>6
  <2> QED BY <2>1, <1>1, <1>6
<1> QED BY <1>1, <1>4, <1>5, <1>6 DEF AdmissionInv

\* The invariant is inductive: it holds at the beginning.
LEMMA AdmissionInvInit == ASSUME AdmissionInit PROVE AdmissionInv
BY DEF AdmissionInit, AdmissionInv

\* The invariant is inductive: every step keeps it.
LEMMA AdmissionInvStep ==
  ASSUME ConflictAssumption, AdmissionInv, [AdmissionNext]_admissionVars
  PROVE  AdmissionInv'
<1>0. /\ state \in [Requests -> {"idle", "waiting", "granted"}]
      /\ scope \in [Requests -> Scopes]
      /\ rivals \in [Requests -> SUBSET Requests]
      /\ \A r \in Requests : state[r] # "waiting" => rivals[r] = {}
      /\ \A r, q \in Requests :
           r # q /\ state[r] # "idle" /\ state[q] # "idle" /\ Conflict(scope[r], scope[q]) =>
             q \in rivals[r] \/ r \in rivals[q]
  BY DEF AdmissionInv
<1>1. CASE Admit(state, scope, rivals)
  BY <1>0, <1>1, AdmitKeeps
<1>2. ASSUME NEW r \in Requests, NEW s \in Scopes, Enter(r, s)
      PROVE  AdmissionInv'
  <2> DEFINE st == [state EXCEPT ![r] = "waiting"]
             sc == [scope EXCEPT ![r] = s]
             rv == [rivals EXCEPT ![r] = {q \in Requests : state[q] # "idle" /\ Conflict(scope[q], s)}]
  <2>1. /\ st \in [Requests -> {"idle", "waiting", "granted"}] /\ sc \in [Requests -> Scopes]
        /\ rv \in [Requests -> SUBSET Requests]
    BY <1>0
  <2>2. \A q \in Requests : st[q] # "waiting" => rv[q] = {}
    BY <1>0
  <2>3. ASSUME NEW p \in Requests, NEW q \in Requests, p # q, st[p] # "idle", st[q] # "idle",
               Conflict(sc[p], sc[q])
        PROVE  q \in rv[p] \/ p \in rv[q]
    <3>1. CASE p = r
      <4>1. state[q] # "idle" /\ sc[q] = scope[q] /\ sc[p] = s
        BY <1>0, <2>3, <3>1
      <4>2. Conflict(scope[q], s)
        BY <4>1, <1>0, <2>3 DEF ConflictAssumption
      <4> QED BY <1>0, <3>1, <4>1, <4>2
    <3>2. CASE q = r
      <4>1. state[p] # "idle" /\ Conflict(scope[p], s)
        BY <1>0, <2>3, <3>2
      <4> QED BY <1>0, <3>2, <4>1
    <3>3. CASE p # r /\ q # r
      BY <1>0, <2>3, <3>3
    <3> QED BY <3>1, <3>2, <3>3
  <2>4. Admit(st, sc, rv)
    BY <1>2 DEF Enter
  <2> HIDE DEF st, sc, rv
  <2> QED BY <2>1, <2>2, <2>3, <2>4, AdmitKeeps
<1>3. ASSUME NEW r \in Requests, NEW s \in Scopes, Leave(r, s)
      PROVE  AdmissionInv'
  <2> DEFINE st == [state EXCEPT ![r] = "idle"]
             sc == [scope EXCEPT ![r] = s]
             rv == [q \in Requests |-> IF q = r THEN {} ELSE rivals[q] \ {r}]
  <2>1. /\ st \in [Requests -> {"idle", "waiting", "granted"}] /\ sc \in [Requests -> Scopes]
        /\ rv \in [Requests -> SUBSET Requests]
    BY <1>0
  <2>2. \A q \in Requests : st[q] # "waiting" => rv[q] = {}
    BY <1>0
  <2>3. \A p, q \in Requests :
          p # q /\ st[p] # "idle" /\ st[q] # "idle" /\ Conflict(sc[p], sc[q]) =>
            q \in rv[p] \/ p \in rv[q]
    BY <1>0
  <2>4. Admit(st, sc, rv)
    BY <1>3 DEF Leave
  <2> HIDE DEF st, sc, rv
  <2> QED BY <2>1, <2>2, <2>3, <2>4, AdmitKeeps
<1>4. CASE UNCHANGED admissionVars
  BY <1>4 DEF admissionVars, AdmissionInv
<1> QED BY <1>1, <1>2, <1>3, <1>4 DEF AdmissionNext

\* In every queue that implements OrderedAdmission the invariant holds.
THEOREM AdmissionCorrect == ASSUME ConflictAssumption PROVE AdmissionSpec => []AdmissionInv
<1>1. AdmissionInit => AdmissionInv
  BY AdmissionInvInit
<1>2. AdmissionInv /\ [AdmissionNext]_admissionVars => AdmissionInv'
  BY AdmissionInvStep
<1> QED BY <1>1, <1>2, PTL DEF AdmissionSpec

\* Two requests that are at work are not in conflict.
THEOREM NeverInConflict == ASSUME ConflictAssumption PROVE AdmissionSpec => []AdmittedApart
<1>1. AdmissionInv => AdmittedApart
  BY DEF AdmissionInv, AdmittedApart
<1> QED BY <1>1, AdmissionCorrect, PTL

\* Of two requests in conflict the one that came first goes first.
THEOREM FirstComeFirstServed == ASSUME ConflictAssumption PROVE AdmissionSpec => InOrder
<1> DEFINE Fair == \A r, q \in Requests :
                     (/\ r # q /\ state[r] = "waiting" /\ state'[r] = "granted"
                      /\ state[q] = "waiting" /\ state'[q] = "waiting"
                      /\ Conflict(scope[r], scope[q])) => q \notin rivals[r] /\ r \in rivals[q]
<1>1. ASSUME AdmissionInv, AdmissionNext PROVE Fair
  <2>1. SUFFICES ASSUME NEW r \in Requests, NEW q \in Requests, r # q,
                        state[r] = "waiting", state'[r] = "granted",
                        state[q] = "waiting", state'[q] = "waiting", Conflict(scope[r], scope[q])
                 PROVE  q \notin rivals[r]
    BY <1>1 DEF AdmissionInv
  <2>2. state \in [Requests -> {"idle", "waiting", "granted"}] /\ rivals \in [Requests -> SUBSET Requests]
    BY <1>1 DEF AdmissionInv
  <2>3. CASE Admit(state, scope, rivals)
    BY <2>1, <2>2, <2>3 DEF Admit
  <2>4. ASSUME NEW x \in Requests, NEW s \in Scopes, Enter(x, s)
        PROVE  q \notin rivals[r]
    <3>1. x # r
      BY <2>1, <2>4 DEF Enter
    <3>2. rivals[r] = {}
      BY <2>1, <2>2, <2>4, <3>1 DEF Enter, Admit
    <3> QED BY <3>2
  <2>5. ASSUME NEW x \in Requests, NEW s \in Scopes, Leave(x, s)
        PROVE  q \notin rivals[r]
    <3>1. x # q
      BY <2>1, <2>2, <2>5 DEF Leave, Admit
    <3>2. x # r
      BY <2>1, <2>2, <2>5 DEF Leave, Admit
    <3>3. rivals[r] \ {x} = {}
      BY <2>1, <2>2, <2>5, <3>2 DEF Leave, Admit
    <3> QED BY <3>1, <3>3
  <2> QED BY <1>1, <2>3, <2>4, <2>5 DEF AdmissionNext
<1>2. AdmissionInv /\ [AdmissionNext]_admissionVars => [Fair]_admissionVars
  BY <1>1
<1>3. AdmissionSpec => [][Fair]_admissionVars
  BY <1>2, AdmissionCorrect, PTL DEF AdmissionSpec
<1> QED BY <1>3 DEF InOrder

=============================================================================
