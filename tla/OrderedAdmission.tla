--------------------------- MODULE OrderedAdmission ---------------------------
(***************************************************************************)
(* What every queue of this system promises: a request that comes waits    *)
(* for exactly those requests that are there, waiting or at work, and are  *)
(* in conflict with it; it is admitted when they have all left.  So two    *)
(* requests at work are never in conflict, nobody is overtaken by a later  *)
(* one that is in conflict with it, and a request that gives up waiting    *)
(* leaves no trace.                                                        *)
(*                                                                         *)
(* LockManager, ProjectExecutionGate, EffectScheduler and KeyedSerialQueue *)
(* implement it, each with a conflict of its own.                          *)
(***************************************************************************)

CONSTANTS Requests,
          Scopes,           \* what a request may ask for
          Conflict(_, _)    \* whether two of them may not be granted side by side

\* Conflict does not depend on who came first.
ConflictAssumption ==
  \A s, t \in Scopes : Conflict(s, t) \in BOOLEAN /\ (Conflict(s, t) => Conflict(t, s))

VARIABLES
  state,   \* request -> idle, waiting or granted
  scope,   \* request -> what it asked for
  rivals   \* request -> whom it still waits for

admissionVars == <<state, scope, rivals>>

AdmissionInit ==
  /\ state = [r \in Requests |-> "idle"]
  /\ scope \in [Requests -> Scopes]
  /\ rivals = [r \in Requests |-> {}]

\* Some of those who wait for nobody any more are admitted.
Admit(st, sc, rv) ==
  \E G \in SUBSET {r \in Requests : st[r] = "waiting" /\ rv[r] = {}} :
    /\ state' = [r \in Requests |-> IF r \in G THEN "granted" ELSE st[r]]
    /\ scope' = sc
    /\ rivals' = rv

Enter(r, s) ==
  /\ state[r] = "idle"
  /\ Admit([state EXCEPT ![r] = "waiting"], [scope EXCEPT ![r] = s],
           [rivals EXCEPT ![r] = {q \in Requests : state[q] # "idle" /\ Conflict(scope[q], s)}])

\* It is done, or gives up waiting; what an idle request names means nothing.
Leave(r, s) ==
  /\ state[r] # "idle"
  /\ Admit([state EXCEPT ![r] = "idle"], [scope EXCEPT ![r] = s],
           [q \in Requests |-> IF q = r THEN {} ELSE rivals[q] \ {r}])

AdmissionNext ==
  \/ Admit(state, scope, rivals)
  \/ \E r \in Requests, s \in Scopes : Enter(r, s) \/ Leave(r, s)

AdmissionSpec == AdmissionInit /\ [][AdmissionNext]_admissionVars

-----------------------------------------------------------------------------

\* Two requests at work are not in conflict.
AdmittedApart ==
  \A r, q \in Requests : r # q /\ state[r] = "granted" /\ state[q] = "granted" =>
                           ~Conflict(scope[r], scope[q])

\* The inductive invariant: of two requests in conflict one waits for the other,
\* and who is at work waits for nobody.
AdmissionInv ==
  /\ state \in [Requests -> {"idle", "waiting", "granted"}]
  /\ scope \in [Requests -> Scopes]
  /\ rivals \in [Requests -> SUBSET Requests]
  /\ \A r \in Requests : state[r] # "waiting" => rivals[r] = {}
  /\ \A r, q \in Requests :
       r # q /\ state[r] # "idle" /\ state[q] # "idle" /\ Conflict(scope[r], scope[q]) =>
         q \in rivals[r] \/ r \in rivals[q]

\* Whom a request waits for has come before it: when one of two requests in conflict
\* starts to work while the other one waits, the other one came later.
InOrder ==
  [][\A r, q \in Requests :
       (/\ r # q /\ state[r] = "waiting" /\ state'[r] = "granted"
        /\ state[q] = "waiting" /\ state'[q] = "waiting"
        /\ Conflict(scope[r], scope[q])) => q \notin rivals[r] /\ r \in rivals[q]]_admissionVars

=============================================================================
