-------------------------- MODULE InvocationJournal --------------------------
(***************************************************************************)
(* The durable record of one invocation, as ContextInvocationJournal keeps *)
(* it: an object per state of the record and a version that is compared    *)
(* and swapped.  Everybody who shares the storage shares the record.       *)
(*                                                                         *)
(* A journal operation that changes an existing record loads it, checks it *)
(* and swaps in its successor, with awaits in between: LoadedFor...  is    *)
(* the check, the operators named after the operations are the swap.       *)
(***************************************************************************)
EXTENDS Naturals

CONSTANTS Requests,   \* fingerprints a caller may send under this id
          None

Effects == {"none", "committed", "unknown"}

ASSUME JournalAssumption == None \notin Requests \cup Effects

VARIABLE record   \* what is stored under the invocation's id

RecordType ==
  [version : Nat, phase : {"absent", "reserved", "prepared", "settled"},
   request : Requests \cup {None}, receipt : Effects \cup {None},
   reconciliation : {"none", "committed", None}]

JournalInit ==
  record = [version |-> 0, phase |-> "absent", request |-> None, receipt |-> None,
            reconciliation |-> None]

\* The result is certain: there is nothing left to check with the domain.
Certain == record.reconciliation # None \/ record.receipt \notin {None, "unknown"}

\* MUTATED Claim: the version the record should have is not compared.
ClaimAlways(request) ==
  record' = [version |-> record.version + 1, phase |-> "reserved", request |-> request,
             receipt |-> None, reconciliation |-> None]

\* claim: the record is created by exactly one caller; the others get it back.
Claim(request) ==
  /\ record.version = 0
  /\ record' = [version |-> 1, phase |-> "reserved", request |-> request, receipt |-> None,
                reconciliation |-> None]

\* prepare: only a reserved record of the same request can be prepared. The new
\* object holds the phase and the prepared call, nothing else.
LoadedForPrepare(request) == record.phase = "reserved" /\ record.request = request

Prepare(version) ==
  /\ record.version = version
  /\ record' = [record EXCEPT !.version = @ + 1, !.phase = "prepared", !.receipt = None,
                              !.reconciliation = None]

\* settle: the receipt has to be of the call as it was recorded, and the first.
\* The new object holds the call and the receipt, nothing else.
LoadedForSettle(request) ==
  record.phase # "absent" /\ record.request = request /\ record.receipt = None

Settle(version, effect) ==
  /\ record.version = version
  /\ record' = [record EXCEPT !.version = @ + 1, !.phase = "settled", !.receipt = effect,
                              !.reconciliation = None]

\* recordReconciliation: added to the object that was loaded, unless its result
\* is certain.
LoadedForReconcile == record.phase # "absent" /\ ~Certain

Reconcile(version, effect) ==
  /\ record.version = version
  /\ record' = [record EXCEPT !.version = @ + 1, !.reconciliation = effect]

=============================================================================
