--------------------------- MODULE KeyedSerialQueue ---------------------------
(***************************************************************************)
(* The queue by key that the storage of contexts and the project kernel    *)
(* use: operations of one key run one after another, others side by side.  *)
(* There is no list: an operation awaits the tail it finds, and a key is   *)
(* forgotten when its last operation ends.                                 *)
(***************************************************************************)
CONSTANTS SerialOperations, Keys, NoOperation

ASSUME SerialAssumption == NoOperation \notin SerialOperations /\ Keys # {}

VARIABLES
  tails,     \* key -> the operation whose end the next one awaits
  previous,  \* operation -> the one whose end it awaits, or NoOperation
  keyOf,     \* operation -> its key
  serial     \* operation -> idle, waiting or running

serialVars == <<tails, previous, keyOf, serial>>

SerialInit ==
  /\ tails = [k \in Keys |-> NoOperation]
  /\ previous = [o \in SerialOperations |-> NoOperation]
  /\ keyOf = [o \in SerialOperations |-> CHOOSE k \in Keys : TRUE]
  /\ serial = [o \in SerialOperations |-> "idle"]

\* run up to await previous
RunSerial(o, k) ==
  /\ serial[o] = "idle"
  /\ previous' = [previous EXCEPT ![o] = tails[k]]
  /\ tails' = [tails EXCEPT ![k] = o]
  /\ keyOf' = [keyOf EXCEPT ![o] = k]
  /\ serial' = [serial EXCEPT ![o] = "waiting"]

StartSerial(o) ==
  /\ serial[o] = "waiting" /\ previous[o] = NoOperation
  /\ serial' = [serial EXCEPT ![o] = "running"]
  /\ UNCHANGED <<tails, previous, keyOf>>

\* The key is forgotten when nobody came after o.
Forget(o) == IF tails[keyOf[o]] = o THEN [tails EXCEPT ![keyOf[o]] = NoOperation] ELSE tails

\* The operation ends, well or not: release, and the map is cleaned.
EndSerial(o) ==
  /\ serial[o] = "running"
  /\ previous' = [p \in SerialOperations |-> IF previous[p] = o THEN NoOperation ELSE previous[p]]
  /\ tails' = Forget(o)
  /\ serial' = [serial EXCEPT ![o] = "idle"]
  /\ UNCHANGED keyOf

SerialNext ==
  \E o \in SerialOperations : StartSerial(o) \/ EndSerial(o) \/ \E k \in Keys : RunSerial(o, k)

SerialSpec == SerialInit /\ [][SerialNext]_serialVars

-----------------------------------------------------------------------------

\* The chain of tails before o: the least set that has with o, and with each of its
\* members, whom that one awaits.
Chain(before, o) ==
  {p \in SerialOperations :
     \A S \in SUBSET SerialOperations :
       (\A q \in S \cup {o} : before[q] # NoOperation => before[q] \in S) => p \in S}

\* Whom o waits for is whoever stands before it in the chain.
InFront == [o \in SerialOperations |-> Chain(previous, o)]

SameKey(k, l) == k = l
SerialState == [o \in SerialOperations |-> IF serial[o] = "running" THEN "granted" ELSE serial[o]]
SerialQueue == INSTANCE OrderedAdmission WITH
                 Requests <- SerialOperations, Scopes <- Keys, Conflict <- SameKey,
                 state <- SerialState, scope <- keyOf, rivals <- InFront

\* Operations of one key run one at a time and in the order in which they came, also
\* when a key is forgotten and comes back while others still wait.
SerialInOrder == SerialQueue!AdmissionSpec

=============================================================================
