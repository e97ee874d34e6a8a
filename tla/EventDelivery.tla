---------------------------- MODULE EventDelivery ----------------------------
(***************************************************************************)
(* The delivery of one ordered stream of act events: each is persisted,    *)
(* in any order of completion, and handed over in the order of append.     *)
(* The first failure, of a write or of a handover, ends the stream: what   *)
(* is behind it is not handed over, and every caller is told.              *)
(***************************************************************************)
EXTENDS Naturals, Sequences

CONSTANT MaxEvents  \* bound: events appended

ASSUME DeliveryAssumption == MaxEvents \in Nat

VARIABLES
  write,      \* the writes by order of append: writing, ok or failed
  answer,     \* what append has told its caller: open, done or failed
  turn,       \* the event whose task the tail has reached
  handing,    \* its handover has begun
  handed,     \* history: the events handed over
  failure,    \* the event that failed first, 0 for none
  closed,
  flush       \* a flush, or the one of close: the tail it waits for, and its answer

deliveryVars == <<write, answer, turn, handing, handed, failure, closed, flush>>

DeliveryInit ==
  /\ write = <<>> /\ answer = <<>>
  /\ turn = 1 /\ handing = FALSE /\ handed = <<>>
  /\ failure = 0
  /\ closed = FALSE
  /\ flush = [at |-> "none", tail |-> 0]

\* append: refused when the stream is closed or has failed; otherwise its write begins.
AppendEvent ==
  /\ ~closed /\ failure = 0
  /\ Len(write) < MaxEvents
  /\ write' = Append(write, "writing")
  /\ answer' = Append(answer, "open")
  /\ UNCHANGED <<turn, handing, handed, failure, closed, flush>>

\* persist ends, of any event; cloning the event may have failed before.
EndWrite(i, result) ==
  /\ write[i] = "writing"
  /\ write' = [write EXCEPT ![i] = result]
  /\ UNCHANGED <<answer, turn, handing, handed, failure, closed, flush>>

\* The task of event i is over: its caller is told, the tail moves on.
Tell(i, result) ==
  /\ answer' = [answer EXCEPT ![i] = result]
  /\ turn' = i + 1
  /\ failure' = IF result = "failed" /\ failure = 0 THEN i ELSE failure

\* MUTATED Stopped: only its own write decides.
StoppedByWrite(i) == write[i] # "ok"

\* A task looks at the failure of the stream after its own write.
Stopped(i) == failure # 0 \/ write[i] # "ok"

Task(i) ==
  /\ i = turn /\ ~handing /\ write[i] # "writing"
  /\ IF Stopped(i)
     THEN Tell(i, "failed") /\ UNCHANGED <<handing, handed>>
     ELSE /\ handing' = TRUE /\ handed' = Append(handed, i)
          /\ UNCHANGED <<answer, turn, failure>>
  /\ UNCHANGED <<write, closed, flush>>

\* deliver ends.
EndHandover(result) ==
  /\ handing
  /\ handing' = FALSE
  /\ Tell(turn, result)
  /\ UNCHANGED <<write, handed, closed, flush>>

\* flush, and close, which refuses what comes later, wait for the tail of now.
BeginFlush(close) ==
  /\ flush.at # "waiting"
  /\ flush' = [at |-> "waiting", tail |-> Len(write)]
  /\ closed' = (closed \/ close)
  /\ UNCHANGED <<write, answer, turn, handing, handed, failure>>

EndFlush ==
  /\ flush.at = "waiting" /\ turn > flush.tail
  /\ flush' = [flush EXCEPT !.at = IF failure # 0 THEN "failed" ELSE "done"]
  /\ UNCHANGED <<write, answer, turn, handing, handed, failure, closed>>

Storing == \E i \in DOMAIN write : \E result \in {"ok", "failed"} : EndWrite(i, result)
Handing == (\E i \in DOMAIN write : Task(i)) \/ (\E result \in {"done", "failed"} : EndHandover(result)) \/ EndFlush

DeliveryNext == AppendEvent \/ Storing \/ Handing \/ \E close \in BOOLEAN : BeginFlush(close)

DeliverySpec == DeliveryInit /\ [][DeliveryNext]_deliveryVars

-----------------------------------------------------------------------------

DeliveryTypeOK ==
  /\ write \in Seq({"writing", "ok", "failed"}) /\ answer \in Seq({"open", "done", "failed"})
  /\ Len(answer) = Len(write)
  /\ turn \in 1..(Len(write) + 1) /\ handing \in BOOLEAN /\ closed \in BOOLEAN
  /\ failure \in 0..Len(write)
  /\ flush \in [at : {"none", "waiting", "done", "failed"}, tail : 0..Len(write)]

\* What is handed over is a prefix of what was appended, without a gap, and nothing of
\* it after the first failure; a caller who was told done knows that everything up to
\* its event is persisted and handed over, and so does one whose flush succeeded,
\* unless the stream failed later.
PrefixHandedOver ==
  /\ \A k \in DOMAIN handed : handed[k] = k
  /\ Len(handed) = (turn - 1) + (IF handing THEN 1 ELSE 0) \/ failure # 0
  /\ failure # 0 => Len(handed) <= failure
  /\ \A i \in DOMAIN answer :
       answer[i] = "done" => \A j \in 1..i : write[j] = "ok" /\ answer[j] = "done" /\ j \in DOMAIN handed
  /\ flush.at = "done" => \A i \in 1..flush.tail : answer[i] = "done"

=============================================================================
