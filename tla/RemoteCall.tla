----------------------------- MODULE RemoteCall -----------------------------
(***************************************************************************)
(* What a caller of a remote capability may rely on, without connections,  *)
(* frames, caches or processes: a call runs at most once, and how its      *)
(* promise settles says what may still happen on the other machine.        *)
(***************************************************************************)
EXTENDS Naturals

CONSTANT CallIds

VARIABLES
  promise,  \* callId -> idle, open, or how the promise settled
  work      \* callId -> how often the capability was started

Settlement == {"success", "denied", "failed", "unsent", "unknown", "aborted"}

CallInit ==
  /\ promise = [c \in CallIds |-> "idle"]
  /\ work = [c \in CallIds |-> 0]

Settles(c, from, to) == promise[c] = from /\ promise'[c] = to

\* The caller asks.
Ask(c) == Settles(c, "idle", "open") /\ work'[c] = work[c]

\* The node starts the capability: only once, only for a call that was asked,
\* and never after the caller has been told that it did not run.
Start(c) ==
  /\ promise[c] \in {"open", "unknown", "aborted"}
  /\ work[c] = 0
  /\ work'[c] = 1
  /\ promise'[c] = promise[c]

\* The capability's own answer reaches the caller.
Answered(c) ==
  /\ \E to \in {"success", "denied"} : Settles(c, "open", to)
  /\ work[c] = 1 /\ work'[c] = 1

\* The node refused the call, or the capability failed: from now on it will
\* not be started.
Failed(c) == Settles(c, "open", "failed") /\ work'[c] = work[c]

\* The client knows that nothing was written to the wire.
NotSent(c) == Settles(c, "open", "unsent") /\ work[c] = 0 /\ work'[c] = 0

\* The client cannot know, or the caller stopped asking: the capability may
\* have run, may be running, and may still be started.
GivenUp(c) ==
  /\ \E to \in {"unknown", "aborted"} : Settles(c, "open", to)
  /\ work'[c] = work[c]

CallStep(c) ==
  Ask(c) \/ Start(c) \/ Answered(c) \/ Failed(c) \/ NotSent(c) \/ GivenUp(c)

\* Several calls may move in one step (a connection that ends settles them all).
CallNext ==
  /\ promise' \in [CallIds -> {"idle", "open"} \cup Settlement]
  /\ work' \in [CallIds -> 0..1]
  /\ \A c \in CallIds : CallStep(c) \/ (promise'[c] = promise[c] /\ work'[c] = work[c])

CallSpec == CallInit /\ [][CallNext]_<<promise, work>>

=============================================================================
