--------------------------- MODULE RemoteNodeLink ---------------------------
(***************************************************************************)
(* One paired client and one capability node over a sequence of WebSocket  *)
(* connections: the client's connection state machine and its ledger of    *)
(* pending calls, the node's connection phases, and the call runner.       *)
(*                                                                         *)
(* A connection is a pair of FIFO queues.  It may break at any moment and  *)
(* take the queued frames with it; each end learns of that by itself, at   *)
(* its own time.  The client reconnects and replays what it had put on the *)
(* wire; the node answers replays from its cache; a new epoch tells the    *)
(* client that the node process it talked to is gone.                      *)
(*                                                                         *)
(* The pairing ceremony is left out: here the client holds the credential  *)
(* the node knows.                                                         *)
(***************************************************************************)
EXTENDS RemoteNodeCallRunner, Subsequences

CONSTANTS Peer,         \* the paired client
          MaxConns,     \* bound: connections the client dials
          MaxRevision,  \* bound: manifest revisions
          MaxRestarts,  \* bound: node restarts, with and without a new process
          Oversize,     \* callIds whose output cannot be written as a frame
          Faults        \* the environment's moves that are allowed

VARIABLES
  cstate,      \* client: connectionState
  reason,      \* client: why it stopped, None while it has not
  sock,        \* client: its current socket, a connection or None
  session,     \* client: epoch and manifest revision of the last ready frame
  entries,     \* client: the ledger's keys in insertion order
  dispatched,  \* client: callId -> its frame has been written
  frameRev,    \* client: callId -> manifestRevision of its cached frame
  outcome,     \* client: callId -> how its promise settled
  epoch,       \* node: identity of the process
  revision,    \* node: revision of the current manifest
  phase,       \* node: connection -> handshake phase
  ready,       \* node: the connection calls are delivered on, or None
  dialed,      \* connections dialed so far
  wire,        \* connection -> state of the transport
  up,          \* connection -> frames on their way to the node
  down,        \* connection -> frames on their way to the client
  restarts,    \* node restarts so far
  exited       \* node: there is no process

clientVars == <<cstate, reason, sock, session>>
ledger     == <<entries, dispatched, frameRev, outcome>>
nodeVars   == <<epoch, revision, phase, ready, restarts, exited>>
netVars    == <<dialed, wire, up, down>>
linkVars   == <<clientVars, ledger, nodeVars, netVars, vars>>

Conns == 1..MaxConns
ClientState == {"idle", "connecting", "reconnecting", "ready", "stopped"}
Phase == {"none", "hello", "authenticate", "ready", "closed"}
Wire == {"none", "dialing", "open", "closing", "cut"}

\* How a promise settles: with the node's verdict (success, denied, failed), as
\* a failure that is known not to have run (unsent), as a failure whose result
\* is unknown, or as an abort the caller asked for.
Answer == {"success", "denied", "failed", "unsent", "unknown", "aborted"}

ASSUME LinkAssumption ==
  /\ Clients = {Peer}
  /\ MaxConns \in Nat \ {0}
  /\ MaxRevision \in Nat \ {0}
  /\ MaxRestarts \in Nat
  /\ None \notin Conns /\ None \notin Answer /\ None \notin Sent
  /\ Oversize \subseteq CallIds
  /\ Faults \subseteq {"cut", "silence", "idle", "crash", "restart", "manifest",
                       "timeout", "abort", "deadline", "dispose"}

NoSession == [epoch |-> 0, revision |-> 0]

LinkTypeOK ==
  /\ cstate \in ClientState
  /\ reason \in {None, "disposed", "superseded"}
  /\ sock \in Conns \cup {None}
  /\ session \in {NoSession} \cup [epoch : 1..(MaxRestarts + 1), revision : 1..MaxRevision]
  /\ entries \in Seq(CallIds)
  /\ dispatched \in [CallIds -> BOOLEAN]
  /\ frameRev \in [CallIds -> 1..MaxRevision \cup {None}]
  /\ outcome \in [CallIds -> Answer \cup {None}]
  /\ epoch \in 1..(MaxRestarts + 1)
  /\ revision \in 1..MaxRevision
  /\ phase \in [Conns -> Phase]
  /\ ready \in Conns \cup {None}
  /\ dialed \in 0..MaxConns
  /\ wire \in [Conns -> Wire]
  /\ restarts \in 0..MaxRestarts
  /\ exited \in BOOLEAN

LinkInit ==
  /\ RunnerInit
  /\ cstate = "idle" /\ reason = None /\ sock = None /\ session = NoSession
  /\ entries = <<>>
  /\ dispatched = [c \in CallIds |-> FALSE]
  /\ frameRev = [c \in CallIds |-> None]
  /\ outcome = [c \in CallIds |-> None]
  /\ epoch = 1 /\ revision = 1 /\ ready = None /\ restarts = 0 /\ exited = FALSE
  /\ phase = [n \in Conns |-> "none"]
  /\ dialed = 0
  /\ wire = [n \in Conns |-> "none"]
  /\ up = [n \in Conns |-> <<>>]
  /\ down = [n \in Conns |-> <<>>]

-----------------------------------------------------------------------------
(* The transport.  Frames that nobody will read are not kept: those for a  *)
(* socket the client has let go of and those for a closed connection.      *)

Hello            == [type |-> "hello"]
Challenge        == [type |-> "challenge"]
Authenticate     == [type |-> "authenticate"]
Ready            == [type |-> "ready", epoch |-> epoch, revision |-> revision]
ManifestChanged(v) == [type |-> "manifest_changed", revision |-> v]
Invoke(c, v)     == [type |-> "invoke", call |-> c, revision |-> v]
CancelFrame(c)   == [type |-> "cancel", call |-> c]
ResultFrame(m)   == [type |-> "result", call |-> m.call, status |-> m.status]
Close(code)      == [type |-> "close", code |-> code]

ClientCanWrite(n) == wire[n] = "open" /\ phase[n] # "closed"
NodeCanWrite(n)   == wire[n] \in {"open", "closing"} /\ sock = n

\* The queue of connection n after the client, or the node, writes frames.
Upload(n, frames)   == IF ClientCanWrite(n) THEN [up EXCEPT ![n] = @ \o frames] ELSE up
Download(n, frames) == IF NodeCanWrite(n) THEN [down EXCEPT ![n] = @ \o frames] ELSE down

\* deliver: the runner's result goes out on the ready connection, or stays in
\* the cache for a replay to fetch it.
Forward ==
  down' = IF sent' # None /\ ready # None /\ ~(sent'.call \in Oversize /\ sent'.status = "success")
          THEN Download(ready, <<ResultFrame(sent')>>)
          ELSE down

-----------------------------------------------------------------------------
(* The ledger of pending calls. *)

Pending(c) == \E i \in DOMAIN entries : entries[i] = c

\* settle: out of the book first, then the promise.
Drop(gone) == entries' = Kept(entries, CallIds \ gone)

SettleCall(c, answer) ==
  /\ Drop({c})
  /\ outcome' = [outcome EXCEPT ![c] = answer]
  /\ UNCHANGED <<dispatched, frameRev>>

\* failAll: what has been on the wire may have run.
FailAll ==
  /\ entries' = <<>>
  /\ outcome' = [c \in CallIds |->
                   IF ~Pending(c) THEN outcome[c]
                   ELSE IF dispatched[c] THEN "unknown" ELSE "unsent"]
  /\ UNCHANGED <<dispatched, frameRev>>

\* MUTATED Flush: the epoch of the new session is not compared.
FlushAnyEpoch(newSession) ==
  LET restarted == FALSE
      failed == {c \in CallIds : Pending(c) /\ restarted /\ dispatched[c]}
      kept == Kept(entries, CallIds \ failed)
      rev == [c \in CallIds |->
                IF c \in failed \/ ~Pending(c) THEN frameRev[c]
                ELSE IF frameRev[c] = None \/ restarted THEN newSession.revision
                ELSE frameRev[c]]
  IN /\ entries' = kept
     /\ outcome' = [c \in CallIds |-> IF c \in failed THEN "unknown" ELSE outcome[c]]
     /\ frameRev' = rev
     /\ dispatched' = [c \in CallIds |-> dispatched[c] \/ (Pending(c) /\ c \notin failed)]
     /\ up' = Upload(sock, [i \in DOMAIN kept |-> Invoke(kept[i], rev[kept[i]])])

\* MUTATED Flush: a call that was on the wire before is not written again.
FlushNewOnly(newSession) ==
  LET restarted == session # NoSession /\ session.epoch # newSession.epoch
      failed == {c \in CallIds : Pending(c) /\ restarted /\ dispatched[c]}
      kept == Kept(entries, CallIds \ failed)
      rev == [c \in CallIds |->
                IF c \in failed \/ ~Pending(c) THEN frameRev[c]
                ELSE IF frameRev[c] = None \/ restarted THEN newSession.revision
                ELSE frameRev[c]]
  IN /\ entries' = kept
     /\ outcome' = [c \in CallIds |-> IF c \in failed THEN "unknown" ELSE outcome[c]]
     /\ frameRev' = rev
     /\ dispatched' = [c \in CallIds |-> dispatched[c] \/ (Pending(c) /\ c \notin failed)]
     /\ LET fresh == Kept(kept, {c \in CallIds : ~dispatched[c]})
        IN up' = Upload(sock, [i \in DOMAIN fresh |-> Invoke(fresh[i], rev[fresh[i]])])

\* failRestarted, then flush under the new session: calls that were on the wire
\* of another epoch are lost, the others are written, an old frame as it was.
Flush(newSession) ==
  LET restarted == session # NoSession /\ session.epoch # newSession.epoch
      failed == {c \in CallIds : Pending(c) /\ restarted /\ dispatched[c]}
      kept == Kept(entries, CallIds \ failed)
      rev == [c \in CallIds |->
                IF c \in failed \/ ~Pending(c) THEN frameRev[c]
                ELSE IF frameRev[c] = None \/ restarted THEN newSession.revision
                ELSE frameRev[c]]
  IN /\ entries' = kept
     /\ outcome' = [c \in CallIds |-> IF c \in failed THEN "unknown" ELSE outcome[c]]
     /\ frameRev' = rev
     /\ dispatched' = [c \in CallIds |-> dispatched[c] \/ (Pending(c) /\ c \notin failed)]
     /\ up' = Upload(sock, [i \in DOMAIN kept |-> Invoke(kept[i], rev[kept[i]])])

\* MUTATED Track: written on any open socket, before the node granted it.
TrackEarly(c) ==
  /\ cstate # "stopped"
  /\ ~Pending(c) /\ outcome[c] = None
  /\ entries' = Append(entries, c)
  /\ IF sock # None
     THEN /\ frameRev' = [frameRev EXCEPT ![c] = session.revision]
          /\ dispatched' = [dispatched EXCEPT ![c] = TRUE]
          /\ up' = Upload(sock, <<Invoke(c, session.revision)>>)
     ELSE UNCHANGED <<frameRev, dispatched, up>>
  /\ UNCHANGED <<clientVars, outcome, nodeVars, dialed, wire, down, vars>>

\* track: register a call and write it when the connection is ready.
Track(c) ==
  /\ cstate # "stopped"
  /\ ~Pending(c) /\ outcome[c] = None
  /\ entries' = Append(entries, c)
  /\ IF cstate = "ready"
     THEN /\ frameRev' = [frameRev EXCEPT ![c] = session.revision]
          /\ dispatched' = [dispatched EXCEPT ![c] = TRUE]
          /\ up' = Upload(sock, <<Invoke(c, session.revision)>>)
     ELSE UNCHANGED <<frameRev, dispatched, up>>
  /\ UNCHANGED <<clientVars, outcome, nodeVars, dialed, wire, down, vars>>

\* The caller's signal, or the ledger's own deadline, ends a call; a cancel
\* frame is written when the connection is ready and otherwise never.
Withdraw(c, answer) ==
  /\ Pending(c)
  /\ SettleCall(c, answer)
  /\ up' = IF cstate = "ready" THEN Upload(sock, <<CancelFrame(c)>>) ELSE up
  /\ UNCHANGED <<clientVars, nodeVars, dialed, wire, down, vars>>

Abort(c) == "abort" \in Faults /\ Withdraw(c, "aborted")

Timeout(c) ==
  /\ "timeout" \in Faults
  /\ Withdraw(c, IF dispatched[c] THEN "unknown" ELSE "unsent")

-----------------------------------------------------------------------------
(* The client's connection. *)

\* MUTATED OpenSocket: the reconnect timer is never armed.
OpenSocketOnce ==
  /\ cstate = "idle"
  /\ dialed < MaxConns
  /\ dialed' = dialed + 1
  /\ sock' = dialed + 1
  /\ cstate' = "connecting"
  /\ wire' = [wire EXCEPT ![dialed + 1] = "dialing"]
  /\ UNCHANGED <<reason, session, ledger, nodeVars, up, down, vars>>

\* connect, and the reconnect timer: a new socket.
OpenSocket ==
  /\ cstate \in {"idle", "reconnecting"}
  /\ sock = None
  /\ dialed < MaxConns
  /\ dialed' = dialed + 1
  /\ sock' = dialed + 1
  /\ cstate' = IF cstate = "idle" THEN "connecting" ELSE "reconnecting"
  /\ wire' = [wire EXCEPT ![dialed + 1] = "dialing"]
  /\ UNCHANGED <<reason, session, ledger, nodeVars, up, down, vars>>

\* The transport is up: the node accepts it, the client says hello.
HandleOpen(n) ==
  /\ sock = n /\ wire[n] = "dialing"
  /\ ~stopped
  /\ wire' = [wire EXCEPT ![n] = "open"]
  /\ phase' = [phase EXCEPT ![n] = "hello"]
  /\ up' = [up EXCEPT ![n] = <<Hello>>]
  /\ UNCHANGED <<clientVars, ledger, epoch, revision, ready, restarts, exited, dialed, down, vars>>

\* The head of the down queue reaches the client's current socket.
ClientTakes(n, type) ==
  /\ sock = n
  /\ down[n] # <<>>
  /\ Head(down[n]).type = type
  /\ down' = [down EXCEPT ![n] = Tail(@)]

HandleChallenge(n) ==
  /\ ClientTakes(n, "challenge")
  /\ up' = Upload(n, <<Authenticate>>)
  /\ UNCHANGED <<clientVars, ledger, nodeVars, dialed, wire, vars>>

HandleReady(n) ==
  /\ ClientTakes(n, "ready")
  /\ LET new == [epoch |-> Head(down[n]).epoch, revision |-> Head(down[n]).revision]
     IN /\ session' = new
        /\ Flush(new)
  /\ cstate' = "ready"
  /\ UNCHANGED <<reason, sock, nodeVars, dialed, wire, vars>>

ApplyManifest(n) ==
  /\ ClientTakes(n, "manifest_changed")
  /\ session' = IF session = NoSession THEN session
                ELSE [session EXCEPT !.revision = Head(down[n]).revision]
  /\ UNCHANGED <<cstate, reason, sock, ledger, nodeVars, dialed, wire, up, vars>>

\* How a result frame settles the promise.
Verdict(status) ==
  IF status \in {"success", "denied"} THEN status ELSE "failed"

\* A verdict of the node; one for a call no longer in the book is ignored.
SettleResult(n) ==
  /\ ClientTakes(n, "result")
  /\ LET m == Head(down[n])
     IN IF Pending(m.call) THEN SettleCall(m.call, Verdict(m.status)) ELSE UNCHANGED ledger
  /\ UNCHANGED <<clientVars, nodeVars, dialed, wire, up, vars>>

\* What the client leaves behind when it lets go of its socket: nothing more is
\* read from it, and the node sees its end after the frames still on their way.
LetGo(n) ==
  /\ down' = [down EXCEPT ![n] = <<>>]
  /\ up' = IF ClientCanWrite(n) THEN [up EXCEPT ![n] = Append(@, Close("transient"))] ELSE up
  /\ wire' = [wire EXCEPT ![n] = IF @ = "dialing" THEN "cut" ELSE @]

\* The close event with a code that is worth another attempt: the transport
\* broke, the dial was refused, or the node closed for a transient cause.
HandleCloseReconnect(n) ==
  /\ sock = n
  /\ \/ wire[n] \in {"cut", "closing"}
     \/ wire[n] = "dialing" /\ (stopped \/ ("cut" \in Faults /\ n < MaxConns))
     \/ down[n] # <<>> /\ Head(down[n]) = Close("transient")
  /\ cstate' = "reconnecting"
  /\ sock' = None
  /\ LetGo(n)
  /\ UNCHANGED <<reason, session, ledger, nodeVars, dialed, vars>>

\* The close event with the code that ends a paired client: it was replaced.
HandleCloseStop(n) ==
  /\ sock = n
  /\ down[n] # <<>>
  /\ Head(down[n]) = Close("replaced")
  /\ reason' = "superseded"
  /\ cstate' = "stopped"
  /\ sock' = None
  /\ session' = NoSession
  /\ FailAll
  /\ LetGo(n)
  /\ UNCHANGED <<nodeVars, dialed, vars>>

Dispose ==
  /\ "dispose" \in Faults
  /\ reason = None
  /\ reason' = "disposed"
  /\ cstate' = "stopped"
  /\ sock' = None
  /\ session' = NoSession
  /\ FailAll
  /\ IF sock = None THEN UNCHANGED <<up, down, wire>> ELSE LetGo(sock)
  /\ UNCHANGED <<nodeVars, dialed, vars>>

\* The heartbeat finds the connection silent and closes it; the client keeps
\* its state and its listeners until the close event arrives.
DropSilent(n) ==
  /\ "silence" \in Faults
  /\ sock = n /\ wire[n] = "open" /\ n < MaxConns
  /\ wire' = [wire EXCEPT ![n] = "closing"]
  /\ up' = [up EXCEPT ![n] = IF phase[n] = "closed" THEN @ ELSE Append(@, Close("transient"))]
  /\ UNCHANGED <<clientVars, ledger, nodeVars, dialed, down, vars>>

-----------------------------------------------------------------------------
(* The node's connections. *)

NodeTakes(n, type) ==
  /\ phase[n] \notin {"none", "closed"}
  /\ up[n] # <<>>
  /\ Head(up[n]).type = type

\* The queues after the node closes the connections of a set with a code.
Closing(ns, code) ==
  [n \in Conns |-> IF n \in ns /\ NodeCanWrite(n) THEN Append(down[n], Close(code)) ELSE down[n]]

\* closeConnection: the phase turns closed at once, later frames are ignored.
CloseConnection(n, code) ==
  /\ phase' = [phase EXCEPT ![n] = "closed"]
  /\ ready' = IF ready = n THEN None ELSE ready
  /\ up' = [up EXCEPT ![n] = <<>>]
  /\ down' = Closing({n}, code)

HandleHello(n) ==
  /\ NodeTakes(n, "hello")
  /\ phase[n] = "hello"
  /\ phase' = [phase EXCEPT ![n] = "authenticate"]
  /\ up' = [up EXCEPT ![n] = Tail(@)]
  /\ down' = Download(n, <<Challenge>>)
  /\ UNCHANGED <<clientVars, ledger, epoch, revision, ready, restarts, exited, dialed, wire, vars>>

\* handleAuthenticate and grantReady: the connection that was ready is closed
\* as replaced, this one takes over.
HandleAuthenticate(n) ==
  /\ NodeTakes(n, "authenticate")
  /\ phase[n] = "authenticate"
  /\ LET previous == {ready} \ {None, n}
     IN /\ phase' = [m \in Conns |-> IF m = n THEN "ready"
                                   ELSE IF m \in previous THEN "closed" ELSE phase[m]]
        /\ up' = [m \in Conns |-> IF m = n THEN Tail(up[m])
                                ELSE IF m \in previous THEN <<>> ELSE up[m]]
        /\ down' = [m \in Conns |-> IF m \in previous THEN Closing(previous, "replaced")[m]
                                  ELSE Download(n, <<Ready>>)[m]]
  /\ ready' = n
  /\ UNCHANGED <<clientVars, ledger, epoch, revision, restarts, exited, dialed, wire, vars>>

ReceiveInvoke(n) ==
  /\ NodeTakes(n, "invoke")
  /\ phase[n] = "ready"
  /\ Submit(Head(up[n]).call, Peer, Head(up[n]).revision = revision)
  /\ Forward
  /\ up' = [up EXCEPT ![n] = Tail(@)]
  /\ UNCHANGED <<clientVars, ledger, nodeVars, dialed, wire>>

ReceiveCancel(n) ==
  /\ NodeTakes(n, "cancel")
  /\ phase[n] = "ready"
  /\ Cancel(Head(up[n]).call)
  /\ Forward
  /\ up' = [up EXCEPT ![n] = Tail(@)]
  /\ UNCHANGED <<clientVars, ledger, nodeVars, dialed, wire>>

\* The frames a phase does not expect. The node answers one by closing the
\* connection as unauthorized, which ends the client for good; NeverUnauthorized
\* says that this client provokes none, so there is no action for it here.
Unexpected(n) ==
  \/ NodeTakes(n, "hello") /\ phase[n] # "hello"
  \/ NodeTakes(n, "authenticate") /\ phase[n] \notin {"authenticate", "ready"}
  \/ (NodeTakes(n, "invoke") \/ NodeTakes(n, "cancel")) /\ phase[n] # "ready"

\* The socket's close event; calls in flight go on, their results are cached.
SocketClosed(n) ==
  /\ \/ NodeTakes(n, "close")
     \/ wire[n] = "cut" /\ phase[n] \notin {"none", "closed"}
  /\ phase' = [phase EXCEPT ![n] = "closed"]
  /\ ready' = IF ready = n THEN None ELSE ready
  /\ up' = [up EXCEPT ![n] = <<>>]
  /\ UNCHANGED <<clientVars, ledger, epoch, revision, restarts, exited, dialed, wire, down, vars>>

IdleTimeout(n) ==
  /\ "idle" \in Faults /\ n < MaxConns
  /\ phase[n] \notin {"none", "closed"}
  /\ CloseConnection(n, "transient")
  /\ UNCHANGED <<clientVars, ledger, epoch, revision, restarts, exited, dialed, wire, vars>>

\* The manifest source reports a change: pushed on the ready connection.
ManifestChange ==
  /\ "manifest" \in Faults
  /\ ~stopped
  /\ revision < MaxRevision
  /\ revision' = revision + 1
  /\ down' = IF ready = None THEN down ELSE Download(ready, <<ManifestChanged(revision + 1)>>)
  /\ UNCHANGED <<clientVars, ledger, epoch, phase, ready, restarts, exited, dialed, wire, up, vars>>

-----------------------------------------------------------------------------
(* The runner between frames. *)

RunnerStep(r) ==
  /\ \/ \E s \in Outcome : Finish(r, s)
     \/ FinishDetached(r)
  /\ Forward
  /\ UNCHANGED <<clientVars, ledger, nodeVars, dialed, wire, up>>

DeadlineStep(r) ==
  /\ "deadline" \in Faults
  /\ Deadline(r)
  /\ Forward
  /\ UNCHANGED <<clientVars, ledger, nodeVars, dialed, wire, up>>

\* Every connection is gone, as both ends will find out.
CutAll ==
  /\ phase' = [n \in Conns |-> IF phase[n] = "none" THEN "none" ELSE "closed"]
  /\ wire' = [n \in Conns |-> IF wire[n] = "none" THEN "none" ELSE "cut"]
  /\ up' = [n \in Conns |-> <<>>]
  /\ ready' = None

\* stop: abort the calls, close and destroy every connection.
Stop ==
  /\ "restart" \in Faults
  /\ restarts < MaxRestarts
  /\ AbortAll
  /\ CutAll
  /\ UNCHANGED <<clientVars, ledger, epoch, revision, restarts, exited, dialed, down>>

\* start on a stopped server: a new runner. The node identity, and with it the
\* epoch, was made by the constructor and stays.
Start ==
  /\ "restart" \in Faults
  /\ ~exited
  /\ NewRunner
  /\ restarts' = restarts + 1
  /\ UNCHANGED <<clientVars, ledger, epoch, revision, phase, ready, exited, netVars>>

\* The node process dies.
Crash ==
  /\ "crash" \in Faults
  /\ restarts < MaxRestarts
  /\ ProcessExit
  /\ CutAll
  /\ exited' = TRUE
  /\ UNCHANGED <<clientVars, ledger, epoch, revision, restarts, dialed, down>>

\* A new node process: a new server object with a new epoch.
NewProcess ==
  /\ exited
  /\ exited' = FALSE
  /\ NewRunner
  /\ restarts' = restarts + 1
  /\ epoch' = epoch + 1
  /\ UNCHANGED <<clientVars, ledger, revision, phase, ready, netVars>>

\* The network breaks a connection.
Cut(n) ==
  /\ "cut" \in Faults
  /\ wire[n] \in {"open", "closing"} /\ n < MaxConns
  /\ wire' = [wire EXCEPT ![n] = "cut"]
  /\ UNCHANGED <<clientVars, ledger, nodeVars, dialed, up, down, vars>>

ClientStep(n) ==
  \/ HandleOpen(n) \/ HandleChallenge(n) \/ HandleReady(n) \/ ApplyManifest(n)
  \/ SettleResult(n) \/ HandleCloseReconnect(n) \/ HandleCloseStop(n)

NodeStep(n) ==
  \/ HandleHello(n) \/ HandleAuthenticate(n) \/ ReceiveInvoke(n) \/ ReceiveCancel(n)
  \/ SocketClosed(n)

LinkNext ==
  \/ OpenSocket
  \/ \E c \in CallIds : Track(c) \/ Abort(c) \/ Timeout(c)
  \/ Dispose
  \/ \E n \in Conns : ClientStep(n) \/ NodeStep(n)
  \/ \E n \in Conns : DropSilent(n) \/ IdleTimeout(n) \/ Cut(n)
  \/ \E r \in Runs : RunnerStep(r) \/ DeadlineStep(r)
  \/ ManifestChange \/ Stop \/ Start \/ Crash \/ NewProcess

LinkSpec == LinkInit /\ [][LinkNext]_linkVars

\* Timers fire (the reconnect timer, the deadline of a call on the node), and
\* frames and close events of the last connection arrive.  Nothing is assumed
\* of capabilities, callers and faults.
LinkFairness ==
  /\ WF_linkVars(OpenSocket)
  /\ \A n \in Conns : WF_linkVars(ClientStep(n)) /\ WF_linkVars(NodeStep(n))
  /\ \A r \in Runs : WF_linkVars(DeadlineStep(r))

FairLinkSpec == LinkSpec /\ LinkFairness

-----------------------------------------------------------------------------
(* What the link promises. *)

RunsOf(c) == {r \in Runs : owner[r] = c}

\* A callId that arrives any number of times, on any number of connections, is
\* executed at most once.
AtMostOnce == \A c \in CallIds : Cardinality({r \in RunsOf(c) : Invoked(r)}) <= 1

\* The same, as far as the node keeps it: until its server is stopped.
AtMostOnceUntilStopped == restarts = 0 => AtMostOnce

\* A failure the client reports as never sent stays never executed, whatever is
\* still on its way to the node.
UnsentNeverRuns ==
  \A c \in CallIds : outcome[c] = "unsent" => \A r \in RunsOf(c) : ~Invoked(r)

\* The client sends no call on a connection the node has not granted, whatever
\* the order in which closes, reconnects and ready frames reach the two ends:
\* the node never has a reason to refuse it.
NeverUnauthorized == \A n \in Conns : ~Unexpected(n)

\* No call is forgotten between the two ends: when both agree on a live
\* connection and no frame is under way, a pending call is one the node is working on (or
\* one whose answer cannot be written as a frame).
NoCallForgotten ==
  \A c \in CallIds \ Oversize :
    (/\ cstate = "ready" /\ ready = sock /\ wire[sock] = "open"
     /\ up[sock] = <<>> /\ down[sock] = <<>> /\ Pending(c))
      => calls[c] # None

\* Without any timer of the client and without any capability that returns,
\* every call is settled: replays, the node's deadline and its cache make up
\* for broken connections.
EventuallyAnswered == \A c \in CallIds : Pending(c) ~> outcome[c] # None

\* A promise settles once: no timer, abort, verdict or restart changes it later.
SettledOnce ==
  [][\A c \in CallIds : outcome[c] # None => outcome'[c] = outcome[c] /\ ~Pending(c)']_linkVars

\* The link implements the calls a caller sees: RemoteCall, with the ledger and
\* the outcomes as the promise and the started call objects as the work.
Promise(c) ==
  IF outcome[c] # None THEN outcome[c] ELSE IF Pending(c) THEN "open" ELSE "idle"

Contract == INSTANCE RemoteCall WITH
  promise <- [c \in CallIds |-> Promise(c)],
  work <- [c \in CallIds |-> Cardinality({r \in RunsOf(c) : Invoked(r)})]

ImplementsRemoteCall == Contract!CallSpec

=============================================================================
