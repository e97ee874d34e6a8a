--------------------------- MODULE RemoteNodePairing ---------------------------
(***************************************************************************)
(* The pairing of devices with a capability node: the window in which a    *)
(* code is good, the handshake of every connection, the credential in the  *)
(* node's memory and on its disk, and the key a device keeps.              *)
(*                                                                         *)
(* One credential is held at a time.  Storing it and removing it are       *)
(* awaited, and everything else may happen meanwhile: the connection that  *)
(* pairs breaks or is closed, another device pairs, the host unpairs, the  *)
(* server is stopped and started, the process ends.                        *)
(*                                                                         *)
(* A device that has no credential makes up a clientId, and one that pairs *)
(* a key; both are named by the connection on which that happens.  A code  *)
(* is named by its window.  Calls, and the result cache that pairing and   *)
(* unpairing empty, are what RemoteNodeCallRunner is about.                *)
(***************************************************************************)
EXTENDS Integers, Sequences, FiniteSets

CONSTANTS Devices,      \* hosts that keep a credential for this node
          MaxLinks,     \* bound: connections dialed
          MaxWindows,   \* bound: pairing windows opened
          MaxRefusals,  \* RemoteNodePairingMaxFailures
          MaxUpsets     \* bound: breaks, failed saves, new clients, unpairings, stops, crashes

ASSUME PairingAssumption ==
  /\ MaxLinks \in Nat \ {0}
  /\ MaxWindows \in Nat
  /\ MaxRefusals \in Nat \ {0}
  /\ MaxUpsets \in Nat

Links   == 1..MaxLinks
Windows == 1..MaxWindows
Nil     == 0

VARIABLES
  device,      \* device -> its socket, clientId, key, pairingKeyPair, code and state
  who,         \* connection -> the clientId its hello named
  hand,        \* connection -> the phase the node has it in
  carrier,     \* connection -> its socket as the node sees it
  toNode,      \* connection -> frames on their way to the node
  toDevice,    \* connection -> frames on their way to the device
  saver,       \* connection -> its pairing whose credential is being stored
  power,       \* the server: off, reading the credential, or on
  loaded,      \* what start() read
  credential,  \* the credential in memory
  onDisk,      \* the credential in the file
  readyLink,     \* the ready connection
  window,      \* the pairing window that is open, or Nil
  opened,      \* windows opened so far
  refusals,    \* the gate's count of wrong codes
  blocked,     \* the gate is in its lockout
  clearing,    \* unpair() is removing the file
  upsets,      \* upsets so far
  entangled,   \* history: two of save, clear and load overlapped, or a clear failed
  revived,     \* history: connections granted after they were closed
  unread       \* history: start() found a file and could not read it, and it is still so

linkState   == <<who, hand, carrier, toNode, toDevice, readyLink>>
nodeState   == <<power, loaded, credential, onDisk, clearing>>
gateState   == <<window, opened, refusals, blocked>>
history     == <<entangled, revived, unread>>
pairingVars == <<device, linkState, saver, nodeState, gateState, upsets, history>>

NoCredential == [client |-> Nil, key |-> Nil]

Frame(type, arg) == [type |-> type, arg |-> arg]

NewDevice == [socket |-> Nil, client |-> Nil, key |-> Nil, fresh |-> Nil, code |-> Nil,
              state |-> "idle"]

PairingInit ==
  /\ device = [d \in Devices |-> NewDevice]
  /\ who = [n \in Links |-> Nil]
  /\ hand = [n \in Links |-> "none"]
  /\ carrier = [n \in Links |-> "none"]
  /\ toNode = [n \in Links |-> <<>>]
  /\ toDevice = [n \in Links |-> <<>>]
  /\ saver = [n \in Links |-> "none"]
  /\ power = "off" /\ loaded = NoCredential
  /\ credential = NoCredential /\ onDisk = NoCredential
  /\ readyLink = Nil /\ clearing = FALSE
  /\ window = Nil /\ opened = 0 /\ refusals = 0 /\ blocked = FALSE
  /\ upsets = 0 /\ entangled = FALSE /\ revived = {} /\ unread = FALSE

Upset == upsets < MaxUpsets /\ upsets' = upsets + 1

-----------------------------------------------------------------------------
(* Connections. *)

\* sendFrame: a frame written to a socket that is not open is dropped.
Sent(queues, n, frames) ==
  IF carrier[n] = "open" THEN [queues EXCEPT ![n] = @ \o frames] ELSE queues

\* closeConnection(n, code): the node ignores what still arrives, and the device is told.
Closing(n, code) ==
  /\ hand' = [hand EXCEPT ![n] = "closed"]
  /\ carrier' = [carrier EXCEPT ![n] = IF @ = "open" THEN "closing" ELSE @]
  /\ toNode' = [toNode EXCEPT ![n] = <<>>]
  /\ toDevice' = Sent(toDevice, n, <<Frame("close", code)>>)
  /\ readyLink' = IF readyLink = n THEN Nil ELSE readyLink

\* grantReady(n), after the frames of its handler: the connection before it is replaced.
\* Nothing is asked about n itself, which may have been closed meanwhile.
Granting(n, frames) ==
  LET previous == {readyLink} \ {Nil, n}
  IN /\ hand' = [m \in Links |-> IF m = n THEN "ready" ELSE IF m \in previous THEN "closed" ELSE hand[m]]
     /\ carrier' = [m \in Links |->
                     IF m \in previous /\ carrier[m] = "open" THEN "closing" ELSE carrier[m]]
     /\ toDevice' = [m \in Links |->
                      IF carrier[m] # "open" \/ m \notin previous \cup {n} THEN toDevice[m]
                      ELSE IF m = n THEN toDevice[m] \o Append(frames, Frame("ready", Nil))
                      ELSE Append(toDevice[m], Frame("close", "replaced"))]
     /\ readyLink' = n

-----------------------------------------------------------------------------
(* The device. *)

Heard(d, type) ==
  /\ device[d].socket # Nil
  /\ toDevice[device[d].socket] # <<>>
  /\ Head(toDevice[device[d].socket]).type = type

Word(d) == Head(toDevice[device[d].socket]).arg

\* connect, or the reconnect timer, and the open event of the socket: a device without
\* a clientId makes one up. The code is given once, when the client is made; Nil is none.
Dial(d) ==
  \E n \in Links :
    /\ device[d].state \in {"idle", "connecting"} /\ device[d].socket = Nil
    /\ power = "on"
    /\ hand[n] = "none" /\ \A m \in Links : m < n => hand[m] # "none"
    /\ LET id == IF device[d].client = Nil THEN n ELSE device[d].client
       IN \E code \in IF device[d].state = "idle" THEN 0..opened ELSE {device[d].code} :
            /\ device' = [device EXCEPT ![d] = [@ EXCEPT !.socket = n, !.client = id, !.code = code,
                                                         !.state = "connecting"]]
            /\ toNode' = [toNode EXCEPT ![n] = <<Frame("hello", id)>>]
    /\ hand' = [hand EXCEPT ![n] = "hello"]
    /\ carrier' = [carrier EXCEPT ![n] = "open"]
    /\ UNCHANGED <<who, toDevice, saver, nodeState, readyLink, gateState, upsets, history>>

\* What planRemoteNodeHandshake answers to a challenge: a signature, a code with a new
\* key, or nothing, and then the client stops and closes its socket.
HandleChallenge(d) ==
  LET n == device[d].socket
      Answers(frame, changed) ==
        /\ toNode' = IF hand[n] = "closed" THEN toNode ELSE Sent(toNode, n, <<frame>>)
        /\ device' = [device EXCEPT ![d] = changed]
        /\ carrier' = carrier
  IN /\ Heard(d, "challenge")
     /\ toDevice' = [toDevice EXCEPT ![n] = Tail(@)]
     /\ \/ /\ Word(d) /\ device[d].key # Nil
           /\ Answers(Frame("authenticate", device[d].key), device[d])
        \/ /\ ~(Word(d) /\ device[d].key # Nil) /\ device[d].code # Nil
           /\ Answers(Frame("pair", device[d].code), [device[d] EXCEPT !.fresh = n])
        \/ /\ ~(Word(d) /\ device[d].key # Nil) /\ device[d].code = Nil
           /\ device' = [device EXCEPT ![d] = [@ EXCEPT !.socket = Nil, !.state = "stopped"]]
           /\ carrier' = [carrier EXCEPT ![n] = IF @ = "open" THEN "closing" ELSE @]
           /\ toNode' = toNode
     /\ UNCHANGED <<who, hand, saver, nodeState, readyLink, gateState, upsets, history>>

HandlePaired(d) ==
  LET n == device[d].socket
  IN /\ Heard(d, "paired")
     /\ toDevice' = [toDevice EXCEPT ![n] = Tail(@)]
     /\ device' = IF device[d].fresh = Nil THEN device
                  ELSE [device EXCEPT ![d] = [@ EXCEPT !.key = device[d].fresh, !.fresh = Nil]]
     /\ UNCHANGED <<who, hand, carrier, toNode, saver, nodeState, readyLink, gateState, upsets, history>>

HandleReady(d) ==
  LET n == device[d].socket
  IN /\ Heard(d, "ready")
     /\ toDevice' = [toDevice EXCEPT ![n] = Tail(@)]
     /\ device' = [device EXCEPT ![d].state = "ready"]
     /\ UNCHANGED <<who, hand, carrier, toNode, saver, nodeState, readyLink, gateState, upsets, history>>

\* The close event, with the node's code or without one: refused, the device forgets its
\* credential and stops; replaced, it stops; otherwise it dials again.
HandleClose(d) ==
  LET n == device[d].socket
      code == IF toDevice[n] = <<>> THEN "transient" ELSE Word(d)
  IN /\ n # Nil
     /\ Heard(d, "close") \/ (carrier[n] # "open" /\ toDevice[n] = <<>>)
     /\ device' = [device EXCEPT ![d] =
                    [@ EXCEPT !.socket = Nil,
                              !.key = IF code = "unauthorized" THEN Nil ELSE device[d].key,
                              !.state = IF code = "transient" THEN "connecting" ELSE "stopped"]]
     /\ toDevice' = [toDevice EXCEPT ![n] = <<>>]
     /\ UNCHANGED <<who, hand, carrier, toNode, saver, nodeState, readyLink, gateState, upsets, history>>

\* The host ends the client, or its process ends, and makes a new one with the stored
\* credential; a key whose save had not finished or had failed is gone, and with it the clientId.
RenewClient(d) ==
  LET n == device[d].socket
  IN /\ Upset
     /\ device[d].client # Nil
     /\ \E kept \in {device[d].key, Nil} :
          device' = [device EXCEPT ![d] = [NewDevice EXCEPT !.key = kept,
                                             !.client = IF kept = Nil THEN Nil ELSE device[d].client]]
     /\ carrier' = [m \in Links |-> IF m = n /\ carrier[m] = "open" THEN "closing" ELSE carrier[m]]
     /\ toDevice' = [m \in Links |-> IF m = n THEN <<>> ELSE toDevice[m]]
     /\ UNCHANGED <<who, hand, toNode, saver, nodeState, readyLink, gateState, history>>

-----------------------------------------------------------------------------
(* The pairing gate. *)

StartPairing ==
  /\ power = "on"
  /\ opened < MaxWindows
  /\ opened' = opened + 1
  /\ window' = opened + 1
  /\ UNCHANGED <<device, linkState, saver, nodeState, refusals, blocked, upsets, history>>

\* The window's timer.
WindowCloses ==
  /\ window # Nil
  /\ window' = Nil
  /\ UNCHANGED <<device, linkState, saver, nodeState, opened, refusals, blocked, upsets, history>>

LockoutEnds ==
  /\ blocked
  /\ blocked' = FALSE
  /\ UNCHANGED <<device, linkState, saver, nodeState, window, opened, refusals, upsets, history>>

Accepts(code) == ~blocked /\ window # Nil /\ code = window

\* A wrong code counts unless the gate is locked; the last one that is allowed locks it.
CountRefusal ==
  /\ refusals' = IF blocked THEN refusals ELSE IF refusals + 1 >= MaxRefusals THEN 0 ELSE refusals + 1
  /\ blocked' = (blocked \/ refusals + 1 >= MaxRefusals)
  /\ UNCHANGED <<window, opened>>

-----------------------------------------------------------------------------
(* The node: frames. *)

Reads(n, type) ==
  /\ hand[n] # "closed"
  /\ toNode[n] # <<>>
  /\ Head(toNode[n]).type = type

Argument(n) == Head(toNode[n]).arg

HandleHello(n) ==
  LET client == Argument(n)
      paired == credential.client = client
  IN /\ Reads(n, "hello") /\ hand[n] = "hello"
     /\ toNode' = [toNode EXCEPT ![n] = Tail(@)]
     /\ who' = [who EXCEPT ![n] = client]
     /\ hand' = [hand EXCEPT ![n] = IF paired THEN "authenticate" ELSE "pair"]
     /\ toDevice' = Sent(toDevice, n, <<Frame("challenge", paired)>>)
     /\ UNCHANGED <<device, carrier, saver, nodeState, readyLink, gateState, upsets, history>>

\* handlePair up to its await: the window closes before the credential is stored.
AcceptPair(n) ==
  /\ Reads(n, "pair") /\ hand[n] = "pair"
  /\ Accepts(Argument(n))
  /\ toNode' = [toNode EXCEPT ![n] = Tail(@)]
  /\ hand' = [hand EXCEPT ![n] = "pairing"]
  /\ window' = Nil /\ refusals' = 0
  /\ saver' = [saver EXCEPT ![n] = "saving"]
  /\ entangled' = (entangled \/ clearing \/ power = "reading" \/ \E m \in Links : saver[m] # "none")
  /\ UNCHANGED <<device, who, carrier, toDevice, nodeState, readyLink, opened, blocked, upsets, revived,
                 unread>>

\* A device the node knows, or one that pairs already, may not pair; a wrong code is counted.
RefusePair(n) ==
  /\ Reads(n, "pair")
  /\ IF hand[n] = "pair"
     THEN ~Accepts(Argument(n)) /\ CountRefusal
     ELSE UNCHANGED gateState
  /\ Closing(n, "unauthorized")
  /\ UNCHANGED <<device, who, saver, nodeState, upsets, history>>

\* The file is written beside and renamed into place.
CredentialSaved(n) ==
  /\ saver[n] = "saving"
  /\ onDisk' = [client |-> who[n], key |-> n]
  /\ saver' = [saver EXCEPT ![n] = "saved"]
  /\ UNCHANGED <<device, linkState, power, loaded, credential, clearing, gateState, upsets, history>>

\* MUTATED: a failed save is logged and the pairing goes on.
CredentialSaveIgnored(n) ==
  /\ Upset
  /\ saver[n] = "saving"
  /\ saver' = [saver EXCEPT ![n] = "none"]
  /\ credential' = [client |-> who[n], key |-> n]
  /\ Granting(n, <<Frame("paired", Nil)>>)
  /\ UNCHANGED <<device, who, toNode, power, loaded, onDisk, clearing, gateState, history>>

CredentialSaveFails(n) ==
  /\ Upset
  /\ saver[n] = "saving"
  /\ saver' = [saver EXCEPT ![n] = "none"]
  /\ Closing(n, "transient")
  /\ UNCHANGED <<device, who, nodeState, gateState, history>>

\* handlePair after its await.
FinishPair(n) ==
  /\ saver[n] = "saved"
  /\ saver' = [saver EXCEPT ![n] = "none"]
  /\ credential' = [client |-> who[n], key |-> n]
  /\ Granting(n, <<Frame("paired", Nil)>>)
  /\ revived' = IF hand[n] = "closed" THEN revived \cup {n} ELSE revived
  /\ unread' = FALSE
  /\ UNCHANGED <<device, who, toNode, power, loaded, onDisk, clearing, gateState, upsets, entangled>>

Verified(n) ==
  /\ hand[n] \in {"authenticate", "ready"}
  /\ credential # NoCredential
  /\ credential.client = who[n] /\ credential.key = Argument(n)

HandleAuthenticate(n) ==
  /\ Reads(n, "authenticate")
  /\ Verified(n)
  /\ toNode' = [toNode EXCEPT ![n] = Tail(@)]
  /\ IF hand[n] = "ready"
     THEN UNCHANGED <<hand, carrier, toDevice, readyLink>>
     ELSE Granting(n, <<>>)
  /\ UNCHANGED <<device, who, saver, nodeState, gateState, upsets, history>>

RefuseAuthenticate(n) ==
  /\ Reads(n, "authenticate")
  /\ ~Verified(n)
  /\ Closing(n, "unauthorized")
  /\ UNCHANGED <<device, who, saver, nodeState, gateState, upsets, history>>

\* The socket's close event comes once; a pairing of this connection goes on.
SocketCloses(n) ==
  /\ carrier[n] = "closing"
  /\ carrier' = [carrier EXCEPT ![n] = "gone"]
  /\ hand' = [hand EXCEPT ![n] = "closed"]
  /\ toNode' = [toNode EXCEPT ![n] = <<>>]
  /\ readyLink' = IF readyLink = n THEN Nil ELSE readyLink
  /\ UNCHANGED <<device, who, toDevice, saver, nodeState, gateState, upsets, history>>

\* The network breaks a connection, with the frames on it.
BreakLink(n) ==
  /\ Upset
  /\ carrier[n] = "open"
  /\ carrier' = [carrier EXCEPT ![n] = "closing"]
  /\ toNode' = [toNode EXCEPT ![n] = <<>>]
  /\ toDevice' = [toDevice EXCEPT ![n] = <<>>]
  /\ UNCHANGED <<device, who, hand, saver, nodeState, readyLink, gateState, history>>

-----------------------------------------------------------------------------
(* The node: the host's calls. *)

\* MUTATED: the connection of the client that is unpaired stays.
UnpairQuietly ==
  /\ Upset
  /\ ~clearing
  /\ credential' = NoCredential
  /\ clearing' = TRUE
  /\ entangled' = (entangled \/ power = "reading" \/ \E n \in Links : saver[n] # "none")
  /\ UNCHANGED <<device, linkState, saver, power, loaded, onDisk, gateState, revived, unread>>

\* unpair up to its await.
Unpair ==
  /\ Upset
  /\ ~clearing
  /\ IF readyLink = Nil THEN UNCHANGED <<hand, carrier, toNode, toDevice, readyLink>>
                      ELSE Closing(readyLink, "unauthorized")
  /\ credential' = NoCredential
  /\ clearing' = TRUE
  /\ entangled' = (entangled \/ power = "reading" \/ \E n \in Links : saver[n] # "none")
  /\ UNCHANGED <<device, who, saver, power, loaded, onDisk, gateState, revived, unread>>

ClearLands ==
  /\ clearing
  /\ clearing' = FALSE
  /\ onDisk' = NoCredential
  /\ unread' = FALSE
  /\ UNCHANGED <<device, linkState, saver, power, loaded, credential, gateState, upsets, entangled, revived>>

\* The file cannot be removed: unpair() rejects, memory and disk differ until the next start.
ClearFails ==
  /\ clearing
  /\ clearing' = FALSE
  /\ entangled' = TRUE
  /\ UNCHANGED <<device, linkState, saver, power, loaded, credential, onDisk, gateState, upsets, revived,
                 unread>>

\* Every socket is closed or destroyed; the device learns it with or without a code.
AllClosed ==
  /\ hand' = [n \in Links |-> IF hand[n] = "none" THEN "none" ELSE "closed"]
  /\ carrier' = [n \in Links |-> IF carrier[n] = "open" THEN "closing" ELSE carrier[n]]
  /\ toNode' = [n \in Links |-> <<>>]
  /\ toDevice' = [n \in Links |-> IF carrier[n] = "open" THEN <<>> ELSE toDevice[n]]
  /\ readyLink' = Nil

\* stop(): a save or a clear that is under way goes on.
StopNode ==
  /\ Upset
  /\ power = "on"
  /\ power' = "off"
  /\ window' = Nil
  /\ AllClosed
  /\ UNCHANGED <<device, who, saver, loaded, credential, onDisk, clearing, opened, refusals, blocked,
                 history>>

\* start() up to its await: after a stop there is a new gate and a new runner.  load()
\* gives what is in the file or, when the file cannot be read or is not valid, nothing:
\* the node then takes itself for unpaired, and the file stays.
StartReads ==
  /\ power = "off"
  /\ power' = "reading"
  /\ \/ loaded' = onDisk /\ unread' = FALSE
     \/ onDisk # NoCredential /\ loaded' = NoCredential /\ unread' = TRUE
  /\ window' = Nil /\ refusals' = 0 /\ blocked' = FALSE
  /\ entangled' = (clearing \/ \E n \in Links : saver[n] # "none")
  /\ UNCHANGED <<device, linkState, saver, credential, onDisk, clearing, opened, upsets, revived>>

StartListens ==
  /\ power = "reading"
  /\ power' = "on"
  /\ credential' = loaded /\ loaded' = NoCredential
  /\ UNCHANGED <<device, linkState, saver, onDisk, clearing, gateState, upsets, history>>

\* The node's process ends, and with it everything but the file.
NodeCrash ==
  /\ Upset
  /\ power' = "off"
  /\ AllClosed
  /\ saver' = [n \in Links |-> "none"]
  /\ credential' = NoCredential /\ loaded' = NoCredential
  /\ clearing' = FALSE
  /\ window' = Nil /\ refusals' = 0 /\ blocked' = FALSE
  /\ entangled' = FALSE /\ unread' = FALSE
  /\ UNCHANGED <<device, who, onDisk, opened, revived>>

PairingNext ==
  \/ \E d \in Devices :
       \/ Dial(d) \/ HandleChallenge(d) \/ HandlePaired(d) \/ HandleReady(d) \/ HandleClose(d)
       \/ RenewClient(d)
  \/ \E n \in Links :
       \/ HandleHello(n) \/ AcceptPair(n) \/ RefusePair(n) \/ HandleAuthenticate(n) \/ RefuseAuthenticate(n)
       \/ CredentialSaved(n) \/ CredentialSaveFails(n) \/ FinishPair(n) \/ SocketCloses(n) \/ BreakLink(n)
  \/ StartPairing \/ WindowCloses \/ LockoutEnds
  \/ Unpair \/ ClearLands \/ ClearFails \/ StopNode \/ StartReads \/ StartListens \/ NodeCrash

PairingSpec == PairingInit /\ [][PairingNext]_pairingVars

-----------------------------------------------------------------------------
Quiet == power = "on" /\ ~clearing /\ \A n \in Links : saver[n] = "none"

\* What the node goes by is what it will find after a restart, unless a save, a clear and
\* a load overlapped since it was started.  When it could not read its file it goes by
\* nothing, and by nothing else, until it has paired again or removed the file.
MemoryMatchesDisk ==
  Quiet /\ ~entangled => credential = onDisk \/ (unread /\ credential = NoCredential)

\* Whoever is connected is whom the node is paired with, on a connection whose end the
\* node has not seen, and no second connection is in that phase, whatever was replaced,
\* unpaired or stopped while a credential was stored; and a device that takes the same
\* connection for ready holds the key the node knows, so that it is let in again. The
\* exception: a connection that was closed while it paired is made ready all the same.
ReadyIsPaired ==
  /\ \A n \in Links : hand[n] = "ready" <=> readyLink = n
  /\ readyLink # Nil /\ readyLink \notin revived =>
       /\ carrier[readyLink] # "gone"
       /\ who[readyLink] = credential.client
       /\ \A d \in Devices :
            device[d].socket = readyLink /\ device[d].state = "ready" =>
              credential = [client |-> device[d].client, key |-> device[d].key]

=============================================================================
