------------------------------ MODULE SocketAuth ------------------------------
(* The web sockets of one room: an upgraded socket authenticates by its first *)
(* frame, is then told every revision of the room, and is dropped when it     *)
(* stays silent.  A step is one callback of the event loop; the snapshot that *)
(* checks a token is awaited, so anything may happen before it is there.      *)
EXTENDS Integers, FiniteSets

CONSTANTS Sockets,
          MaxFrames,    \* bound on the auth frames one socket sends
          MaxRevision,  \* bound on the commands of the room
          Beats         \* whether a heartbeat runs (heartbeatIntervalMs > 0)

ASSUME SocketAssumption ==
  /\ IsFiniteSet(Sockets) /\ MaxFrames \in Nat /\ MaxRevision \in Nat /\ Beats \in BOOLEAN

VARIABLES ready,       \* readyState of each socket, "none" before its upgrade
          peer,        \* whether the other end still answers
          timer,       \* state.authTimer is armed
          authed,      \* state.authenticated
          alive,       \* state.alive
          frames,      \* auth frames sent so far
          loads,       \* the snapshots being awaited
          handlers,    \* close handlers registered with the room
          sockets,     \* roomSockets of the room
          connections, \* activeConnections of the room, in the store
          revision,    \* the revision of the room
          sent         \* the revision each socket was told last

socketVars == <<ready, peer, timer, authed, alive, frames, loads, handlers, sockets, connections, revision, sent>>

Clients == {s \in Sockets : ready[s] \in {"open", "closing"}}   \* wss.clients
-----------------------------------------------------------------------------
SocketInit ==
  /\ ready = [s \in Sockets |-> "none"] /\ peer = [s \in Sockets |-> TRUE]
  /\ timer = [s \in Sockets |-> FALSE] /\ authed = [s \in Sockets |-> FALSE]
  /\ alive = [s \in Sockets |-> TRUE]
  /\ frames = [s \in Sockets |-> 0] /\ loads = [s \in Sockets |-> 0]
  /\ handlers = [s \in Sockets |-> 0] /\ sockets = {} /\ connections = 0
  /\ revision = 0 /\ sent = [s \in Sockets |-> 0]

\* An upgrade to /ws is accepted: handleConnection.
Connect(s) ==
  /\ ready[s] = "none"
  /\ ready' = [ready EXCEPT ![s] = "open"]
  /\ timer' = [timer EXCEPT ![s] = TRUE]
  /\ UNCHANGED <<peer, authed, alive, frames, loads, handlers, sockets, connections, revision, sent>>

\* ws.close: a no-op on a socket that is closing or closed.
Shut(s) == ready' = [ready EXCEPT ![s] = IF @ = "open" THEN "closing" ELSE @]

AuthTimeout(s) ==
  /\ timer[s]
  /\ timer' = [timer EXCEPT ![s] = FALSE]
  /\ IF authed[s] THEN UNCHANGED ready ELSE Shut(s)
  /\ UNCHANGED <<peer, authed, alive, frames, loads, handlers, sockets, connections, revision, sent>>

\* An auth frame is read, also while the socket is closing, as long as none has
\* succeeded.  The address may be over its rate; otherwise the room is read.
AuthFrame(s) ==
  /\ s \in Clients /\ peer[s] /\ frames[s] < MaxFrames
  /\ ~authed[s]
  /\ frames' = [frames EXCEPT ![s] = @ + 1]
  /\ \/ Shut(s) /\ UNCHANGED loads
     \/ loads' = [loads EXCEPT ![s] = @ + 1] /\ UNCHANGED ready
  /\ UNCHANGED <<peer, timer, authed, alive, handlers, sockets, connections, revision, sent>>

\* registerSocket: the set of the room, the count of the store, and a handler
\* that takes both back.
Register(s) ==
  IF ready[s] # "open" THEN UNCHANGED <<sockets, handlers, connections>>
  ELSE /\ sockets' = sockets \cup {s}
       /\ handlers' = [handlers EXCEPT ![s] = @ + 1]
       /\ connections' = connections + 1

\* The room is read and the token is a member's.  No write can end between the
\* read and the registration: both run before the event loop turns again.
AuthAccepted(s) ==
  /\ loads[s] > 0
  /\ loads' = [loads EXCEPT ![s] = @ - 1]
  /\ timer' = [timer EXCEPT ![s] = FALSE]
  /\ authed' = [authed EXCEPT ![s] = TRUE]
  /\ Register(s)
  /\ sent' = IF ready[s] = "open" THEN [sent EXCEPT ![s] = revision] ELSE sent
  /\ UNCHANGED <<ready, peer, alive, frames, revision>>

\* No such room, a stranger's token, or a disk that fails.
AuthRefused(s) ==
  /\ loads[s] > 0
  /\ loads' = [loads EXCEPT ![s] = @ - 1]
  /\ Shut(s)
  /\ UNCHANGED <<peer, timer, authed, alive, frames, handlers, sockets, connections, revision, sent>>

\* A command takes effect and the store calls its listeners.
Notify ==
  /\ revision < MaxRevision
  /\ revision' = revision + 1
  /\ sent' = [s \in Sockets |-> IF s \in sockets /\ ready[s] = "open" THEN revision' ELSE sent[s]]
  /\ UNCHANGED <<ready, peer, timer, authed, alive, frames, loads, handlers, sockets, connections>>

\* Mutant: the store is told once for a socket, however often it was counted.
Close_Once(s) ==
  /\ ready' = [ready EXCEPT ![s] = "closed"]
  /\ timer' = [timer EXCEPT ![s] = FALSE]
  /\ sockets' = sockets \ {s}
  /\ connections' = IF handlers[s] > 0 /\ connections > 0 THEN connections - 1 ELSE connections
  /\ handlers' = [handlers EXCEPT ![s] = 0]

\* The close event: every handler of the socket runs, one after the other.
Close(s) ==
  /\ ready' = [ready EXCEPT ![s] = "closed"]
  /\ timer' = [timer EXCEPT ![s] = FALSE]
  /\ sockets' = IF handlers[s] > 0 THEN sockets \ {s} ELSE sockets
  /\ connections' = IF handlers[s] >= connections THEN 0 ELSE connections - handlers[s]
  /\ handlers' = [handlers EXCEPT ![s] = 0]

\* The peer closes, an error terminates, or the closing handshake ends.
Closed(s) ==
  /\ s \in Clients /\ peer[s]
  /\ Close(s)
  /\ UNCHANGED <<peer, authed, alive, frames, loads, revision, sent>>

\* The network drops the peer: nothing will come from it, not even an end.
PeerDies(s) ==
  /\ s \in Clients /\ peer[s]
  /\ peer' = [peer EXCEPT ![s] = FALSE]
  /\ UNCHANGED <<ready, timer, authed, alive, frames, loads, handlers, sockets, connections, revision, sent>>

Watched(s) == s \in Clients

\* The heartbeat finds a socket that has answered since the last one, and pings.
Ping(s) ==
  /\ Beats /\ Watched(s) /\ alive[s]
  /\ alive' = [alive EXCEPT ![s] = FALSE]
  /\ UNCHANGED <<ready, peer, timer, authed, frames, loads, handlers, sockets, connections, revision, sent>>

\* It finds one that has not, and terminates it.
Terminate(s) ==
  /\ Beats /\ Watched(s) /\ ~alive[s]
  /\ Close(s)
  /\ UNCHANGED <<peer, authed, alive, frames, loads, revision, sent>>

Pong(s) ==
  /\ s \in Clients /\ peer[s] /\ ~alive[s]
  /\ alive' = [alive EXCEPT ![s] = TRUE]
  /\ UNCHANGED <<ready, peer, timer, authed, frames, loads, handlers, sockets, connections, revision, sent>>

Answered(s) == AuthAccepted(s) \/ AuthRefused(s)
SocketNext ==
  \/ Notify
  \/ \E s \in Sockets :
       \/ Connect(s) \/ AuthTimeout(s) \/ AuthFrame(s) \/ Answered(s)
       \/ Closed(s) \/ PeerDies(s) \/ Ping(s) \/ Terminate(s) \/ Pong(s)

\* Timers run out, the store answers, and the interval of the heartbeat comes
\* round; what the other end does is up to it.
SocketFairness ==
  \A s \in Sockets :
    /\ WF_socketVars(AuthTimeout(s)) /\ WF_socketVars(Answered(s))
    /\ WF_socketVars(Ping(s)) /\ WF_socketVars(Terminate(s))
SocketSpec == SocketInit /\ [][SocketNext]_socketVars /\ SocketFairness
-----------------------------------------------------------------------------
SocketTypeOK ==
  /\ ready \in [Sockets -> {"none", "open", "closing", "closed"}]
  /\ peer \in [Sockets -> BOOLEAN] /\ timer \in [Sockets -> BOOLEAN]
  /\ authed \in [Sockets -> BOOLEAN] /\ alive \in [Sockets -> BOOLEAN]
  /\ frames \in [Sockets -> 0..MaxFrames] /\ loads \in [Sockets -> 0..MaxFrames]
  /\ handlers \in [Sockets -> 0..MaxFrames] /\ sockets \subseteq Sockets
  /\ connections \in Nat /\ revision \in 0..MaxRevision /\ sent \in [Sockets -> 0..MaxRevision]

\* The set of the room holds no socket that is gone, though its token was still
\* being checked when it went, or was checked twice.
NoGhostSocket == \A s \in sockets : s \in Clients /\ handlers[s] > 0

\* The store counts a room as in use exactly while a registered socket is
\* there: counted too long the room is never evicted, too short it is evicted
\* under its players.
CountsWhoIsThere == (connections > 0) <=> (sockets # {})

\* Whoever is authenticated knows the newest revision: none falls between the
\* snapshot that checked the token and the registration.
NoMissedRevision ==
  \A s \in Sockets : ready[s] = "open" /\ authed[s] => s \in sockets /\ sent[s] = revision

\* What app.ts keeps of the sockets of a room: the set holds nobody who is gone,
\* the store counts who is there, and each knows the newest revision.
SocketsSound == SocketTypeOK /\ NoGhostSocket /\ CountsWhoIsThere /\ NoMissedRevision

\* It is open and has not authenticated; or its peer is dead, who "never sends a
\* FIN", and it is not closed.
Unsettled(s) ==
  \/ ready[s] = "open" /\ ~authed[s]
  \/ s \in Clients /\ ~peer[s] /\ ready[s] # "closed"
=============================================================================
