----------------------------- MODULE ClientSync -----------------------------
(* How a screen of the Node server keeps up with its room: the web socket of  *)
(* ServerService.subscribe tells it that there is something new, App fetches  *)
(* the personal snapshot, and replies, sockets and visits overlap.            *)
EXTENDS Naturals, FiniteSets

CONSTANTS Rooms, Home,
          Slots,        \* sockets the browser may hold at a time
          MaxRevision,  \* bound on the revision of a room
          MaxVisits,    \* bound on the navigations
          MaxAsked,     \* snapshots asked for at a time that are told apart
          MaxFaults     \* bound on what is lost without the client being told

SyncAssumption ==
  /\ Home \notin Rooms /\ IsFiniteSet(Rooms) /\ Slots \subseteq Nat \ {0}
  /\ {MaxRevision, MaxVisits, MaxFaults} \subseteq Nat /\ MaxAsked \in Nat \ {0}

VARIABLES revision,    \* of each room, on the server
          path, visits, visible,
          shown,       \* room and revision of the snapshot App holds
          seen,        \* history: the highest revision of each room on the screen
          sock,        \* the sockets: state, room, whether the subscription still
                       \* listens, a revision message on its way, the line dead
          socket,      \* the socket the subscription holds, 0 for none
          timer,       \* reconnectTimer is armed
          connection,  \* what the screen says of the connection
          asked, pulls,\* snapshots asked for by refresh() and by pullLatest()
          replies,     \* revisions of the snapshots on their way back
          command,     \* the reply of a command on its way back
          faults

vars == <<revision, path, visits, visible, shown, seen, sock, socket, timer, connection, asked, pulls, replies, command, faults>>
fetching == <<asked, pulls, replies>>
line == <<sock, socket, timer, connection>>
screen == <<path, visits, visible, shown, seen>>

Nothing == [room |-> Home, revision |-> 0]
Free == [st |-> "none", room |-> Home, listens |-> FALSE, notice |-> FALSE, dead |-> FALSE]
Open(s) == sock[s].st \in {"open", "registered", "refused"}   \* readyState OPEN
-----------------------------------------------------------------------------
Init ==
  /\ revision = [r \in Rooms |-> 1]
  /\ path = Home /\ visits = 0 /\ visible = TRUE /\ shown = Nothing
  /\ seen = [r \in Rooms |-> 0]
  /\ sock = [s \in Slots |-> Free] /\ socket = 0 /\ timer = FALSE /\ connection = "connecting"
  /\ asked = 0 /\ pulls = 0 /\ replies = {} /\ command = Nothing /\ faults = 0

\* Only a snapshot of the room at the address is on the screen.
Saw(room, s) ==
  seen' = IF s.room = room /\ room # Home THEN [seen EXCEPT ![room] = IF s.revision > @ THEN s.revision ELSE @] ELSE seen

\* App.accept: a snapshot of the same room with a lower revision is dropped.
Accept(next) ==
  /\ shown' = IF shown.room # next.room \/ next.revision >= shown.revision THEN next ELSE shown
  /\ Saw(path, shown')

\* refresh() and pullLatest().  More requests than MaxAsked at a time are served
\* no later than the last of those that are counted.
Refresh == asked' = IF asked < MaxAsked THEN asked + 1 ELSE asked
Pull == pulls' = IF pulls < MaxAsked THEN pulls + 1 ELSE pulls

\* The socket connect() makes.
Connecting(r, s) == [Free EXCEPT !.st = "connecting", !.room = r, !.listens = TRUE]

\* connect() in a slot that is free.
Connect ==
  \E s \in Slots :
    /\ sock[s] = Free
    /\ sock' = [sock EXCEPT ![s] = Connecting(path, s)]
    /\ socket' = s

\* The cleanup of the effect: nothing listens to the old socket any more, and it
\* is told to close.
Unsubscribed(s) ==
  IF sock[s].st = "none" THEN Free ELSE [sock[s] EXCEPT !.listens = FALSE, !.st = IF s = socket THEN "closing" ELSE @]

\* Another address: the old subscription ends, and what its requests still
\* bring is dropped; in a room a new one begins with a snapshot and a socket.
Navigate(to) ==
  /\ to # path /\ visits < MaxVisits
  /\ visits' = visits + 1 /\ path' = to /\ timer' = FALSE
  /\ pulls' = 0 /\ replies' = {}
  /\ IF to = Home
     THEN /\ shown' = Nothing /\ asked' = 0 /\ socket' = 0 /\ UNCHANGED connection
          /\ sock' = [s \in Slots |-> Unsubscribed(s)]
     ELSE /\ asked' = 1 /\ connection' = "connecting" /\ UNCHANGED shown
          /\ \E s \in Slots :
               /\ sock[s] = Free
               /\ sock' = [q \in Slots |-> IF q = s THEN Connecting(to, s) ELSE Unsubscribed(q)]
               /\ socket' = s
  /\ Saw(to, shown')
  /\ UNCHANGED <<revision, visible, command, faults>>
-----------------------------------------------------------------------------
\* The room.  A registered socket is sent every new revision.
Notify(r) == sock' = [s \in Slots |->
  IF sock[s].st = "registered" /\ sock[s].room = r /\ ~sock[s].dead THEN [sock[s] EXCEPT !.notice = TRUE] ELSE sock[s]]

Others(r) ==
  /\ revision[r] < MaxRevision
  /\ revision' = [revision EXCEPT ![r] = @ + 1]
  /\ Notify(r)
  /\ UNCHANGED <<screen, socket, timer, connection, fetching, command, faults>>

\* A command of this screen takes effect; its reply is a snapshot of that room.
Command ==
  /\ path # Home /\ shown.room = path /\ command = Nothing /\ revision[path] < MaxRevision
  /\ revision' = [revision EXCEPT ![path] = @ + 1]
  /\ command' = [room |-> path, revision |-> revision'[path]]
  /\ Notify(path)
  /\ UNCHANGED <<screen, socket, timer, connection, fetching, faults>>

\* The reply is taken wherever the screen is by now.
Reply ==
  /\ command # Nothing
  /\ Accept(command) /\ command' = Nothing
  /\ UNCHANGED <<revision, path, visits, visible, line, fetching, faults>>

\* The server checks the token, registers the socket and sends it the revision.
Register(s) ==
  /\ sock[s].st = "open" /\ ~sock[s].dead
  /\ sock' = [sock EXCEPT ![s].st = "registered", ![s].notice = TRUE]
  /\ UNCHANGED <<revision, screen, socket, timer, connection, fetching, command, faults>>

\* It closes the socket with 4401, for a bad token or one that came too late.
Refuse(s) ==
  /\ sock[s].st = "open" /\ faults < MaxFaults
  /\ sock' = [sock EXCEPT ![s].st = "refused"] /\ faults' = faults + 1
  /\ UNCHANGED <<revision, screen, socket, timer, connection, fetching, command>>
-----------------------------------------------------------------------------
\* The events of the socket.
Opened(s) ==
  /\ sock[s].st = "connecting"
  /\ sock' = [sock EXCEPT ![s].st = "open"]
  /\ IF sock[s].listens /\ socket = s
     THEN connection' = "connected" /\ Refresh /\ Pull
     ELSE UNCHANGED <<connection, asked, pulls>>
  /\ UNCHANGED <<revision, screen, socket, timer, replies, command, faults>>

Message(s) ==
  /\ sock[s].notice /\ Open(s)
  /\ sock' = [sock EXCEPT ![s].notice = FALSE]
  /\ IF sock[s].listens /\ socket = s THEN Refresh ELSE UNCHANGED asked
  /\ UNCHANGED <<revision, screen, socket, timer, connection, pulls, replies, command, faults>>

\* A socket ends: refused, told to close, or by a failure of the network or the
\* server.  Only 4401 is not followed by another try.
Closed(s) ==
  /\ sock[s].st # "none"
  /\ sock' = [sock EXCEPT ![s] = Free]
  /\ socket' = IF socket = s THEN 0 ELSE socket
  /\ IF sock[s].listens
     THEN IF sock[s].st = "refused"
          THEN connection' = "offline" /\ UNCHANGED timer
          ELSE connection' = "reconnecting" /\ timer' = TRUE
     ELSE UNCHANGED <<connection, timer>>
  /\ UNCHANGED <<revision, screen, fetching, command, faults>>

\* The line goes dead and nobody is told.
Dies(s) ==
  /\ Open(s) /\ ~sock[s].dead /\ faults < MaxFaults
  /\ sock' = [sock EXCEPT ![s].dead = TRUE, ![s].notice = FALSE] /\ faults' = faults + 1
  /\ UNCHANGED <<revision, screen, socket, timer, connection, fetching, command>>

Reconnect ==
  /\ timer /\ timer' = FALSE
  /\ Connect
  /\ connection' = "reconnecting"
  /\ UNCHANGED <<revision, screen, fetching, command, faults>>

Hide ==
  /\ visible /\ visible' = FALSE
  /\ UNCHANGED <<revision, path, visits, shown, seen, line, fetching, command, faults>>

\* The tab is looked at again: App asks for a snapshot, the subscription too
\* when its socket is open, and it connects when there is none.
Show ==
  /\ ~visible /\ visible' = TRUE
  /\ IF path = Home THEN UNCHANGED <<line, asked, pulls>>
     ELSE /\ Refresh
          /\ IF socket # 0 THEN UNCHANGED line /\ (IF Open(socket) THEN Pull ELSE UNCHANGED pulls)
             ELSE timer' = FALSE /\ connection' = "connecting" /\ Connect /\ UNCHANGED pulls
  /\ UNCHANGED <<revision, path, visits, shown, seen, replies, command, faults>>

\* Every 15 seconds while visible; a focus or an online event does the same.
Interval ==
  /\ path # Home /\ visible /\ Refresh
  /\ UNCHANGED <<revision, screen, line, pulls, replies, command, faults>>

\* A snapshot is read on the server, and arrives, in any order; or it fails.
Serve ==
  /\ asked > 0 /\ asked' = asked - 1
  /\ replies' = replies \cup {revision[path]}
  /\ UNCHANGED <<revision, screen, line, pulls, command, faults>>

Arrive(v) ==
  /\ v \in replies /\ replies' = replies \ {v}
  /\ Accept([room |-> path, revision |-> v])
  /\ UNCHANGED <<revision, path, visits, visible, line, asked, pulls, command, faults>>

ServePull ==
  /\ pulls > 0 /\ pulls' = pulls - 1 /\ Refresh
  /\ UNCHANGED <<revision, screen, line, replies, command, faults>>

Fails ==
  /\ faults < MaxFaults /\ faults' = faults + 1
  /\ \/ asked > 0 /\ asked' = asked - 1 /\ UNCHANGED pulls
     \/ pulls > 0 /\ pulls' = pulls - 1 /\ UNCHANGED asked
  /\ UNCHANGED <<revision, screen, line, replies, command>>

Next ==
  \/ \E to \in Rooms \cup {Home} : Navigate(to)
  \/ \E r \in Rooms : Others(r)
  \/ \E s \in Slots : Register(s) \/ Refuse(s) \/ Opened(s) \/ Message(s) \/ Closed(s) \/ Dies(s)
  \/ \E v \in replies : Arrive(v)
  \/ Command \/ Reply \/ Reconnect \/ Hide \/ Show \/ Interval \/ Serve \/ ServePull \/ Fails

Arrives == \E v \in replies : Arrive(v)
\* The interval fires, requests end, and a reply that is there is taken.
Spec == Init /\ [][Next]_vars /\ WF_vars(Interval) /\ WF_vars(Serve) /\ WF_vars(Arrives) /\ WF_vars(Reply)
-----------------------------------------------------------------------------
TypeOK ==
  /\ revision \in [Rooms -> 1..MaxRevision] /\ path \in Rooms \cup {Home} /\ visits \in 0..MaxVisits
  /\ {visible, timer} \subseteq BOOLEAN /\ socket \in Slots \cup {0}
  /\ {shown, command} \subseteq [room : Rooms, revision : 1..MaxRevision] \cup {Nothing}
  /\ \A s \in Slots : sock[s].st \in {"none", "connecting", "open", "registered", "refused", "closing"}
  /\ {asked, pulls} \subseteq 0..MaxAsked /\ replies \subseteq 1..MaxRevision /\ faults \in 0..MaxFaults

\* At most one socket of the browser is not on its way out, it is the one the
\* subscription holds, and it is a socket of the room on the screen.
OneSocket == \A s \in Slots : sock[s].st \notin {"none", "closing"} => s = socket /\ sock[s].room = path

\* The connection is called good only over an open socket, and given up only
\* when nothing is left that would try again by itself.
StatusIsTrue == path # Home =>
  /\ connection = "connected" => socket # 0 /\ Open(socket)
  /\ connection = "offline" => socket = 0 /\ ~timer

\* When nothing has been lost and nothing is on its way, a registered screen
\* shows the newest state: no change slips in between the snapshot that was
\* fetched and the registration that announces changes.
QuietIsFresh ==
  (/\ faults = 0 /\ path # Home /\ socket # 0 /\ sock[socket].st = "registered" /\ ~sock[socket].notice
   /\ asked = 0 /\ pulls = 0 /\ replies = {} /\ command = Nothing)
    => shown = [room |-> path, revision |-> revision[path]]

\* A screen never goes back to a lower revision of a room (docs/API.ko.md:55).
NeverBack == shown.room # Home /\ shown.room = path => shown.revision >= seen[shown.room]

\* A screen that is looked at and does not show the newest state of its room:
\* not for ever, even when its socket is dead or refused and replies of another
\* room arrive.
Behind == visible /\ path # Home /\ shown # [room |-> path, revision |-> revision[path]]
=============================================================================
