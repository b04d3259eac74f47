-------------------------------- MODULE MCEdge --------------------------------
(* HTTP and the database on small instances: the routes of the Node server and *)
(* of the Edge Function, the tables, the pool of connections, the removal of   *)
(* old rooms.  A behaviour runs one of them, part, whose variables are x1, x2,  *)
(* ...; those of the repository and of the requests have their own names.      *)
EXTENDS PgRepository, HttpApi, TLC

VARIABLES part, x1, x2, x3, x4, x5, x6, x7, x8

spare == <<x1, x2, x3, x4, x5, x6, x7, x8>>
all == <<part, spare, vars, httpVars>>
-----------------------------------------------------------------------------
(* Requests: an ordinary one of every route, and those that differ from it in  *)
(* one respect.                                                               *)
Of(mount, method, op) ==
  [mount |-> mount, method |-> method, op |-> op, under |-> "root", origin |-> "none", token |-> {}, member |-> TRUE,
   type |-> "json", size |-> IF method = "POST" THEN 1 ELSE 0, declared |-> TRUE, form |-> "ok"]
Every(mount) ==
  {Of(mount, m, op) : m \in {"GET", "POST"},
     op \in {"capabilities", "rooms", "join", "room", "commands", "invite", "leave", "demo-crew", "badroom", "unknown"}}

Bodies(r) == {[r EXCEPT !.size = s, !.declared = d] : s \in 0..3, d \in BOOLEAN}
             \cup {[r EXCEPT !.form = f] : f \in {"broken", "invalid"}} \cup {[r EXCEPT !.type = "other"]}
Sessions(r) == {[r EXCEPT !.token = {t}] : t \in {"absent", "parts", "json", "alg", "sig", "exp", "role", "sub"}}
               \cup {[r EXCEPT !.member = FALSE], [r EXCEPT !.token = {"exp", "role"}]}
Origins(r) == {[r EXCEPT !.origin = o] : o \in {"allowed", "denied"}} \cup {[r EXCEPT !.method = "OPTIONS"]}
Wrong(mount) ==
  UNION {Bodies(r) \cup Sessions(r) \cup Origins(r) : r \in {Of(mount, "POST", op) : op \in {"join", "commands"}}}
  \cup Sessions(Of(mount, "GET", "room")) \cup Sessions(Of(mount, "POST", "leave"))
Site == {[Of("site", m, op) EXCEPT !.under = u] :
           m \in {"GET", "HEAD", "POST"}, op \in {"healthz", "file", "page", "missing"}, u \in {"root", "assets", "cards"}}
Sockets == {Of("site", "UPGRADE", op) : op \in {"ws", "page"}}

CrewRequests == Every("crew") \cup Wrong("crew")
AllRequests  == Every("api") \cup Wrong("api") \cup CrewRequests \cup Site \cup Sockets
\* Those that meet at the room and at the limiter.
Meeting(mount) == {Of(mount, "POST", op) : op \in {"rooms", "join", "commands", "leave"}} \cup {Of(mount, "GET", "room")}
                  \cup {[Of(mount, "POST", "join") EXCEPT !.size = 3, !.declared = FALSE]}

\* Each request alone, by the three ways in; and two of one address.
Pair == {"c1", "c2"}
Alone == {"files", "node", "edge"}
Together == {"meet", "crew"}
FrontOf(p) == CASE p \in {"files", "meet"} -> "files" [] p \in {"node", "crew"} -> "node" [] OTHER -> "edge"
Senders(p) == IF p \in Alone THEN {"c1"} ELSE Pair
Sent(p) ==
  CASE p \in {"files", "node"} -> AllRequests
    [] p = "edge" -> CrewRequests
    [] p = "meet" -> Meeting("api")
    [] OTHER -> Meeting("crew") \cup {Of("api", "POST", "rooms")}
-----------------------------------------------------------------------------
(* Requests to a room of three in the database, by the story they belong to.   *)
Stories == {"ready", "try", "door", "cut", "twice", "last", "office"}
StoryCalls(p) ==
       \* somebody readies himself and a mission is started, each by a request
       \* sent twice, where a connection may be lost
  CASE p = "ready"  -> {"start1", "start2", "ready1", "ready2"}
       \* a mission is decided, begun again and loses a member of its crew
    [] p = "try"    -> {"start1", "play", "again", "leaveC"}
       \* somebody comes while the invite is replaced and a member leaves, ready or not
    [] p = "door"   -> {"join1", "inviteA", "leaveB", "ready1"}
       \* the same without the readiness, where a connection may be lost
    [] p = "cut"    -> {"join1", "inviteA", "leaveB"}
       \* a room is made, and another joined, by requests sent twice
    [] p = "twice"  -> {"create1", "create2", "join1", "join2", "look"}
       \* somebody comes while everybody who was there leaves
    [] p = "last"   -> {"join1", "leaveA", "leaveB", "leaveC"}
       \* the host steps back, and goes, while another asks for a new invite
    [] p = "office" -> {"benchA", "inviteB", "leaveA"}
    [] OTHER        -> {}
\* Where a connection may be lost.
Lossy == {"ready", "cut", "twice", "office"}

RoomCalls == UNION {StoryCalls(p) : p \in Stories}
RoomCrew  == {"ann", "ben", "cho"}
RoomKind ==
  [c \in RoomCalls |->
     CASE c \in {"start1", "start2"}           -> "start"
       [] c \in {"ready1", "ready2"}           -> "ready"
       [] c \in {"create1", "create2"}         -> "create"
       [] c \in {"join1", "join2"}             -> "join"
       [] c \in {"inviteA", "inviteB"}         -> "invite"
       [] c \in {"leaveA", "leaveB", "leaveC"} -> "leave"
       [] c = "benchA" -> "bench"
       [] c = "look"   -> "snapshot"
       [] OTHER        -> c]
\* What is sent twice has one id.
RoomId == [c \in RoomCalls |-> IF RoomKind[c] \in {"start", "ready", "create", "join"} THEN RoomKind[c] ELSE c]
RoomActor ==
  [c \in RoomCalls |->
     CASE c \in {"start1", "start2", "again", "benchA", "inviteA", "leaveA"} -> "ann"
       [] c \in {"join1", "join2", "look"} -> "dan"
       [] c = "leaveC" -> "cho"
       [] OTHER        -> "ben"]
-----------------------------------------------------------------------------
Three == {"c1", "c2", "c3"}
NodePool == INSTANCE PgPool WITH
  Calls <- Three, MaxPools <- 4, Node <- TRUE,
  sql <- x1, pool <- x2, lost <- x3, told <- x4, in <- x5, st <- x6, closed <- x7
EdgePool == INSTANCE PgPool WITH
  Calls <- Three, MaxPools <- 4, Node <- FALSE,
  sql <- x1, pool <- x2, lost <- x3, told <- x4, in <- x5, st <- x6, closed <- x7

Rooms == {"r1", "r2"}
RowPrune == INSTANCE RoomPrune WITH
  Rooms <- Rooms, Db <- TRUE, MaxWrites <- 2,
  stored <- x1, old <- x2, cached <- x3, acked <- x4, writing <- x5, todo <- x6, condemned <- x7, pruning <- x8
FilePrune == INSTANCE RoomPrune WITH
  Rooms <- Rooms, Db <- FALSE, MaxWrites <- 2,
  stored <- x1, old <- x2, cached <- x3, acked <- x4, writing <- x5, todo <- x6, condemned <- x7, pruning <- x8

ASSUME PartAssumptions ==
  /\ RepositoryAssumption
  /\ NodePool!PoolAssumption /\ EdgePool!PoolAssumption
  /\ RowPrune!PruneAssumption /\ FilePrune!PruneAssumption
-----------------------------------------------------------------------------
StoryDo(p, A) == part = p /\ A /\ UNCHANGED <<part, spare, httpVars>>
HttpDo(p, A)  == part = p /\ A /\ UNCHANGED <<part, spare, vars>>
PoolDo(p, A)  == part = p /\ A /\ UNCHANGED <<part, x8, vars, httpVars>>
PruneDo(p, A) == part = p /\ A /\ UNCHANGED <<part, vars, httpVars>>

PartInit ==
  \/ part \in Alone \cup Together \cup Stories
     /\ x1 = 0 /\ x2 = 0 /\ x3 = 0 /\ x4 = 0 /\ x5 = 0 /\ x6 = 0 /\ x7 = 0 /\ x8 = 0
  \/ part = "node_pool" /\ NodePool!Init /\ x8 = 0
  \/ part = "edge_pool" /\ EdgePool!Init /\ x8 = 0
  \/ part = "row_prune"  /\ RowPrune!Init
  \/ part = "file_prune" /\ FilePrune!Init

\* HttpNext, by those who send in this part, and what they send.
HttpStep(p) ==
  \/ \E c \in Senders(p) : (Arrive(c) /\ req'[c] \in Sent(p)) \/ HandleRequest(c) \/ Piece(c) \/ Abort(c)
  \/ Recredit \/ BeginClose

\* Next of the repository, by the calls of this story.
StoryStep(p) == \E c \in StoryCalls(p) : Send(c) \/ Serve(c) \/ (p \in Lossy /\ Lose(c))

EdgeInit == Init /\ PartInit /\ HttpInit /\ front = FrontOf(part)

EdgeNext ==
  \/ \E p \in Alone \cup Together : HttpDo(p, HttpStep(p))
  \/ \E p \in Stories : StoryDo(p, StoryStep(p))
  \/ PoolDo("node_pool", NodePool!Next) \/ PoolDo("edge_pool", EdgePool!Next)
  \/ PruneDo("row_prune", RowPrune!Next) \/ PruneDo("file_prune", FilePrune!Next)

\* The event loop runs what is ready, and a body that stalls is cut off in the
\* end; Postgres grants locks and transactions run on; the removal goes on, and
\* the disk answers.
EdgeFairness ==
  /\ \A c \in Pair :
       /\ WF_all(\E p \in Together : HttpDo(p, HandleRequest(c)))
       /\ WF_all(\E p \in Together : HttpDo(p, Piece(c) \/ (stage[c] = "body" /\ Abort(c))))
  /\ \A c \in StoryCalls("door") \cup StoryCalls("last") : WF_all(\E p \in {"door", "last"} : StoryDo(p, Serve(c)))
  /\ WF_all(PruneDo("file_prune", FilePrune!StartPrune)) /\ WF_all(PruneDo("file_prune", FilePrune!EndPrune))
  /\ \A r \in Rooms : /\ WF_all(PruneDo("file_prune", FilePrune!Look(r)))
                      /\ WF_all(PruneDo("file_prune", FilePrune!Remove(r)))
                      /\ WF_all(PruneDo("file_prune", FilePrune!Written(r)))

EdgeSpec == EdgeInit /\ [][EdgeNext]_all /\ EdgeFairness
-----------------------------------------------------------------------------
\* PgSound, PgKeepsPromise and HttpSound are those of the extended modules.

\* Connections and old rooms (crew-api.ts, db.ts; postgres-repository.ts): no pool
\* leaks and none is used after it was reported; a pool is dropped for a lost
\* connection and no more than one for each; no room goes in the database with a
\* change that was confirmed.
DatabaseSound ==
  [][/\ part = "node_pool" => /\ (NodePool!TypeOK /\ NodePool!NothingLeaks /\ NodePool!DropsAreCharged)'
                              /\ NodePool!NeverPoisoned
     /\ part = "edge_pool" => (EdgePool!TypeOK /\ EdgePool!DropsAreCharged)' /\ EdgePool!NeverPoisoned
     /\ part = "row_prune" => (RowPrune!TypeOK /\ RowPrune!OnlyStaleGoes)']_all

\* What is waited for: an answer or the end of the connection, a transaction to
\* end, an old room nobody uses to go.
Awaited ==
  CASE part \in Together -> \E c \in Pair : stage[c] \notin {"idle", "answered"}
    [] part \in {"door", "last"} -> \E c \in StoryCalls(part) : at[c] \in Underway
    [] part = "file_prune" -> FilePrune!StaleRoom
    [] OTHER -> FALSE

\* Every request is answered or cut, every transaction ends (locks are taken in
\* one order), and the removal comes to every room that is over the limit.
EdgeGoesOn == Awaited ~> ~Awaited
=============================================================================
