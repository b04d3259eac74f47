------------------------------- MODULE HttpApi -------------------------------
(* What becomes of an HTTP request: the routes of the Node server (files and  *)
(* RoomStore, or the database), the handler it shares with the Edge Function, *)
(* the body read in pieces, the checks and their order, the effect, the reply *)
(* and what the client makes of it.  Sizes are in units of 32 KB.             *)
EXTENDS Naturals, Sequences, FiniteSets

CONSTANTS Requests,
          Shapes,        \* what may be requested, records
          Burst, MaxRefills,  \* the limiter of one address, and how often the bound lets it refill
          MaxSpectators, \* the most a snapshot may list
          NoRequest

ASSUME HttpAssumption ==
  /\ Burst \in Nat \ {0} /\ MaxRefills \in Nat
  /\ MaxSpectators \in Nat /\ NoRequest \notin Shapes /\ IsFiniteSet(Requests)
  /\ \A r \in Shapes :
       /\ r.mount \in {"site", "api", "crew"} /\ r.size \in 0..3
       /\ r.token \subseteq {"absent", "parts", "json", "alg", "sig", "exp", "role", "sub"}

VARIABLES front,    \* what is deployed: "files" and "node" (app.ts without and with a database), "edge"
          req,      \* what each request is, NoRequest before it is sent
          stage,    \* where it stands
          got,      \* the pieces of its body that have come
          answer,   \* the status answered, 0 before
          cache,    \* the Cache-Control of the answer
          wire,     \* the connection is up
          effect,   \* what the call has changed: none, file, db, socket
          seen,     \* the spectators in the snapshot it returns
          crowd,    \* the spectators of the room
          credit,   \* left to the address
          refills,
          draining  \* close() has begun

httpVars == <<front, req, stage, got, answer, cache, wire, effect, seen, crowd, credit, refills, draining>>
outcome == <<effect, seen, crowd>>
world == <<front, credit, refills, draining>>

NodeLimit == 2       \* MAX_BODY_BYTES, 64 KB
HandlerLimit == 1    \* jsonBody, 32 KB
RoomOps == {"room", "commands", "invite", "leave", "demo-crew"}
Reads == IF front = "files" THEN {"room", "invite"} ELSE {"room"}   \* asked with GET
RoomBound == MaxSpectators + 1                                     \* spectators a behaviour may have
-----------------------------------------------------------------------------
HttpInit ==
  /\ front \in {"files", "node", "edge"}
  /\ req = [c \in Requests |-> NoRequest] /\ stage = [c \in Requests |-> "idle"] /\ got = [c \in Requests |-> 0]
  /\ answer = [c \in Requests |-> 0] /\ cache = [c \in Requests |-> "none"] /\ wire = [c \in Requests |-> TRUE]
  /\ effect = [c \in Requests |-> "none"] /\ seen = [c \in Requests |-> 0] /\ crowd = 0
  /\ credit = Burst /\ refills = 0 /\ draining = FALSE

\* The checks of a handler in their order: the status of the first that is not met.
When(wrong, status) == IF wrong THEN status ELSE 0
First(checks) ==
  LET failed == {i \in DOMAIN checks : checks[i] # 0}
  IN IF failed = {} THEN 0 ELSE checks[CHOOSE i \in failed : \A j \in failed : i <= j]

Go(c, where) == stage' = [stage EXCEPT ![c] = where] /\ UNCHANGED <<req, got, answer, cache, wire>>
Finish(c, status, cached) ==
  /\ stage' = [stage EXCEPT ![c] = "answered"] /\ answer' = [answer EXCEPT ![c] = status]
  /\ cache' = [cache EXCEPT ![c] = cached] /\ UNCHANGED <<req, got, wire>>
SendJson(c, status) == Finish(c, status, "no-store")

Verb(r) == IF r.op \in Reads \cup {"capabilities"} THEN "GET" ELSE "POST"

\* The Node process routes first, the Edge Function has one handler.
Arrive(c) ==
  /\ req[c] = NoRequest
  /\ \E r \in Shapes : req' = [req EXCEPT ![c] = r]
  /\ stage' = [stage EXCEPT ![c] = IF front = "edge" THEN "inner" ELSE "route"]
  /\ UNCHANGED <<got, answer, cache, wire, outcome, world>>

IsEntry(r) == r.method = "POST" /\ r.op \in {"rooms", "join"}

\* The requests an address pays for: those of the application, and in
\* createCrewApi those of the routes its handler will take.
Limited(r) == IsEntry(r) /\ (r.mount = "api" \/ (r.mount = "crew" /\ front = "node"))

Asset(r) == IF r.op = "file" THEN "file" ELSE "index"      \* no extension: index.html

\* By the path that was asked for, then by the file.
CacheControl(r) ==
  CASE r.under = "assets" -> "year" [] r.under = "cards" -> "day"
    [] OTHER -> IF Asset(r) = "index" THEN "no-cache" ELSE "none"

\* handle: the health check, the limiter, the interface that is mounted, files.
Route(c) ==
  LET r == req[c] IN
  /\ stage[c] = "route" /\ r.method # "UPGRADE"
  /\ credit' = IF Limited(r) /\ credit > 0 THEN credit - 1 ELSE credit
  /\ UNCHANGED <<front, outcome, refills, draining>>
  /\ \/ /\ r.op = "healthz" /\ r.method = "GET" /\ SendJson(c, IF draining THEN 503 ELSE 200)
     \/ /\ Limited(r) /\ credit = 0 /\ SendJson(c, 429)
     \/ /\ ~(Limited(r) /\ credit = 0) /\ ~(r.op = "healthz" /\ r.method = "GET")
        /\ \/ r.mount = "crew" /\ front = "node" /\ Go(c, IF r.method \in {"GET", "HEAD"} THEN "inner" ELSE "body")
           \/ r.mount = "api" /\ front = "node" /\ SendJson(c, 404)
           \/ r.mount # "site" /\ front = "files" /\ Go(c, "api")
           \/ /\ r.mount = "site"
              /\ IF r.method \notin {"GET", "HEAD"} \/ r.op = "missing" THEN SendJson(c, 404)
                 ELSE Finish(c, 200, CacheControl(r))

\* handleApi, up to where a body is read or the store is called.
ApiRefusal(r) ==
  First(<< When(r.mount = "crew" \/ r.op \notin RoomOps \cup {"capabilities", "rooms", "join"}, 404),
    When(r.op \notin RoomOps /\ r.method # Verb(r), 404), When(r.op \in RoomOps /\ "absent" \in r.token, 401),
    When(r.op \in RoomOps /\ r.method # Verb(r), 404) >>)

Api(c) ==
  /\ stage[c] = "api" /\ UNCHANGED <<outcome, world>>
  /\ IF ApiRefusal(req[c]) # 0 THEN SendJson(c, ApiRefusal(req[c]))
     ELSE IF req[c].op = "capabilities" THEN SendJson(c, 200)
     ELSE Go(c, IF req[c].op \in {"rooms", "join", "commands"} THEN "body" ELSE "store")

\* readJsonBody and readBody: a declared length that is too large is refused at
\* once, a body that grows too large closes the connection.
Declared(c) ==
  /\ stage[c] = "body" /\ got[c] = 0 /\ req[c].declared /\ req[c].size > NodeLimit
  /\ SendJson(c, 413) /\ UNCHANGED <<outcome, world>>

Piece(c) ==
  /\ stage[c] = "body" /\ wire[c] /\ got[c] < req[c].size /\ ~(req[c].declared /\ req[c].size > NodeLimit)
  /\ got' = [got EXCEPT ![c] = @ + 1] /\ UNCHANGED <<req, outcome, world>>
  /\ IF got'[c] > NodeLimit
     THEN /\ stage' = [stage EXCEPT ![c] = "answered"] /\ answer' = [answer EXCEPT ![c] = 413]
          /\ wire' = [wire EXCEPT ![c] = FALSE] /\ cache' = [cache EXCEPT ![c] = "no-store"]
     ELSE UNCHANGED <<stage, answer, wire, cache>>

\* The body is whole: parsed and checked here, or handed on.
BodyEnds(c) ==
  /\ stage[c] = "body" /\ wire[c] /\ got[c] = req[c].size /\ UNCHANGED <<outcome, world>>
  /\ IF front = "files"
     THEN IF req[c].size = 0 \/ req[c].form # "ok" THEN SendJson(c, 400) ELSE Go(c, "store")
     ELSE Go(c, "inner")

\* Mutant: the error of an aborted request is not listened for.
Abort_Unheard(c) ==
  /\ stage[c] \in {"body", "inner", "store", "reply"} /\ wire[c]
  /\ wire' = [wire EXCEPT ![c] = FALSE] /\ UNCHANGED <<req, got, stage, answer, cache, outcome, world>>

\* The client goes away, or its time is over: a body it was sending fails.  (Up
\* to where the body is listened for, the code runs at one go.)
Abort(c) ==
  /\ stage[c] \in {"body", "inner", "store", "reply"} /\ wire[c]
  /\ wire' = [wire EXCEPT ![c] = FALSE]
  /\ stage' = [stage EXCEPT ![c] = IF @ = "body" THEN "answered" ELSE @]
  /\ answer' = [answer EXCEPT ![c] = IF stage[c] = "body" THEN 500 ELSE @]
  /\ UNCHANGED <<req, got, cache, outcome, world>>

Router(token) == token \cap {"absent", "parts", "alg", "sig", "exp", "role", "sub"} = {}
DecodeJwtSub(token) == token \cap {"json", "sub"} = {}

\* Three parts, JSON, HS256, the signature, the expiry, the role, a UUID.
VerifyJwt(token) == token \cap {"parts", "json", "alg", "sig", "exp", "role", "sub"} = {}

\* Node verifies; the platform verifies before an Edge Function runs, which decodes.
Authenticated(token) ==
  IF front = "edge" THEN Router(token) /\ DecodeJwtSub(token) ELSE VerifyJwt(token)

\* jsonBody and the schema of the request.
BodyRefusal(r) == First(<< When(r.type # "json", 415), When(r.size > HandlerLimit, 413),
                          When(r.size = 0 \/ r.form # "ok", 400) >>)

\* Mutant: the session is asked for only where no body is read.
Refusal_ReadsOnly(r) ==
  First(<< When(r.origin = "denied", 403), When(r.method = "OPTIONS", 204),
    When(r.op \notin RoomOps \cup {"capabilities", "rooms", "join"} \/ r.op = "demo-crew", 404),
    When(r.method # Verb(r), 405),
    When(r.op \notin {"capabilities", "room", "leave"}, BodyRefusal(r)),
    When(r.op \in {"capabilities", "room", "leave"} /\ ("absent" \in r.token \/ ~Authenticated(r.token)), 401) >>)

\* createHandler up to the call of the repository.
Refusal(r) ==
  First(<< When(r.origin = "denied", 403), When(r.method = "OPTIONS", 204),
    When("absent" \in r.token, 401), When(~Authenticated(r.token), 401),
    When(r.op \in {"capabilities", "rooms"} /\ r.method # Verb(r), 404),
    When(r.op = "badroom" \/ (r.op = "join" /\ r.method # Verb(r)), 400),
    When(r.op \notin RoomOps \cup {"capabilities", "rooms", "join"} \/ r.op = "demo-crew", 404),
    When(r.op \in RoomOps /\ r.method # Verb(r), 405),
    When(r.op \notin {"capabilities", "room", "leave"}, BodyRefusal(r)) >>)

Inner(c) ==
  /\ stage[c] = "inner" /\ UNCHANGED <<outcome, world>>
  /\ IF Refusal(req[c]) # 0 THEN SendJson(c, Refusal(req[c]))
     ELSE IF req[c].op = "capabilities" THEN SendJson(c, 200)
     ELSE Go(c, "store")

\* The call of the store or of the repository is refused (not a member, no such
\* invitation, a conflict) with an error that names its status;
Refuse(c) ==
  /\ stage[c] = "store" /\ SendJson(c, IF req[c].op \in RoomOps /\ ~req[c].member THEN 403 ELSE 409)
  /\ UNCHANGED <<outcome, world>>

\* fails, and the transaction or the write with it;
Fail(c) == stage[c] = "store" /\ SendJson(c, 500) /\ UNCHANGED <<outcome, world>>

\* or does its work.  The seats are taken, so who joins watches.
Store(c) ==
  LET r == req[c]
      more == IF r.op = "join" THEN 1 ELSE 0
  IN /\ stage[c] = "store" /\ (r.op \in RoomOps => r.member) /\ crowd + more <= RoomBound
     /\ effect' = [effect EXCEPT ![c] = IF r.op \in Reads THEN "none" ELSE IF front = "files" THEN "file" ELSE "db"]
     /\ crowd' = crowd + more
     /\ seen' = [seen EXCEPT ![c] = IF r.op \in {"invite", "leave", "rooms"} THEN 0 ELSE crowd']
     /\ Go(c, "reply") /\ UNCHANGED world

\* The handler parses its reply by the schema of the contract, in the try block
\* that answers 400 for whatever a schema rejects.
ReplyStatus(c) == IF front = "files" \/ seen[c] <= MaxSpectators THEN 200 ELSE 400

SendReply(c) == stage[c] = "reply" /\ SendJson(c, ReplyStatus(c)) /\ UNCHANGED <<outcome, world>>

\* The upgrade to a WebSocket, handed to handleConnection.
Upgrade(c) ==
  /\ stage[c] = "route" /\ req[c].method = "UPGRADE"
  /\ stage' = [stage EXCEPT ![c] = "answered"]
  /\ IF front = "files" /\ req[c].op = "ws"
     THEN effect' = [effect EXCEPT ![c] = "socket"] /\ UNCHANGED wire
     ELSE wire' = [wire EXCEPT ![c] = FALSE] /\ UNCHANGED effect
  /\ UNCHANGED <<req, got, answer, cache, seen, crowd, world>>

\* The limiter over time, and the beginning of a shutdown.
Recredit ==
  /\ credit < Burst /\ refills < MaxRefills /\ credit' = credit + 1 /\ refills' = refills + 1
  /\ UNCHANGED <<req, stage, got, answer, cache, wire, outcome, front, draining>>
BeginClose ==
  /\ ~draining /\ draining' = TRUE
  /\ UNCHANGED <<req, stage, got, answer, cache, wire, outcome, front, credit, refills>>

HandleRequest(c) ==
  \/ Route(c) \/ Api(c) \/ Declared(c) \/ BodyEnds(c) \/ Inner(c)
  \/ Refuse(c) \/ Fail(c) \/ Store(c) \/ SendReply(c) \/ Upgrade(c)
HttpNext ==
  \/ \E c \in Requests : Arrive(c) \/ HandleRequest(c) \/ Piece(c) \/ Abort(c)
  \/ Recredit \/ BeginClose
HttpSpec == HttpInit /\ [][HttpNext]_httpVars
-----------------------------------------------------------------------------
HttpTypeOK ==
  /\ front \in {"files", "node", "edge"}
  /\ req \in [Requests -> {NoRequest} \cup Shapes] /\ got \in [Requests -> 0..NodeLimit + 1]
  /\ stage \in [Requests -> {"idle", "route", "api", "body", "inner", "store", "reply", "answered"}]
  /\ answer \in [Requests -> {0, 200, 204, 400, 401, 403, 404, 405, 409, 413, 415, 429, 500, 503}]
  /\ cache \in [Requests -> {"none", "no-store", "no-cache", "day", "year"}] /\ wire \in [Requests -> BOOLEAN]
  /\ effect \in [Requests -> {"none", "file", "db", "socket"}] /\ seen \in [Requests -> 0..RoomBound]
  /\ crowd \in 0..RoomBound /\ credit \in 0..Burst /\ refills \in 0..MaxRefills /\ draining \in BOOLEAN

Entries == {c \in Requests : effect[c] # "none" /\ req[c].op \in {"rooms", "join"}}

\* Whatever the path it came by, what has an effect was sent with a session that
\* holds (or with the token of a member), from a front that is allowed, with a
\* body within the limit and the contract, and in the store of this front only.
Proven(c) ==
  LET r == req[c] IN
  /\ effect[c] \in {"file", "socket"} => front = "files"
  /\ effect[c] \in {"file", "db"} =>
       /\ r.method = "POST" /\ (r.op \in RoomOps => r.member)
       /\ r.op \in {"rooms", "join", "commands"} =>
            r.form = "ok" /\ r.size \in 1..(IF front = "files" THEN NodeLimit ELSE HandlerLimit)
  /\ effect[c] = "db" => r.origin # "denied" /\ r.token = {} /\ front # "files"
  /\ effect[c] = "file" /\ r.op \in RoomOps => "absent" \notin r.token
OnlyProven == \A c \in Requests : Proven(c)

\* No address creates and joins more often than its bucket gives (server/app.ts:31).
EveryEntryPaid == front # "edge" => Cardinality(Entries) <= Burst + refills - credit

\* What the client concludes: the status, 502 when the reply is outside the
\* contract, 0 when there is none.
Told(c) ==
  IF ~wire[c] THEN 0 ELSE IF answer[c] = 200 /\ seen[c] > MaxSpectators THEN 502 ELSE answer[c]

\* A request that is refused as wrong has changed nothing (docs/API.ko.md:122); of
\* the database it is not true, see ReplyStatus.
ErrorMeansNoEffect ==
  front = "files" => \A c \in Requests : Told(c) \in 400..499 => effect[c] = "none"

\* What the HTTP boundary keeps to, whichever front is deployed.
HttpSound == HttpTypeOK /\ OnlyProven /\ EveryEntryPaid /\ ErrorMeansNoEffect
=============================================================================
