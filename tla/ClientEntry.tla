----------------------------- MODULE ClientEntry -----------------------------
(* How one browser gets into rooms and out of them: App.enter, App.leaveRoom  *)
(* and the way back to a room, over the Node server, where every seat has a   *)
(* token of its own, or over Supabase, where an anonymous user is signed in   *)
(* once.  Requests and answers may be lost or late, and the page reloaded at  *)
(* any time.  Of the others only this matters: when nobody is left in a room,  *)
(* it is no more.                                                             *)
EXTENDS Naturals, FiniteSets

CONSTANTS Mode,     \* "server" or "supabase"
          Names,    \* nicknames, standing for all that is filled in
          MaxIds,   \* bound on the command ids that are drawn
          MaxUsers  \* bound on the anonymous users that are signed in

EntryAssumption ==
  /\ Mode \in {"server", "supabase"}
  /\ MaxIds \in Nat /\ MaxUsers \in Nat

Link == 0                  \* the room the invitation is to
Ids == 1..MaxIds
Rooms == {Link} \cup Ids   \* a room made here is known by the id of its creation
Seats == 1..(IF Mode = "server" THEN MaxIds ELSE MaxUsers)
NoSeat == 0
Nowhere == MaxIds + 1
Home == MaxIds + 2
Join == MaxIds + 3
Places == {Home, Join}
Callers == {"caps", "op"}

VARIABLES seats, receipts,       \* the server: the seats of this browser, and what was answered
          linked,                \* the invitation still leads to a room
          token, session, recent,\* what the browser keeps: tokens, the user, crew.recent
          page, form, pend,      \* the path, the form, and createPending
          shown, load,           \* the room on the screen, and the one being read
          op,                    \* the call of run() under way
          wire,                  \* requests that have not arrived
          caps, waiting,         \* the first call of the page, and who waits for a sign-in
          ids, users,            \* how many of each there are
          tried,                 \* ids sent for the form as it stands
          doubt                  \* seats a leave was asked of and no answer came

server == <<seats, receipts, linked>>
store == <<token, session, recent>>
vars == <<server, store, page, form, pend, shown, load, op, wire, caps, waiting, ids, users, tried, doubt>>

NoPend == [id |-> 0, kind |-> "none", name |-> "none"]
NoRequest == [id |-> 0, kind |-> "none", name |-> "none", room |-> Nowhere, who |-> NoSeat]
Idle == [pc |-> "idle", q |-> NoRequest, answer |-> "none", seat |-> NoSeat]
Who(r) == IF Mode = "server" THEN token[r] ELSE session

-----------------------------------------------------------------------------
Init ==
  /\ seats = [r \in Rooms |-> {}] /\ receipts = [i \in Ids |-> NoRequest] /\ linked = TRUE
  /\ token = [r \in Rooms |-> NoSeat] /\ session = 0 /\ recent = Nowhere
  /\ page \in Places /\ form \in Names /\ pend = NoPend
  /\ shown = Nowhere /\ load = Nowhere /\ op = Idle /\ wire = {}
  /\ caps = (IF Mode = "server" THEN "done" ELSE "ask")
  /\ waiting = [c \in Callers |-> "no"]
  /\ ids = 0 /\ users = 0 /\ tried = {} /\ doubt = {}

Type ==
  /\ page \in Places
  /\ form' \in Names \ {form}
  /\ UNCHANGED <<server, store, page, pend, shown, load, op, wire, caps, waiting, ids, users, tried, doubt>>

\* Node tells the seat by the Bearer token; Supabase asks for the session first.
Start(request) ==
  IF Mode = "server"
  THEN /\ op' = [Idle EXCEPT !.pc = "out", !.q = request]
       /\ wire' = wire \cup {request}
  ELSE op' = [Idle EXCEPT !.pc = "ask", !.q = request] /\ UNCHANGED wire

Asked == IF page = Home THEN "create" ELSE "join"
SameForm == pend.kind = Asked /\ pend.name = form

\* Mutant: an id outlives a change of the form.
PressId_Kept == IF pend # NoPend THEN pend.id ELSE ids + 1

PressId == IF SameForm THEN pend.id ELSE ids + 1

\* enter: the id is kept for as long as the form says the same.
Press ==
  /\ page \in Places /\ op.pc = "idle" /\ PressId \in Ids
  /\ pend' = [id |-> PressId, kind |-> Asked, name |-> form]
  /\ ids' = IF PressId > ids THEN PressId ELSE ids
  /\ tried' = (IF SameForm THEN tried ELSE {}) \cup {PressId}
  /\ Start([id |-> PressId, kind |-> Asked, name |-> form, who |-> NoSeat,
            room |-> IF Asked = "create" THEN PressId ELSE Link])
  /\ UNCHANGED <<server, store, page, form, shown, load, caps, waiting, users, doubt>>

-----------------------------------------------------------------------------
\* token(): the session, or the one sign-in all callers share.
Wants(c) == waiting[c] = "no" /\ (IF c = "op" THEN op.pc = "ask" ELSE caps = "ask")

\* Those who wait get the user; a request leaves with it.
Grant(who, callers) ==
  /\ caps' = IF "caps" \in callers THEN "done" ELSE caps
  /\ IF "op" \in callers
     THEN /\ op' = [op EXCEPT !.pc = "out", !.q.who = who]
          /\ wire' = wire \cup {[op.q EXCEPT !.who = who]}
     ELSE UNCHANGED <<op, wire>>
  /\ waiting' = [c \in Callers |-> IF c \in callers THEN "no" ELSE waiting[c]]

HasSession(c) ==
  /\ Wants(c) /\ session # 0
  /\ Grant(session, {c})
  /\ UNCHANGED <<server, store, page, form, pend, shown, load, ids, users, tried, doubt>>

SignIn(c) ==
  /\ Wants(c) /\ session = 0
  /\ waiting' = [waiting EXCEPT ![c] = IF \E d \in Callers : waiting[d] = "own" THEN "share" ELSE "own"]
  /\ UNCHANGED <<server, store, page, form, pend, shown, load, op, wire, caps, ids, users, tried, doubt>>

SignedIn(c) ==
  /\ waiting[c] = "own" /\ users < MaxUsers
  /\ users' = users + 1 /\ session' = users + 1
  /\ Grant(users + 1, {c} \cup {d \in Callers : waiting[d] = "share"})
  /\ UNCHANGED <<server, token, recent, page, form, pend, shown, load, ids, tried, doubt>>

\* The sign-in fails for everyone who waited for it.
SignInFails(c) ==
  /\ waiting[c] = "own"
  /\ waiting' = [d \in Callers |-> IF d = c \/ waiting[d] = "share" THEN "no" ELSE waiting[d]]
  /\ caps' = IF waiting["caps"] # "no" /\ waiting'["caps"] = "no" THEN "done" ELSE caps
  /\ op' = IF waiting["op"] # "no" /\ waiting'["op"] = "no" THEN Idle ELSE op
  /\ UNCHANGED <<server, store, page, form, pend, shown, load, wire, ids, users, tried, doubt>>

-----------------------------------------------------------------------------
\* The receipt of a request: Node keeps it by id, Postgres by user and id.
Receipt(q) ==
  IF receipts[q.id].id # 0 /\ (Mode = "server" \/ receipts[q.id].who = q.who)
  THEN receipts[q.id] ELSE NoRequest

\* The seat a request gets: a new one for every entry, or the user's own.
Seated(q) == IF Mode = "server" THEN q.id ELSE q.who

\* The room of the invitation is no more.  Postgres looks for it before the
\* receipt, Node after it.
NoRoom(q) == q.kind = "join" /\ ~linked /\ (Mode = "supabase" \/ Receipt(q).id = 0)

\* createRoom and joinRoom; the receipt holds what was asked, and by or for whom.
Enter(q) ==
  IF NoRoom(q) \/ Receipt(q).id # 0 THEN UNCHANGED server
  ELSE /\ seats' = [seats EXCEPT ![q.room] = @ \cup {Seated(q)}]
       /\ receipts' = [receipts EXCEPT ![q.id] = [q EXCEPT !.who = Seated(q)]]
       /\ UNCHANGED linked

\* The room goes with its last member; in Postgres its receipts go with it, Node
\* keeps those of entries in memory.
Delete(r) ==
  /\ linked' = (linked /\ r # Link)
  /\ receipts' = IF Mode = "server" THEN receipts
                 ELSE [i \in Ids |-> IF receipts[i].room = r THEN NoRequest ELSE receipts[i]]

\* The last of the others leaves a room this browser is not in.
Deserted(r) ==
  /\ seats[r] = {} /\ Delete(r)
  /\ UNCHANGED <<seats, store, page, form, pend, shown, load, op, wire, caps, waiting, ids, users, tried, doubt>>

\* leaveRoom; whether others stay in the room is not known here.
Depart(q) ==
  /\ seats' = [seats EXCEPT ![q.room] = @ \ {q.who}]
  /\ \/ UNCHANGED <<receipts, linked>>
     \/ seats[q.room] = {q.who} /\ Delete(q.room)

Answer(q) ==
  IF q.kind = "leave" THEN (IF q.who \in seats[q.room] THEN "ok" ELSE "refused")
  ELSE IF NoRoom(q) THEN "refused"
  ELSE IF Receipt(q).id # 0 /\ Receipt(q).name # q.name THEN "conflict" ELSE "ok"

\* A request arrives, given up or not.
Arrive(q) ==
  /\ q \in wire /\ wire' = wire \ {q}
  /\ IF q.kind = "leave" THEN Depart(q) ELSE Enter(q)
  /\ op' = IF op.pc = "out" /\ op.q = q
           THEN [op EXCEPT !.pc = "back", !.seat = IF q.kind = "leave" THEN NoSeat ELSE Seated(q),
                           !.answer = Answer(q)]
           ELSE op
  /\ UNCHANGED <<store, page, form, pend, shown, load, caps, waiting, ids, users, tried, doubt>>

Lose(q) ==
  /\ q \in wire /\ wire' = wire \ {q}
  /\ UNCHANGED <<server, store, page, form, pend, shown, load, op, caps, waiting, ids, users, tried, doubt>>

Doubted == IF op.q.kind = "leave" THEN doubt \cup {<<op.q.room, op.q.who>>} ELSE doubt

\* No answer: it was lost, or fifteen seconds have passed.
GiveUp ==
  /\ op.pc \in {"out", "back"}
  /\ op' = Idle /\ doubt' = Doubted
  /\ UNCHANGED <<server, store, page, form, pend, shown, load, wire, caps, waiting, ids, users, tried>>

\* The answer to enter: the token is saved, and the room is shown.
Entered ==
  /\ op.pc = "back" /\ op.q.kind # "leave" /\ op' = Idle
  /\ IF op.answer = "ok"
     THEN /\ token' = IF Mode = "server" THEN [token EXCEPT ![op.q.room] = op.seat] ELSE token
          /\ recent' = op.q.room /\ shown' = op.q.room /\ page' = op.q.room
          /\ load' = IF page = op.q.room THEN load ELSE Nowhere
          /\ pend' = NoPend /\ tried' = {}
     ELSE UNCHANGED <<token, recent, shown, page, load, pend, tried>>
  /\ UNCHANGED <<server, session, form, wire, caps, waiting, ids, users, doubt>>

-----------------------------------------------------------------------------
\* leaveRoom, which the arrow back and the button to leave both call.
Leave ==
  /\ page \in Rooms /\ shown = page /\ op.pc = "idle"
  /\ Who(page) # NoSeat
  /\ Start([NoRequest EXCEPT !.kind = "leave", !.room = page, !.who = Who(page)])
  /\ UNCHANGED <<server, store, page, form, pend, shown, load, caps, waiting, ids, users, tried, doubt>>

\* The answer to leave.
Left ==
  /\ op.pc = "back" /\ op.q.kind = "leave" /\ op' = Idle
  /\ IF op.answer = "ok"
     THEN /\ token' = [token EXCEPT ![op.q.room] = NoSeat]
          /\ page' = Home /\ shown' = Nowhere /\ load' = Nowhere
     ELSE UNCHANGED <<token, page, shown, load>>
  /\ UNCHANGED <<server, session, recent, form, pend, wire, caps, waiting, ids, users, tried, doubt>>

\* The logo, the resume button, the buttons of the browser.  What was being
\* read is dropped, and nothing of a room is shown outside rooms.
Go ==
  /\ page' \in ({Home, Join, recent} \ {page, Nowhere})
  /\ load' = Nowhere
  /\ shown' = IF page' \in Places THEN Nowhere ELSE shown
  /\ UNCHANGED <<server, store, form, pend, op, wire, caps, waiting, ids, users, tried, doubt>>

Read ==
  /\ page \in Rooms /\ load = Nowhere /\ load' = page
  /\ UNCHANGED <<server, store, page, form, pend, shown, op, wire, caps, waiting, ids, users, tried, doubt>>

\* The snapshot comes, or is refused to one who has no seat.
Loaded ==
  /\ load # Nowhere /\ load' = Nowhere
  /\ IF Who(load) # NoSeat /\ Who(load) \in seats[load]
     THEN shown' = load /\ recent' = load
     ELSE UNCHANGED <<shown, recent>>
  /\ UNCHANGED <<server, token, session, page, form, pend, op, wire, caps, waiting, ids, users, tried, doubt>>

\* The page is loaded anew, by the link to a room or as it stands.
Reload ==
  /\ page' \in {page, Join}
  /\ shown' = Nowhere /\ load' = Nowhere /\ pend' = NoPend /\ tried' = {}
  /\ op' = Idle /\ doubt' = Doubted
  /\ caps' = (IF Mode = "server" THEN "done" ELSE "ask") /\ waiting' = [c \in Callers |-> "no"]
  /\ UNCHANGED <<server, store, form, wire, ids, users>>

Next ==
  \/ Type \/ Press \/ Entered \/ GiveUp \/ Leave \/ Left \/ Go \/ Read \/ Loaded \/ Reload
  \/ \E c \in Callers : HasSession(c) \/ SignIn(c) \/ SignedIn(c) \/ SignInFails(c)
  \/ \E q \in wire : Arrive(q) \/ Lose(q)
  \/ \E r \in Rooms : Deserted(r)

Spec == Init /\ [][Next]_vars
\* Every fetch is given fifteen seconds.
Ends == Entered \/ Left \/ GiveUp
FairSpec == Spec /\ WF_vars(Ends)

-----------------------------------------------------------------------------
\* The type invariant.
TypeOK ==
  /\ seats \in [Rooms -> SUBSET Seats]
  /\ \A i \in Ids : receipts[i].id \in {0, i} /\ linked \in BOOLEAN
  /\ token \in [Rooms -> {NoSeat} \cup Seats] /\ session \in 0..users
  /\ {recent, shown, load} \subseteq Rooms \cup {Nowhere} /\ page \in Places \cup Rooms
  /\ op.pc \in {"idle", "ask", "out", "back"} /\ op.answer \in {"none", "ok", "refused", "conflict"}
  /\ tried \subseteq Ids /\ (pend.id # 0 <=> pend.id \in tried)

\* However often one form is sent, with answers lost and requests late, it
\* makes one room or takes one seat (createPending and the receipts).
RetryIsOneSeat == Cardinality({i \in tried : receipts[i].id # 0}) <= 1

\* The user is never told that an id was used for something else: an id goes
\* with the form it was drawn for.
NeverConflict == op.answer # "conflict"

\* A token that is kept works, unless a leave with it was never answered.
KeptTokenWorks == \A r \in Rooms : token[r] # NoSeat =>
  \/ token[r] \in seats[r] \/ <<r, token[r]>> \in doubt
  \/ op.q.kind = "leave" /\ op.q.room = r /\ op.q.who = token[r]

\* Every seat this browser was given is one it can still act for: a visit
\* after the first finds the seat of the first.
SeatIsReachable == \A r \in Rooms : seats[r] \subseteq {Who(r)}

\* A button that waits for its call: not for ever.
Waits == op.pc # "idle"
==============================================================================
