----------------------------- MODULE PgRepository -----------------------------
(* PostgresRepository: one room in its tables, and the requests of its people *)
(* as transactions.  A transaction reads before it holds the lock of the room *)
(* row, waits for the lock, and then does the rest of its work alone, so the  *)
(* steps here are the lock of the command, the reads before the row lock, the *)
(* row lock, the work with the commit, and the reply.  What the engine does   *)
(* to a room is cut down to what the tables say of it.                        *)
EXTENDS Naturals, Sequences, SequencesExt, FiniteSets

CONSTANTS Calls,      \* requests; one resent with the same id is a call of its own
          KindOf,
          IdOf,       \* commandId
          ActorOf,    \* the auth uid, which is the player id
          Crew, Host, \* the members the room starts with, all seated
          Capacity,   \* seats
          MinCrew,    \* the crew a mission needs (three)
          MaxFaults,  \* bound on connections lost
          None

Commands == {"start", "play", "again", "bench", "ready"}
Kinds    == Commands \cup {"join", "invite", "leave", "snapshot", "create"}
Enveloped == {c \in Calls : KindOf[c] \in Commands}
Receipted == {c \in Calls : KindOf[c] \in Commands \cup {"join", "invite", "create"}}

People   == Crew \cup Range(ActorOf)
\* A row of crew_rooms, and what a request says of the state its sender saw.
RoomRow  == [host : People, rev : Nat, attempt : Nat, invite : Nat]
Envelope == [rev : Nat, attempt : Nat, invite : Nat]

RepositoryAssumption ==
  /\ KindOf \in [Calls -> Kinds] /\ DOMAIN IdOf = Calls /\ DOMAIN ActorOf = Calls
  /\ IsFiniteSet(Calls) /\ IsFiniteSet(Crew) /\ Host \in Crew
  /\ Capacity \in Nat /\ MinCrew \in Nat /\ MaxFaults \in Nat
  /\ None \notin RoomRow /\ None \notin Envelope

VARIABLES room,      \* the row of crew_rooms: host, rev, attempt, invite; or None
          members,   \* crew_room_members
          state,     \* crew_game_states: the engine's state
          attempts,  \* crew_mission_attempts: the rows with their status
          receipts,  \* crew_command_receipts: keys with the request they belong to
          log,       \* crew_events, by revision: the calls that took effect
          made,      \* rooms made by each key of a create
          at,        \* how far each call has come, or its answer
          exp,       \* what the sender of each key had seen: revision, attempt, invite
          known,     \* the invite in force when a call was sent
          faults

vars == <<room, members, state, attempts, receipts, log, made, at, exp, known, faults>>
tables == <<room, members, state, attempts, receipts, log, made>>

Key(c) == <<ActorOf[c], IdOf[c]>>
Keys == {Key(c) : c \in Calls}
Refusals == {"conflict", "stale", "attempt", "denied", "refused", "gone", "internal"}
Answers  == {"ok", "lost"} \cup Refusals
Underway == {"sent", "held", "checked", "row", "committed"}

Open == room # None
Everyone(s) == s.crew \cup s.bench
\* The transactions that hold the advisory lock of a key, and the row lock.
Holds(c) == KindOf[c] # "leave" /\ at[c] \in {"held", "checked", "row"}
RowHeld == \E c \in Calls : at[c] = "row"

Answer(c, a) == at' = [at EXCEPT ![c] = a]
-----------------------------------------------------------------------------
Init ==
  /\ room = [host |-> Host, rev |-> 0, attempt |-> 0, invite |-> 0]
  /\ members = Crew
  /\ state = [rev |-> 0, attempt |-> 0, phase |-> "lobby", host |-> Host, crew |-> Crew, bench |-> {}]
  /\ attempts = {} /\ receipts = {} /\ log = <<>>
  /\ made = [k \in Keys |-> 0]
  /\ at = [c \in Calls |-> "new"] /\ exp = [k \in Keys |-> None] /\ known = [c \in Calls |-> 0]
  /\ faults = 0

\* A request is sent; its sender has seen this state and holds this invite, and
\* a resent request is the same request.
Send(c) ==
  /\ at[c] = "new"
  /\ Answer(c, "sent")
  /\ IF Open /\ exp[Key(c)] = None
     THEN \E i \in 0..room.invite :
            exp' = [exp EXCEPT ![Key(c)] = [rev |-> state.rev, attempt |-> state.attempt, invite |-> i]]
     ELSE exp' = [exp EXCEPT ![Key(c)] = IF @ = None THEN [rev |-> 0, attempt |-> 0, invite |-> 0] ELSE @]
  /\ known' = [known EXCEPT ![c] = IF Open THEN room.invite ELSE 0]
  /\ UNCHANGED <<tables, faults>>

\* pg_advisory_xact_lock on the actor and the command id.
LockCommand(c) ==
  /\ at[c] = "sent" /\ KindOf[c] \notin {"leave", "snapshot"}
  /\ ~\E d \in Calls \ {c} : Key(d) = Key(c) /\ Holds(d)
  /\ Answer(c, "held")
  /\ UNCHANGED <<tables, exp, known, faults>>

Receipt(c) == {r \in receipts : r.key = Key(c)}
\* A receipt answers the call that repeats it; the body of another is refused.
FromReceipt(c) == IF \E r \in Receipt(c) : r.kind = KindOf[c] THEN "committed" ELSE "conflict"

InviteGood(c) == Open /\ exp[Key(c)].invite = room.invite

\* join: the invite, then the receipt, before the room is locked.
LookUpInvite(c) ==
  /\ at[c] = "held" /\ KindOf[c] = "join"
  /\ Answer(c, IF ~InviteGood(c) THEN "gone" ELSE IF Receipt(c) # {} THEN FromReceipt(c) ELSE "checked")
  /\ UNCHANGED <<tables, exp, known, faults>>

\* create: the receipt; there is no row to lock.
LookUpCreate(c) ==
  /\ at[c] = "held" /\ KindOf[c] = "create"
  /\ Answer(c, IF Receipt(c) # {} THEN FromReceipt(c) ELSE "checked")
  /\ UNCHANGED <<tables, exp, known, faults>>

\* command: requireRoom and requireMember, before the room is locked.
CheckMember(c) ==
  /\ at[c] = "held" /\ c \in Enveloped
  /\ Answer(c, IF ~Open THEN "gone" ELSE IF ActorOf[c] \notin members THEN "denied" ELSE "checked")
  /\ UNCHANGED <<tables, exp, known, faults>>

\* select ... for update waits for the row.  invite and leave see that it is
\* gone; join and command do not look, and go on.
LockRow(c) ==
  /\ \/ at[c] = "checked" /\ KindOf[c] # "create"
     \/ at[c] = "held" /\ KindOf[c] = "invite"
     \/ at[c] = "sent" /\ KindOf[c] = "leave"
  /\ ~RowHeld
  /\ Answer(c, IF ~Open /\ KindOf[c] \in {"invite", "leave"} THEN "gone" ELSE "row")
  /\ UNCHANGED <<tables, exp, known, faults>>
-----------------------------------------------------------------------------
(* The engine, as far as the tables can tell.                                *)
Fresh == Cardinality(attempts) + 1
HostsAfter(gone, crew, bench) ==
  IF state.host # gone THEN {state.host}
  ELSE IF crew # {} THEN crew ELSE IF bench # {} THEN bench ELSE {gone}
Lobby(s) == [s EXCEPT !.phase = "lobby", !.attempt = 0]
Begun(s) == [s EXCEPT !.phase = "underway", !.attempt = Fresh]

\* What applyCommand asks of the actor and of the phase.
Permits(c) ==
  /\ ActorOf[c] \in state.crew
  /\ CASE KindOf[c] = "start" -> state.phase = "lobby" /\ ActorOf[c] = state.host /\ Cardinality(state.crew) >= MinCrew
       [] KindOf[c] = "play"  -> state.phase = "underway"
       [] KindOf[c] = "again" -> state.phase # "lobby" /\ (state.phase # "underway" => ActorOf[c] = state.host)
       [] KindOf[c] \in {"bench", "ready"} -> state.phase = "lobby"

\* applyCommand: the states it may return, or none when it throws.  A mission
\* is played on or decided; again stands for a vote to restart, a retry and the
\* next mission.
Applied(c) ==
  IF ~Permits(c) THEN {}
  ELSE LET s == [state EXCEPT !.rev = @ + 1] IN
    CASE KindOf[c] \in {"start", "again"} -> {Begun(s)}
      [] KindOf[c] = "play"  -> {[s EXCEPT !.phase = p] : p \in {"underway", "success", "failure"}}
      [] KindOf[c] = "ready" -> {s}
      [] KindOf[c] = "bench" ->
           LET crew == s.crew \ {ActorOf[c]}  bench == s.bench \cup {ActorOf[c]} IN
           {[s EXCEPT !.crew = crew, !.bench = bench, !.host = h]
              : h \in HostsAfter(ActorOf[c], crew, bench \ {ActorOf[c]})}

\* removePlayer: below the crew a mission needs, the room is a lobby again.
Left(a) ==
  LET s == [state EXCEPT !.rev = @ + 1]
      crew == s.crew \ {a}
      bench == s.bench \ {a}
  IN {LET t == [s EXCEPT !.crew = crew, !.bench = bench, !.host = h] IN
        IF a \in s.bench \/ s.phase = "lobby" THEN t
        ELSE IF Cardinality(crew) >= MinCrew THEN Begun(t) ELSE Lobby(t)
      : h \in HostsAfter(a, crew, bench)}

\* The state after a stranger joined: a seat in the lobby, the bench otherwise
\* (waiting or watching).
Seated(a) ==
  IF state.phase = "lobby" /\ Cardinality(state.crew) < Capacity
  THEN [state EXCEPT !.rev = @ + 1, !.crew = @ \cup {a}]
  ELSE [state EXCEPT !.rev = @ + 1, !.bench = @ \cup {a}]

Row(id, status) == [id |-> id, status |-> status]

\* syncMissionAttempt: the attempt rows after the state went from s to t.
Synced(s, t) ==
  LET closed == IF s.attempt # 0 /\ Row(s.attempt, "active") \in attempts
                THEN (attempts \ {Row(s.attempt, "active")}) \cup {Row(s.attempt, "abandoned")}
                ELSE attempts
      begun  == IF t.attempt # 0 /\ t.attempt # s.attempt THEN closed \cup {Row(t.attempt, "active")} ELSE attempts
  IN IF t.attempt # 0 /\ t.phase \in {"success", "failure"} /\ t.phase # s.phase
     THEN {IF r.id = t.attempt THEN Row(r.id, t.phase) ELSE r : r \in begun}
     ELSE begun
\* The unique index crew_one_active_attempt_per_room.
IndexHolds(rows) == Cardinality({r \in rows : r.status = "active"}) <= 1
-----------------------------------------------------------------------------
\* Mutant: nothing is kept of a ready.
Remember_NotReady(c) ==
  receipts' = IF KindOf[c] = "ready" THEN receipts ELSE receipts \cup {[key |-> Key(c), kind |-> KindOf[c]]}

Remember(c) == receipts' = receipts \cup {[key |-> Key(c), kind |-> KindOf[c]]}

\* The header written beside the state; only leave writes the host.
Header(t, host) == [room EXCEPT !.rev = t.rev, !.attempt = t.attempt, !.host = host]

\* The state, its header, the attempts and the event are written together, or
\* the index refuses and everything is rolled back.
Write(c, t, host) ==
  IF IndexHolds(Synced(state, t))
  THEN /\ state' = t /\ room' = Header(t, host)
       /\ attempts' = Synced(state, t)
       /\ log' = Append(log, c)
       /\ IF KindOf[c] = "leave" THEN UNCHANGED receipts ELSE Remember(c)
       /\ Answer(c, "committed")
  ELSE Answer(c, "internal") /\ UNCHANGED <<state, room, attempts, log, receipts>>

Unchanged == UNCHANGED <<room, members, state, attempts, receipts, log>>

\* Mutant: the revision is looked at before the receipt.
CommandAnswer_RevisionFirst(c) ==
  IF KindOf[c] # "ready" /\ exp[Key(c)].rev # state.rev THEN "stale"
  ELSE IF Receipt(c) # {} THEN FromReceipt(c)
  ELSE IF exp[Key(c)].attempt # state.attempt THEN "attempt" ELSE "go"

\* The tests of command() under the row lock, in the order of the code.
CommandAnswer(c) ==
  IF Receipt(c) # {} THEN FromReceipt(c)
  ELSE IF KindOf[c] # "ready" /\ exp[Key(c)].rev # state.rev THEN "stale"
  ELSE IF exp[Key(c)].attempt # state.attempt THEN "attempt" ELSE "go"

\* With the row gone there is no state to read: a TypeError, and a rollback.
NoState(c) ==
  /\ at[c] = "row" /\ ~Open /\ KindOf[c] \notin {"invite", "leave"}
  /\ Answer(c, "internal") /\ Unchanged
  /\ UNCHANGED <<made, exp, known, faults>>

Command(c) ==
  /\ at[c] = "row" /\ Open /\ c \in Enveloped
  /\ IF CommandAnswer(c) # "go" THEN Answer(c, CommandAnswer(c)) /\ Unchanged
     ELSE IF Applied(c) = {} THEN Answer(c, "refused") /\ Unchanged
     ELSE /\ \E t \in Applied(c) : Write(c, t, room.host)
          /\ UNCHANGED members
  /\ UNCHANGED <<made, exp, known, faults>>

\* A member is only shown the room, a stranger is seated.
Join(c) ==
  /\ at[c] = "row" /\ Open /\ KindOf[c] = "join"
  /\ IF ActorOf[c] \in Everyone(state)
     THEN Remember(c) /\ Answer(c, "committed") /\ UNCHANGED <<room, members, state, attempts, log>>
     ELSE /\ Write(c, Seated(ActorOf[c]), room.host)
          /\ members' = members \cup {ActorOf[c]}
  /\ UNCHANGED <<made, exp, known, faults>>

\* Only the host of the row may have a new invite; the old one is void.
Invite(c) ==
  /\ at[c] = "row" /\ Open /\ KindOf[c] = "invite"
  /\ IF room.host # ActorOf[c] THEN Answer(c, "denied") /\ Unchanged
     ELSE IF Receipt(c) # {} THEN Answer(c, FromReceipt(c)) /\ Unchanged
     ELSE /\ room' = [room EXCEPT !.invite = @ + 1]
          /\ Remember(c) /\ Answer(c, "committed")
          /\ UNCHANGED <<members, state, attempts, log>>
  /\ UNCHANGED <<made, exp, known, faults>>

\* The row goes, and by cascade everything that hangs on it.
DeleteRoom ==
  /\ room' = None /\ members' = {} /\ attempts' = {} /\ log' = <<>>
  /\ state' = [state EXCEPT !.crew = {}, !.bench = {}]
  /\ receipts' = {r \in receipts : r.kind = "create"}

Leave(c) ==
  /\ at[c] = "row" /\ Open /\ KindOf[c] = "leave"
  /\ IF ActorOf[c] \notin members THEN Answer(c, "denied") /\ Unchanged
     ELSE IF Cardinality(members) <= 1 THEN DeleteRoom /\ Answer(c, "committed")
     ELSE \E t \in Left(ActorOf[c]) :
            /\ Write(c, t, t.host)
            /\ members' = IF IndexHolds(Synced(state, t)) THEN members \ {ActorOf[c]} ELSE members
  /\ UNCHANGED <<made, exp, known, faults>>

\* create of another room: its rows and its receipt, whose key must be new.
Create(c) ==
  /\ at[c] = "checked" /\ KindOf[c] = "create"
  /\ IF Receipt(c) # {} THEN Answer(c, "internal") /\ UNCHANGED <<made, receipts>>
     ELSE made' = [made EXCEPT ![Key(c)] = @ + 1] /\ Remember(c) /\ Answer(c, "committed")
  /\ UNCHANGED <<room, members, state, attempts, log, exp, known, faults>>

\* snapshot: one statement, no lock.
Snapshot(c) ==
  /\ at[c] = "sent" /\ KindOf[c] = "snapshot"
  /\ Answer(c, IF ~Open THEN "gone" ELSE IF ActorOf[c] \notin members THEN "denied" ELSE "ok")
  /\ UNCHANGED <<tables, exp, known, faults>>

Reply(c) ==
  /\ at[c] = "committed" /\ Answer(c, "ok")
  /\ UNCHANGED <<tables, exp, known, faults>>

\* The connection breaks: before the commit everything is rolled back, after it
\* only the answer is lost.
Lose(c) ==
  /\ at[c] \in Underway /\ faults < MaxFaults
  /\ Answer(c, "lost") /\ faults' = faults + 1
  /\ UNCHANGED <<tables, exp, known>>

Serve(c) ==
  \/ LockCommand(c) \/ LookUpInvite(c) \/ LookUpCreate(c) \/ CheckMember(c) \/ LockRow(c)
  \/ NoState(c) \/ Command(c) \/ Join(c) \/ Invite(c) \/ Leave(c) \/ Create(c) \/ Snapshot(c) \/ Reply(c)
Next == \E c \in Calls : Send(c) \/ Serve(c) \/ Lose(c)
Spec == Init /\ [][Next]_vars
-----------------------------------------------------------------------------
TypeOK ==
  /\ room = None \/ (room.rev \in Nat /\ room.invite \in Nat /\ room.attempt \in Nat)
  /\ \A r \in attempts : r.status \in {"active", "abandoned", "success", "failure"}
  /\ at \in [Calls -> {"new"} \cup Underway \cup Answers]
  /\ Range(log) \subseteq Calls /\ faults \in 0..MaxFaults
  /\ state.crew \cap state.bench = {}

\* "Normalised headers and the revision are synchronised in the same
\* transaction" (docs/API.ko.md:101): the rows beside the state say what the state
\* says, and there is an event for every revision.  The code does not keep this
\* for the host: command and join leave host_user_id as it is, so once the host has
\* stepped back to the bench it names the one before, and invite asks for that
\* one.  It names at least somebody of the room, who can have a new invite.
TablesAgree ==
  Open =>
    /\ room.rev = state.rev /\ room.attempt = state.attempt
    /\ members = Everyone(state) /\ room.host \in members
    /\ Len(log) = state.rev

\* The attempt row of the mission underway says how it stands, through restarts
\* and departures.
AttemptAgrees ==
  Open /\ state.attempt # 0 =>
    Row(state.attempt, IF state.phase = "underway" THEN "active" ELSE state.phase) \in attempts

\* Who is a member after the first n of these calls took effect: somebody of the crew who
\* has not left, or who joined and has not left since.
LeavesBetween(calls, a, i, n) == \E j \in i + 1 .. n : KindOf[calls[j]] = "leave" /\ ActorOf[calls[j]] = a
MemberAfter(calls, a, n) ==
  \/ a \in Crew /\ ~LeavesBetween(calls, a, 0, n)
  \/ \E i \in 1 .. n : /\ KindOf[calls[i]] = "join" /\ ActorOf[calls[i]] = a
                       /\ ~LeavesBetween(calls, a, i, n)

\* Nobody acts in a room he has left, though his membership was looked up before
\* the row was locked.
OnlyMembersAct ==
  \A i \in DOMAIN log : KindOf[log[i]] # "join" => MemberAfter(log, ActorOf[log[i]], i - 1)

\* A command takes effect on the state its sender saw; ready in its attempt.
AppliedWhereSeen ==
  \A i \in DOMAIN log : KindOf[log[i]] \in Commands \ {"ready"} => exp[Key(log[i])].rev = i - 1

\* An invite that was void when the request was sent admits nobody.
VoidInviteStaysOut ==
  \A c \in Range(log) : KindOf[c] = "join" => exp[Key(c)].invite >= known[c]

\* A command answered with a failure has had no effect.  Nor has any send of it,
\* earlier or later: the receipt comes before the revision, and who comes late
\* stays late.  Two refusals say less: that of somebody who is no member, which
\* comes before the receipt, and that of a ready, which the revision does not
\* bind and which may be sent again in time.
FailureHasNoEffect ==
  Open =>
    \A c \in Enveloped : at[c] \in Refusals =>
      /\ c \notin Range(log)
      /\ at[c] # "denied" /\ (KindOf[c] = "ready" => at[c] = "conflict") =>
           ~\E d \in Range(log) : Key(d) = Key(c) /\ KindOf[d] = KindOf[c]

\* lockCommand: a create that is sent twice makes one room, and neither fails on
\* the key of the receipt.
CreatesOneRoom ==
  /\ \A k \in Keys : made[k] <= 1
  /\ \A c \in Calls : KindOf[c] = "create" => at[c] # "internal"

\* The tables (postgres-repository.ts): they agree with the state they belong to
\* and with the mission underway; only members act, on the state they saw; a void
\* invite admits nobody; what was refused has had no effect; a resent create
\* makes one room.
PgSound ==
  /\ TypeOK /\ TablesAgree /\ AttemptAgrees /\ OnlyMembersAct /\ AppliedWhereSeen
  /\ VoidInviteStaysOut /\ FailureHasNoEffect /\ CreatesOneRoom

\* The repository keeps the promise of AtomicRoom, as RoomStore does: requests
\* take effect one after the other, at most once however often they are resent.
AtomicR == INSTANCE AtomicRoom WITH
  IdOf  <- [c \in Calls |-> Key(c)],
  Once  <- {c \in Receipted : KindOf[c] # "create"},
  open  <- Open,
  acked <- {c \in Calls : at[c] = "ok" /\ KindOf[c] \in Commands \cup {"leave"}}
PgKeepsPromise == AtomicR!Spec
=============================================================================
