------------------------------ MODULE RoomStore -------------------------------
(* One room of RoomStore as its requests meet it: the queue that serialises   *)
(* them, the record in the cache, the file on disk, and the moments between.  *)
(* A request is a process; each step ends at an await of the code.  What the  *)
(* engine does to the room is kept as the order of the requests that took     *)
(* effect; the revision of a room is the number of them.                      *)
EXTENDS Naturals, Sequences, SequencesExt, FiniteSets

CONSTANTS Calls,      \* requests; one resent with the same id is a call of its own
          KindOf,     \* "command", "ready", "restart", "join", "leave", "snapshot"
          IdOf,       \* the command id of the envelope
          ActorOf,    \* whose token, and with it whose body, the request carries
          Crew,       \* the members the room starts with
          MaxFaults,  \* bound on failed writes and on crashes of the process
          None

Kinds == {"command", "ready", "restart", "join", "leave", "snapshot"}
\* The kinds that run through command() and leave a receipt in the record.
Enveloped == {c \in Calls : KindOf[c] \in {"command", "ready", "restart"}}

Actors   == Crew \cup Range(ActorOf)
\* What is stored of a room, and what an envelope says of the state its sender saw.
Record   == [log : Seq(Calls), members : SUBSET Actors,
             receipts : SUBSET [id : Range(IdOf), actor : Range(ActorOf)]]
Envelope == [rev : Nat, attempt : Nat]

\* An id repeated by the same member is a resend, of the same kind.
StoreAssumption ==
  /\ KindOf \in [Calls -> Kinds] /\ DOMAIN IdOf = Calls /\ DOMAIN ActorOf = Calls
  /\ \A c, d \in Calls : IdOf[c] = IdOf[d] /\ ActorOf[c] = ActorOf[d] => KindOf[c] = KindOf[d]
  /\ Crew # {} /\ IsFiniteSet(Crew) /\ IsFiniteSet(Calls)
  /\ MaxFaults \in Nat
  /\ None \notin Record /\ None \notin Envelope

VARIABLES file,    \* the room's file, or None
          cache,   \* the record held in memory, or None
          queue,   \* the chain of promises: the calls waiting, the running one first
          at,      \* how far each call has come, or its answer
          draft,   \* the record each call is about to write
          exp,     \* the revision and attempt each envelope names
          told,    \* the newest revision that reached anyone
          floor,   \* what had reached anyone when the call was sent
          reply,   \* the revision of the snapshot each call was answered with
          faults   \* writes failed and crashes suffered so far

vars == <<file, cache, queue, at, draft, exp, told, floor, reply, faults>>

Underway == {"stat", "queued", "load", "write", "wrote", "remove", "removed"}
Refusals == {"conflict", "stale", "attempt", "denied", "refused", "gone", "error"}
Answers  == {"ok", "lost"} \cup Refusals

Revision(r) == Len(r.log)
AttemptAt(log, rev) == Cardinality({i \in DOMAIN log : i <= rev /\ KindOf[log[i]] = "restart"})
Attempt(r) == AttemptAt(r.log, Revision(r))
Sent(id) == exp[id] # None
\* The states a client may have in front of it, as an envelope names them.
Seen == IF file = None THEN {[rev |-> 0, attempt |-> 0]}
        ELSE {[rev |-> r, attempt |-> AttemptAt(file.log, r)] : r \in 0..told}

-----------------------------------------------------------------------------
Init ==
  /\ file = [log |-> <<>>, members |-> Crew, receipts |-> {}]
  /\ cache \in {file, None}
  /\ queue = <<>>
  /\ at = [c \in Calls |-> "new"]
  /\ draft = [c \in Calls |-> None]
  /\ exp = [i \in {IdOf[c] : c \in Calls} |-> None]
  /\ told = 0 /\ floor = [c \in Calls |-> 0] /\ reply = [c \in Calls |-> None]
  /\ faults = 0

\* A client sends a request.  The envelope names the state its sender saw, any
\* up to the newest one told; a resent envelope is the same envelope.  A room
\* that is cached is queued for at once, another is looked for on disk first.
Send(c) ==
  /\ at[c] = "new"
  /\ IF c \in Enveloped /\ ~Sent(IdOf[c])
     THEN \E seen \in Seen : exp' = [exp EXCEPT ![IdOf[c]] = seen]
     ELSE UNCHANGED exp
  /\ floor' = [floor EXCEPT ![c] = told]
  /\ \/ /\ cache # None
        /\ queue' = Append(queue, c) /\ at' = [at EXCEPT ![c] = "queued"]
     \/ /\ cache = None
        /\ at' = [at EXCEPT ![c] = "stat"] /\ UNCHANGED queue
  /\ UNCHANGED <<file, cache, draft, told, reply, faults>>

\* roomFileExists has answered.
Found(c) ==
  /\ at[c] = "stat"
  /\ \/ /\ file # None
        /\ queue' = Append(queue, c) /\ at' = [at EXCEPT ![c] = "queued"]
     \/ file = None /\ at' = [at EXCEPT ![c] = "gone"] /\ UNCHANGED queue
  /\ UNCHANGED <<file, cache, draft, exp, told, floor, reply, faults>>

\* Mutant: the requests of a room are not serialised.
AtHead_Any(c) == c \in Range(queue)

\* Only the first of the chain runs.
AtHead(c) == queue # <<>> /\ Head(queue) = c

\* Mutant: the chain goes on only when the call before it succeeded.
Settle_Stuck(c, answer) ==
  /\ queue' = IF answer = "ok" THEN Tail(queue) ELSE queue
  /\ at' = [at EXCEPT ![c] = answer]

\* The promise of the call that runs settles, one way or the other, and the next
\* runs; a call that is still looked for on disk is not in the chain.
Settle(c, answer) ==
  /\ queue' = IF at[c] = "stat" THEN queue ELSE Tail(queue)
  /\ at' = [at EXCEPT ![c] = answer]

\* The call is answered with the room at this record.
Tell(c, r) ==
  /\ told' = IF Revision(r) > told THEN Revision(r) ELSE told
  /\ reply' = [reply EXCEPT ![c] = Revision(r)]

\* resolveActor: the token belongs to nobody in the room.
Denied(c, r) == ActorOf[c] \notin r.members

\* The tests of command(), in the order of the code; "ok" is a receipt found.
CommandAnswer(c, r) ==
  LET mine == {t \in r.receipts : t.id = IdOf[c]} IN
  IF Denied(c, r) THEN "denied"
  ELSE IF mine # {} THEN IF \E t \in mine : t.actor = ActorOf[c] THEN "ok" ELSE "conflict"
  ELSE IF KindOf[c] # "ready" /\ exp[IdOf[c]].rev # Revision(r) THEN "stale"
  ELSE IF exp[IdOf[c]].attempt # Attempt(r) THEN "attempt"
  ELSE "go"

SnapshotAnswer(c, r) == IF Denied(c, r) THEN "denied" ELSE "ok"
LeaveAnswer(c, r) == IF Denied(c, r) THEN "denied" ELSE "go"

\* The answer a call gets without a write, or "go".
Answer(c, r) ==
  CASE c \in Enveloped         -> CommandAnswer(c, r)
    [] KindOf[c] = "join"      -> "go"
    [] KindOf[c] = "leave"     -> LeaveAnswer(c, r)
    [] KindOf[c] = "snapshot"  -> SnapshotAnswer(c, r)

\* Mutant: the receipt is not part of the record.
AfterCommand_NoReceipt(c, r) == [r EXCEPT !.log = Append(@, c)]

\* The record after the call: its effect, and its receipt or the token it gives
\* out or takes back.
AfterCommand(c, r) ==
  [r EXCEPT !.log = Append(@, c), !.receipts = @ \cup {[id |-> IdOf[c], actor |-> ActorOf[c]]}]
AfterJoin(c, r) == [r EXCEPT !.log = Append(@, c), !.members = @ \cup {ActorOf[c]}]
AfterLeave(c, r) == [r EXCEPT !.log = Append(@, c), !.members = @ \ {ActorOf[c]}]
After(c, r) ==
  CASE c \in Enveloped     -> AfterCommand(c, r)
    [] KindOf[c] = "join"  -> AfterJoin(c, r)
    [] KindOf[c] = "leave" -> AfterLeave(c, r)

\* The handler runs on the record it was given up to its first await: it
\* answers, or the engine refuses, or the write or the removal is under way.
Handle(c, r) ==
  \/ /\ Answer(c, r) # "go"
     /\ Settle(c, Answer(c, r))
     /\ IF Answer(c, r) = "ok" THEN Tell(c, r) ELSE UNCHANGED <<told, reply>>
     /\ UNCHANGED draft
  \/ /\ Answer(c, r) = "go" /\ KindOf[c] # "join"
     /\ KindOf[c] = "leave" => Cardinality(r.members) > 1
     /\ Settle(c, "refused") /\ UNCHANGED <<draft, told, reply>>
  \/ /\ Answer(c, r) = "go"
     /\ at' = [at EXCEPT ![c] = IF KindOf[c] = "leave" /\ Cardinality(r.members) <= 1
                                THEN "remove" ELSE "write"]
     /\ draft' = [draft EXCEPT ![c] = After(c, r)]
     /\ UNCHANGED <<queue, told, reply>>

\* loadRoom finds the record in the cache, or reads the file.
Run(c) ==
  /\ at[c] = "queued" /\ AtHead(c)
  /\ \/ cache # None /\ Handle(c, cache)
     \/ cache = None /\ at' = [at EXCEPT ![c] = "load"] /\ UNCHANGED <<queue, draft, told, reply>>
  /\ UNCHANGED <<file, cache, exp, floor, faults>>

Load(c) ==
  /\ at[c] = "load"
  /\ \/ /\ file = None
        /\ Settle(c, "gone") /\ UNCHANGED <<cache, draft, told, reply>>
     \/ /\ file # None
        /\ LET r == IF cache # None THEN cache ELSE file IN
             cache' = r /\ Handle(c, r)
  /\ UNCHANGED <<file, exp, floor, faults>>

\* The new file is renamed over the old one.
Write(c) ==
  /\ at[c] = "write"
  /\ file' = draft[c]
  /\ at' = [at EXCEPT ![c] = "wrote"]
  /\ UNCHANGED <<cache, queue, draft, exp, told, floor, reply, faults>>

\* The rest of persist and of the handler: cache, notification, answer.
Persisted(c) ==
  /\ at[c] = "wrote"
  /\ cache' = draft[c]
  /\ Tell(c, draft[c])
  /\ Settle(c, "ok")
  /\ draft' = [draft EXCEPT ![c] = None]
  /\ UNCHANGED <<file, exp, floor, faults>>

\* The last member leaves: the file goes first, then what is in memory.
RemoveFile(c) ==
  /\ at[c] = "remove"
  /\ file' = None
  /\ at' = [at EXCEPT ![c] = "removed"]
  /\ UNCHANGED <<cache, queue, draft, exp, told, floor, reply, faults>>

Removed(c) ==
  /\ at[c] = "removed"
  /\ cache' = None
  /\ Settle(c, "ok")
  /\ draft' = [draft EXCEPT ![c] = None]
  /\ UNCHANGED <<file, exp, told, floor, reply, faults>>

\* The disk refuses to stat, read, write or remove.
DiskFails(c) ==
  /\ faults < MaxFaults
  /\ at[c] \in {"stat", "load", "write", "remove"}
  /\ Settle(c, "error")
  /\ draft' = [draft EXCEPT ![c] = None]
  /\ faults' = faults + 1
  /\ UNCHANGED <<file, cache, exp, told, floor, reply>>

\* sweepIdleRooms drops an idle room from memory.
Evict ==
  /\ cache # None
  /\ cache' = None
  /\ UNCHANGED <<file, queue, at, draft, exp, told, floor, reply, faults>>

\* The process ends and is started again: the file is all that is left, and
\* whoever waited for an answer gets none.
Crash ==
  /\ faults < MaxFaults
  /\ cache' = None /\ queue' = <<>>
  /\ at' = [c \in Calls |-> IF at[c] \in Underway THEN "lost" ELSE at[c]]
  /\ draft' = [c \in Calls |-> None]
  /\ faults' = faults + 1
  /\ UNCHANGED <<file, exp, told, floor, reply>>

Serve(c) == Found(c) \/ Run(c) \/ Load(c) \/ Write(c) \/ Persisted(c) \/ RemoveFile(c) \/ Removed(c)
Next == Evict \/ Crash \/ \E c \in Calls : Send(c) \/ Serve(c) \/ DiskFails(c)

\* The event loop runs what is ready, and the disk answers.
Fairness == \A c \in Calls : WF_vars(Serve(c))
Spec == Init /\ [][Next]_vars /\ Fairness
-----------------------------------------------------------------------------
TypeOK ==
  /\ file = None \/ (Range(file.log) \subseteq Calls /\ file.members \subseteq Actors)
  /\ at \in [Calls -> {"new"} \cup Underway \cup Answers]
  /\ Range(queue) \subseteq Calls
  /\ told \in Nat /\ faults \in 0..MaxFaults

\* persist: "a failed write never leaves memory ahead of disk".  What is cached
\* is what is on disk, except behind a write or a removal just made.
MemoryNeverAhead ==
  cache # None /\ cache # file =>
    \E c \in Calls :
      \/ at[c] = "wrote" /\ file = draft[c]
      \/ at[c] = "removed" /\ file = None

\* Nothing anyone was shown is undone by a crash: every revision that reached
\* a client is on disk, or the room is gone.
ToldIsDurable == file # None => told <= Revision(file)

\* A snapshot is never older than what had reached anybody when it was asked
\* for, whatever was evicted, reloaded or restarted in between.
NoStaleReads == \A c \in Calls : at[c] = "ok" /\ reply[c] # None => reply[c] >= floor[c]

\* A command takes effect on the very state its sender saw; the two commands
\* that may come late take effect in the attempt their sender saw.
AppliedWhereSeen ==
  file # None => \A i \in DOMAIN file.log :
    LET c == file.log[i] IN
    /\ KindOf[c] \in {"command", "restart"} => exp[IdOf[c]].rev = i - 1
    /\ KindOf[c] = "ready" => exp[IdOf[c]].attempt = AttemptAt(file.log, i - 1)

\* A request answered with a failure has had no effect, so it may be sent again;
\* and one refused for its revision was not overtaken by an earlier send of
\* itself, which its sender would take for somebody else's move.
FailureHasNoEffect ==
  file # None =>
    \A c \in Calls : at[c] \in Refusals =>
      /\ c \notin Range(file.log)
      /\ at[c] = "stale" =>
           \A d \in Range(file.log) \cap Enveloped : ~(IdOf[d] = IdOf[c] /\ ActorOf[d] = ActorOf[c])

\* All of it together.
StoreSound ==
  /\ TypeOK /\ MemoryNeverAhead /\ ToldIsDurable /\ NoStaleReads
  /\ AppliedWhereSeen /\ FailureHasNoEffect

\* The store keeps the promise of AtomicRoom: no lost update, no effect twice
\* whatever is resent, and success is answered only for what is on disk.
Room == INSTANCE AtomicRoom WITH
  Once  <- Enveloped,
  log   <- IF file = None THEN <<>> ELSE file.log,
  open  <- file # None,
  acked <- {c \in Calls : at[c] = "ok" /\ KindOf[c] # "snapshot"}
StoreKeepsPromise == Room!Spec
=============================================================================
