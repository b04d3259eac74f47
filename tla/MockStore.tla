------------------------------ MODULE MockStore ------------------------------
(* The local demo: the tabs of one browser share a room kept in localStorage, *)
(* one identity, and the locks of the browser where it has them.  A call      *)
(* reads the record, computes and writes it back; with the lock of the room   *)
(* held nobody comes between, without locks another tab may.                  *)
EXTENDS Naturals, Sequences, SequencesExt, FiniteSets

CONSTANTS Tabs, Actors,
          Calls,          \* the calls made, each by one tab, in any order
          TabOf, KindOf,  \* the tab and the kind of each
          IdOf,           \* the command id it carries
          Locks,          \* navigator.locks is there (a secure context)
          None

MockAssumption ==
  /\ TabOf \in [Calls -> Tabs]
  /\ KindOf \in [Calls -> {"create", "command", "fill", "demo", "join", "leave"}]
  /\ DOMAIN IdOf = Calls /\ Locks \in BOOLEAN /\ None \notin Actors \cup Calls
  /\ IsFiniteSet(Actors) /\ Cardinality(Actors) >= Cardinality(Tabs)

VARIABLES identity,  \* the stored one
          actor,     \* the one each tab acts as, None before it is loaded
          looked,    \* tabs that found no identity and are about to store theirs
          room,      \* the stored record, None when there is none
          receipt,   \* the creation is remembered
          created,   \* rooms created, a count
          holder,    \* who holds the lock of each key
          st,        \* each call: new, asked, read, saved, done, noop, failed
          base,      \* the record it has read
          known      \* the creation it has read

vars == <<identity, actor, looked, room, receipt, created, holder, st, base, known>>
people == <<identity, actor, looked>>

Keys == {"create", "room"}
KeyOf(c) == IF KindOf[c] = "create" THEN "create" ELSE "room"
Me(c) == actor[TabOf[c]]
NewRoom(a) == [log |-> <<>>, members |-> {a}, host |-> a, bots |-> FALSE]
Count(r) == Cardinality(r.members) + IF r.bots THEN 1 ELSE 0
Taken(r) == {IdOf[c] : c \in {d \in Range(r.log) : KindOf[d] = "command"}}   \* record.receipts
-----------------------------------------------------------------------------
Init ==
  /\ identity = None /\ actor = [t \in Tabs |-> None] /\ looked = {}
  /\ room = None /\ receipt = FALSE /\ created = 0 /\ holder = [k \in Keys |-> None]
  /\ st = [c \in Calls |-> "new"] /\ base = [c \in Calls |-> None] /\ known = [c \in Calls |-> FALSE]

\* The service is made: the stored identity is read, or one made up and stored.
Look(t) ==
  /\ actor[t] = None /\ t \notin looked
  /\ IF identity = None THEN looked' = looked \cup {t} /\ UNCHANGED actor
     ELSE actor' = [actor EXCEPT ![t] = identity] /\ UNCHANGED looked
  /\ UNCHANGED <<identity, room, receipt, created, holder, st, base, known>>

Store(t) ==
  /\ t \in looked /\ looked' = looked \ {t}
  /\ \E a \in Actors : (\A u \in Tabs : actor[u] # a) /\ identity' = a /\ actor' = [actor EXCEPT ![t] = a]
  /\ UNCHANGED <<room, receipt, created, holder, st, base, known>>

\* A call is made.  A join looks for the room of its link before it has a lock.
Ask(c) ==
  /\ st[c] = "new" /\ Me(c) # None
  /\ KindOf[c] # "create" => created > 0
  /\ st' = [st EXCEPT ![c] = IF KindOf[c] = "join" /\ room = None THEN "failed" ELSE "asked"]
  /\ base' = [base EXCEPT ![c] = IF KindOf[c] = "join" THEN room ELSE None]
  /\ UNCHANGED <<people, room, receipt, created, holder, known>>

\* The lock is granted, and the record read under it.
Read(c) ==
  /\ st[c] = "asked" /\ (Locks => holder[KeyOf(c)] = None)
  /\ holder' = [holder EXCEPT ![KeyOf(c)] = IF Locks THEN c ELSE None]
  /\ st' = [st EXCEPT ![c] = "read"]
  /\ base' = [base EXCEPT ![c] = room] /\ known' = [known EXCEPT ![c] = receipt]
  /\ UNCHANGED <<people, room, receipt, created>>

Release(c) == holder' = [holder EXCEPT ![KeyOf(c)] = IF @ = c THEN None ELSE @]
End(c, how) ==
  /\ st' = [st EXCEPT ![c] = how] /\ Release(c)
  /\ base' = [base EXCEPT ![c] = None] /\ known' = [known EXCEPT ![c] = FALSE]
  /\ UNCHANGED people
Nothing(c, how) == End(c, how) /\ UNCHANGED <<room, receipt, created>>
Save(c, record) == room' = [record EXCEPT !.log = Append(@, c)] /\ End(c, "saved") /\ UNCHANGED <<receipt, created>>

\* The same creation again finds its receipt, and the room if it is still there.
Create(c) ==
  /\ KindOf[c] = "create" /\ st[c] = "read"
  /\ IF known[c] THEN Nothing(c, IF base[c] = None THEN "failed" ELSE "done")
     ELSE room' = NewRoom(Me(c)) /\ receipt' = TRUE /\ created' = created + 1 /\ End(c, "done")

\* execute: the receipt, the revision, the engine (only a member may act).
Command(c) ==
  /\ KindOf[c] = "command" /\ st[c] = "read"
  /\ IF base[c] = None THEN Nothing(c, "failed")
     ELSE IF IdOf[c] \in Taken(base[c]) THEN Nothing(c, "saved")
     ELSE \E expectedRevision \in 0..Len(base[c].log) :
       IF expectedRevision # Len(base[c].log) \/ Me(c) \notin base[c].members
       THEN Nothing(c, "failed") ELSE Save(c, base[c])

\* A demo member acts, by the state that was read.
DemoStep(c) ==
  /\ KindOf[c] = "demo" /\ st[c] = "read"
  /\ IF base[c] = None THEN Nothing(c, "failed")
     ELSE IF base[c].bots THEN Save(c, base[c]) ELSE Nothing(c, "noop")

FillDemoCrew(c) ==
  /\ KindOf[c] = "fill" /\ st[c] = "read"
  /\ IF base[c] = None THEN Nothing(c, "failed")
     ELSE IF base[c].host # Me(c) THEN Nothing(c, "failed")
     ELSE Save(c, [base[c] EXCEPT !.bots = TRUE])

Join(c) ==
  /\ KindOf[c] = "join" /\ st[c] = "read"
  /\ IF base[c] = None THEN Nothing(c, "failed")
     ELSE IF Me(c) \in base[c].members THEN Nothing(c, "noop")
     ELSE Save(c, [base[c] EXCEPT !.members = @ \cup {Me(c)}])

\* The room goes with its last member, whoever asks; a host's place is taken.
Leave(c) ==
  /\ KindOf[c] = "leave" /\ st[c] = "read"
  /\ IF base[c] = None THEN Nothing(c, "failed")
     ELSE IF Count(base[c]) <= 1 THEN room' = None /\ End(c, "saved") /\ UNCHANGED <<receipt, created>>
     ELSE IF Me(c) \notin base[c].members THEN Nothing(c, "failed")
     ELSE LET rest == base[c].members \ {Me(c)} IN
       Save(c, [base[c] EXCEPT !.members = rest,
                               !.host = IF @ # Me(c) THEN @ ELSE IF rest = {} THEN None ELSE CHOOSE a \in rest : TRUE])

\* The promise resolves.
Answer(c) ==
  /\ st[c] = "saved" /\ st' = [st EXCEPT ![c] = "done"]
  /\ UNCHANGED <<people, room, receipt, created, holder, base, known>>

\* A tab is closed: its lock is given back, what it had not written is gone.
CloseTab(t) ==
  /\ actor[t] # None /\ actor' = [actor EXCEPT ![t] = None]
  /\ holder' = [k \in Keys |-> IF holder[k] # None /\ TabOf[holder[k]] = t THEN None ELSE holder[k]]
  /\ st' = [c \in Calls |-> IF TabOf[c] = t /\ st[c] \in {"asked", "read", "saved"} THEN "failed" ELSE st[c]]
  /\ base' = [c \in Calls |-> IF TabOf[c] = t THEN None ELSE base[c]]
  /\ known' = [c \in Calls |-> IF TabOf[c] = t THEN FALSE ELSE known[c]]
  /\ UNCHANGED <<identity, looked, room, receipt, created>>

Next ==
  \/ \E t \in Tabs : Look(t) \/ Store(t) \/ CloseTab(t)
  \/ \E c \in Calls :
       \/ Ask(c) \/ Read(c) \/ Create(c) \/ Command(c) \/ DemoStep(c) \/ FillDemoCrew(c) \/ Join(c) \/ Leave(c) \/ Answer(c)

Spec == Init /\ [][Next]_vars
-----------------------------------------------------------------------------
TypeOK ==
  /\ identity \in Actors \cup {None} /\ actor \in [Tabs -> Actors \cup {None}] /\ looked \subseteq Tabs
  /\ room # None => /\ Range(room.log) \subseteq Calls /\ room.members \subseteq Actors
                    /\ room.host \in room.members \cup {None} /\ room.bots \in BOOLEAN
  /\ holder \in [Keys -> Calls \cup {None}]
  /\ st \in [Calls -> {"new", "asked", "read", "saved", "done", "noop", "failed"}]

\* However often a creation is asked for, in however many tabs, it makes one room.
CreatesOnce == created <= 1

\* The demo keeps the promise the servers keep: no effect is lost or counted
\* twice although several tabs act on one record (docs/PLAN.ko.md:100).
RoomCalls == {c \in Calls : KindOf[c] # "create"}
Room == INSTANCE AtomicRoom WITH
  Calls <- RoomCalls,
  Once <- {c \in RoomCalls : KindOf[c] = "command"},
  log <- IF room = None THEN <<>> ELSE room.log,
  open <- room # None \/ created = 0,
  acked <- {c \in RoomCalls : st[c] = "done"}

\* Every step of a tab is a step of AtomicRoom, or none.
KeepsPromise == [Room!Next]_(Room!vars)
=============================================================================
