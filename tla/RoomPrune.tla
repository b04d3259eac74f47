------------------------------ MODULE RoomPrune ------------------------------
(* Rooms not changed for thirty days are removed once, when the process       *)
(* starts, while it is already serving: by the age of the file, looked at and *)
(* removed in two steps, or by one DELETE.                                    *)
EXTENDS Naturals, FiniteSets

CONSTANTS Rooms,
          Db,        \* the rows of the database, or the files
          MaxWrites  \* bound: commands that change a room

PruneAssumption == Db \in BOOLEAN /\ MaxWrites \in Nat /\ IsFiniteSet(Rooms)

VARIABLES stored,   \* the version on disk, 0 when the file or the row is not there
          old,      \* rooms whose mtime or updated_at is over the limit
          cached,   \* the version in memory, 0 when it is not loaded
          acked,    \* the newest version a command was answered with
          writing,  \* commands under way: room |-> the version being written, or 0
          todo,     \* rooms the loop has still to look at
          condemned,\* the room whose age was found over the limit, about to go
          pruning   \* before, running, done

vars == <<stored, old, cached, acked, writing, todo, condemned, pruning>>
-----------------------------------------------------------------------------
Init ==
  /\ stored = [r \in Rooms |-> 1] /\ old \in SUBSET Rooms /\ cached = [r \in Rooms |-> 0]
  /\ acked = [r \in Rooms |-> 0] /\ writing = [r \in Rooms |-> 0]
  /\ todo = {} /\ condemned = {} /\ pruning = "before"

\* The boot: main() starts the removal and the server, and waits for neither.
StartPrune ==
  /\ pruning = "before" /\ pruning' = "running"
  /\ todo' = {r \in Rooms : stored[r] # 0} /\ UNCHANGED <<stored, old, cached, acked, writing, condemned>>

\* stat, or the row the DELETE finds by its updated_at.
Look(r) ==
  /\ pruning = "running" /\ r \in todo /\ condemned = {}
  /\ todo' = todo \ {r} /\ condemned' = IF stored[r] # 0 /\ r \in old THEN {r} ELSE {}
  /\ UNCHANGED <<stored, old, cached, acked, writing, pruning>>

\* rm, whatever has become of the file since; Postgres waits for the row and tests
\* it again.
Remove(r) ==
  /\ r \in condemned /\ condemned' = {}
  /\ Db => writing[r] = 0
  /\ stored' = IF Db /\ r \notin old THEN stored ELSE [stored EXCEPT ![r] = 0]
  /\ UNCHANGED <<old, cached, acked, writing, todo, pruning>>

EndPrune == /\ pruning = "running" /\ todo = {} /\ condemned = {} /\ pruning' = "done"
            /\ UNCHANGED <<stored, old, cached, acked, writing, todo, condemned>>

\* A command, a join or a leave: the room from memory or from disk (the row under
\* its lock), and the next version on its way.
Command(r) ==
  /\ writing[r] = 0 /\ acked[r] < MaxWrites + 1
  /\ (cached[r] # 0 /\ ~Db) \/ stored[r] # 0
  /\ LET version == IF cached[r] # 0 /\ ~Db THEN cached[r] ELSE stored[r] IN
     /\ version <= MaxWrites
     /\ writing' = [writing EXCEPT ![r] = version + 1]
     /\ cached' = IF Db THEN cached ELSE [cached EXCEPT ![r] = version]
  /\ UNCHANGED <<stored, old, acked, todo, condemned, pruning>>

\* The rename or the commit: the room is young again, and the client is answered.
Written(r) ==
  /\ writing[r] # 0 /\ writing' = [writing EXCEPT ![r] = 0]
  /\ stored' = [stored EXCEPT ![r] = writing[r]] /\ acked' = [acked EXCEPT ![r] = writing[r]]
  /\ old' = old \ {r}
  /\ cached' = IF Db THEN cached ELSE [cached EXCEPT ![r] = writing[r]]
  /\ UNCHANGED <<todo, condemned, pruning>>

\* An idle room is dropped from memory.
Evict(r) == /\ cached[r] # 0 /\ writing[r] = 0 /\ cached' = [cached EXCEPT ![r] = 0]
            /\ UNCHANGED <<stored, old, acked, writing, todo, condemned, pruning>>

Next == \/ StartPrune \/ EndPrune
        \/ \E r \in Rooms : Look(r) \/ Remove(r) \/ Command(r) \/ Written(r) \/ Evict(r)
Spec == Init /\ [][Next]_vars
-----------------------------------------------------------------------------
TypeOK ==
  /\ stored \in [Rooms -> 0..MaxWrites + 1] /\ old \subseteq Rooms /\ cached \in [Rooms -> 0..MaxWrites + 1]
  /\ acked \in [Rooms -> 0..MaxWrites + 1] /\ writing \in [Rooms -> 0..MaxWrites + 1]
  /\ todo \subseteq Rooms /\ Cardinality(condemned) <= 1 /\ pruning \in {"before", "running", "done"}
  /\ Db => \A r \in Rooms : cached[r] = 0 /\ (writing[r] # 0 => writing[r] = stored[r] + 1)

\* What a command was answered with is still there: only a room that nobody has
\* changed for thirty days goes (server/index.ts:73).
OnlyStaleGoes == \A r \in Rooms : acked[r] # 0 => stored[r] >= acked[r]

\* A room that nobody has used since and that was over the limit at the boot.
StaleRoom == \E r \in old : stored[r] # 0 /\ acked[r] = 0
=============================================================================
