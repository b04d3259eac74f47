------------------------------ MODULE StoreEntry ------------------------------
(* How people get into rooms: createRoom and joinRoom with their receipts,    *)
(* which live in memory only, the index of invites, which is filled by one    *)
(* scan of the disk, and the removal of a room by its last member.            *)
(* What happens inside one room is serialised by its queue (RoomStore); here   *)
(* a room is its file, and the seats people were given in it.                 *)
EXTENDS Naturals, FiniteSets

CONSTANTS Calls,      \* requests; one resent with the same id is a call of its own
          KindOf,     \* "create", "join" or "close"
          IdOf,       \* the command id
          BodyOf,     \* what else the request says
          RoomOf,     \* the room a join or a close is about; a create makes its own
          Old,        \* rooms left on disk by an earlier process
          CacheLimit, \* maxCachedRooms
          MaxLapses,  \* bound on crashes and on receipts that expire or are crowded out
          MaxFaults,  \* bound on operations the disk refuses
          None

Creates == {c \in Calls : KindOf[c] = "create"}
Joins   == {c \in Calls : KindOf[c] = "join"}
Rooms   == Old \cup Creates
Ids     == {IdOf[c] : c \in Calls}

EntryAssumption ==
  /\ KindOf \in [Calls -> {"create", "join", "close"}]
  /\ \A c \in Calls \ Creates : RoomOf[c] \in Rooms
  /\ \A c, d \in Calls : IdOf[c] = IdOf[d] => KindOf[c] = KindOf[d]
  /\ CacheLimit \in Nat \ {0} /\ MaxLapses \in Nat /\ MaxFaults \in Nat

VARIABLES disk,     \* the rooms that have a file
          handed,   \* the rooms whose invite and token were handed out
          seats,    \* the joins that were given a seat, by room, as on disk
          cached,   \* the rooms in memory
          index,    \* the rooms whose invite is in the index
          pending,  \* invites to be added when the scan ends
          scan,     \* inviteIndexReady: "no", "list", "read", "done" or "failed"
          todo,     \* rooms listed and not read yet
          inHand,   \* the room whose record was read and is not yet indexed
          receipts, \* command id -> the call whose result is remembered, or None
          inflight, \* command id -> the call that is under way, or None
          at,       \* how far each call has come, or its answer
          lapses, faults

vars == <<disk, handed, seats, cached, index, pending, scan, todo, inHand, receipts, inflight, at, lapses, faults>>
disks == <<disk, seats, handed>>
scans == <<scan, todo, inHand>>
invites == <<index, pending, scan, todo, inHand>>
bounds == <<lapses, faults>>

Inside == {"seat", "seated", "remove", "removed"}
Underway == {"write", "wrote", "share", "index", "enter"} \cup Inside
Answers == {"ok", "conflict", "busy", "noinvite", "gone", "error", "lost"}

\* The room a call is at work in.
Target(c) == IF c \in Creates THEN c ELSE RoomOf[c]

\* The queue of a room is free.
Free(r) == \A c \in Calls : at[c] \in Inside => Target(c) # r
Is(c, state) == at' = [at EXCEPT ![c] = state]

-----------------------------------------------------------------------------
Init ==
  /\ disk = Old /\ handed = Old /\ seats = [r \in Rooms |-> {}]
  /\ cached = {} /\ index = {} /\ pending = {}
  /\ scan = "no" /\ todo = {} /\ inHand = None
  /\ receipts = [i \in Ids |-> None] /\ inflight = [i \in Ids |-> None]
  /\ at = [c \in Calls |-> "new"]
  /\ lapses = 0 /\ faults = 0

\* A receipt answers at once; a call with the same id under way is shared;
\* either refuses another body.
Earlier(c) == IF receipts[IdOf[c]] # None THEN receipts[IdOf[c]] ELSE inflight[IdOf[c]]

Fresh(c) == Earlier(c) = None

Resend(c) ==
  /\ at[c] = "new" /\ KindOf[c] # "close" /\ ~Fresh(c)
  /\ Is(c, IF BodyOf[Earlier(c)] # BodyOf[c] THEN "conflict"
           ELSE IF receipts[IdOf[c]] # None THEN "ok" ELSE "share")
  /\ UNCHANGED <<disks, cached, invites, receipts, inflight, bounds>>

\* A call settles, and with it those that share its promise.
Settle(c, answer) ==
  /\ at' = [d \in Calls |-> IF d = c \/ (at[d] = "share" /\ IdOf[d] = IdOf[c])
                            THEN answer ELSE at[d]]
  /\ inflight' = [inflight EXCEPT ![IdOf[c]] = None]

\* A success is remembered.
Succeed(c) == Settle(c, "ok") /\ receipts' = [receipts EXCEPT ![IdOf[c]] = c]

-----------------------------------------------------------------------------
\* doCreateRoom: the cache is looked at before the record is written.
Create(c) ==
  /\ c \in Creates /\ at[c] = "new" /\ Fresh(c)
  /\ IF Cardinality(cached) >= CacheLimit
     THEN Settle(c, "busy")
     ELSE Is(c, "write") /\ inflight' = [inflight EXCEPT ![IdOf[c]] = c]
  /\ UNCHANGED <<disks, cached, invites, receipts, bounds>>

WriteRoom(c) ==
  /\ c \in Creates /\ at[c] = "write"
  /\ disk' = disk \cup {c}
  /\ Is(c, "wrote")
  /\ UNCHANGED <<seats, handed, cached, invites, receipts, inflight, bounds>>

\* registerInvite: straight into the index once a scan has begun.
Register(r) ==
  IF scan # "no" THEN index' = index \cup {r} /\ UNCHANGED pending
  ELSE pending' = pending \cup {r} /\ UNCHANGED index

Created(c) ==
  /\ c \in Creates /\ at[c] = "wrote"
  /\ cached' = cached \cup {c}
  /\ handed' = handed \cup {c}
  /\ Register(c) /\ Succeed(c)
  /\ UNCHANGED <<disk, seats, scans, bounds>>

-----------------------------------------------------------------------------
\* doJoinRoom: the first join starts the scan, and every join waits for it.
Join(c) ==
  /\ c \in Joins /\ at[c] = "new" /\ RoomOf[c] \in handed /\ Fresh(c)
  /\ Is(c, "index") /\ inflight' = [inflight EXCEPT ![IdOf[c]] = c]
  /\ scan' = IF scan = "no" THEN "list" ELSE scan
  /\ UNCHANGED <<disks, cached, index, pending, todo, inHand, receipts, bounds>>

\* findRoomIdByInvite; a scan that failed has failed for every join to come.
LookUp(c) ==
  /\ at[c] = "index" /\ scan \in {"done", "failed"}
  /\ \/ scan = "failed" /\ Settle(c, "error")
     \/ scan = "done" /\ RoomOf[c] \notin index /\ Settle(c, "noinvite")
     \/ scan = "done" /\ RoomOf[c] \in index /\ Is(c, "enter") /\ UNCHANGED inflight
  /\ UNCHANGED <<disks, cached, invites, receipts, bounds>>

\* withRoom, when the room's queue is free: the room is read in if need be.
Enter(c) ==
  /\ at[c] = "enter" /\ Free(RoomOf[c])
  /\ IF RoomOf[c] \in disk
     THEN cached' = cached \cup {RoomOf[c]} /\ Is(c, "seat") /\ UNCHANGED inflight
     ELSE Settle(c, "gone") /\ UNCHANGED cached
  /\ UNCHANGED <<disks, invites, receipts, bounds>>

Seat(c) ==
  /\ at[c] = "seat"
  /\ disk' = disk \cup {RoomOf[c]} /\ seats' = [seats EXCEPT ![RoomOf[c]] = @ \cup {c}]
  /\ Is(c, "seated")
  /\ UNCHANGED <<handed, cached, invites, receipts, inflight, bounds>>

Joined(c) ==
  /\ at[c] = "seated"
  /\ cached' = cached \cup {RoomOf[c]}
  /\ Succeed(c)
  /\ UNCHANGED <<disks, invites, bounds>>

-----------------------------------------------------------------------------

\* ensureInviteIndex, from await to await.
List ==
  /\ scan = "list"
  /\ todo' = disk /\ scan' = "read"
  /\ UNCHANGED <<disks, cached, index, pending, inHand, receipts, inflight, at, bounds>>

ReadOne(r) ==
  /\ scan = "read" /\ inHand = None /\ r \in todo
  /\ todo' = todo \ {r}
  /\ inHand' = IF r \in disk THEN r ELSE None
  /\ UNCHANGED <<disks, cached, index, pending, scan, receipts, inflight, at, bounds>>

IndexOne ==
  /\ inHand # None
  /\ index' = index \cup {inHand} /\ inHand' = None
  /\ UNCHANGED <<disks, cached, pending, scan, todo, receipts, inflight, at, bounds>>

EndScan ==
  /\ scan = "read" /\ todo = {} /\ inHand = None
  /\ index' = index \cup pending /\ pending' = {} /\ scan' = "done"
  /\ UNCHANGED <<disks, cached, todo, inHand, receipts, inflight, at, bounds>>

\* readdir fails, and the rejected promise stays; a file that cannot be read is
\* passed over.
ScanFails ==
  /\ faults < MaxFaults /\ faults' = faults + 1
  /\ \/ scan = "list" /\ scan' = "failed" /\ UNCHANGED todo
     \/ scan = "read" /\ inHand = None /\ (\E r \in todo : todo' = todo \ {r}) /\ UNCHANGED scan
  /\ UNCHANGED <<disks, cached, index, pending, inHand, receipts, inflight, at, lapses>>

-----------------------------------------------------------------------------
\* leaveRoom of the only member there is.
Close(c) ==
  /\ KindOf[c] = "close" /\ at[c] = "new" /\ RoomOf[c] \in handed /\ Free(RoomOf[c])
  /\ IF RoomOf[c] \notin disk THEN Is(c, "gone") /\ UNCHANGED cached
     ELSE seats[RoomOf[c]] = {} /\ cached' = cached \cup {RoomOf[c]} /\ Is(c, "remove")
  /\ UNCHANGED <<disks, invites, receipts, inflight, bounds>>

RemoveFile(c) ==
  /\ at[c] = "remove"
  /\ disk' = disk \ {RoomOf[c]}
  /\ Is(c, "removed")
  /\ UNCHANGED <<seats, handed, cached, invites, receipts, inflight, bounds>>

Removed(c) ==
  /\ at[c] = "removed"
  /\ cached' = cached \ {RoomOf[c]}
  /\ IF scan # "no" THEN index' = index \ {RoomOf[c]} /\ UNCHANGED pending
     ELSE pending' = pending \ {RoomOf[c]} /\ UNCHANGED index
  /\ Is(c, "ok")
  /\ UNCHANGED <<disks, scans, receipts, inflight, bounds>>

\* The disk refuses a write or a removal.
DiskFails(c) ==
  /\ faults < MaxFaults /\ faults' = faults + 1
  /\ at[c] \in {"write", "seat", "remove"}
  /\ Settle(c, "error")
  /\ UNCHANGED <<disks, cached, invites, receipts, lapses>>

-----------------------------------------------------------------------------
\* A receipt is older than its time to live, or crowded out by newer ones.
Lapse(i) ==
  /\ lapses < MaxLapses /\ lapses' = lapses + 1
  /\ receipts[i] # None
  /\ receipts' = [receipts EXCEPT ![i] = None]
  /\ UNCHANGED <<disks, cached, invites, inflight, at, faults>>

Evict(r) ==
  /\ r \in cached /\ cached' = cached \ {r}
  /\ UNCHANGED <<disks, invites, receipts, inflight, at, bounds>>

\* The process ends: the files are all that is left.
Crash ==
  /\ lapses < MaxLapses /\ lapses' = lapses + 1
  /\ cached' = {} /\ index' = {} /\ pending' = {}
  /\ scan' = "no" /\ todo' = {} /\ inHand' = None
  /\ receipts' = [i \in Ids |-> None] /\ inflight' = [i \in Ids |-> None]
  /\ at' = [c \in Calls |-> IF at[c] \in Underway THEN "lost" ELSE at[c]]
  /\ UNCHANGED <<disks, faults>>

Serve(c) == WriteRoom(c) \/ Created(c) \/ LookUp(c) \/ Enter(c) \/ Seat(c) \/ Joined(c)
            \/ RemoveFile(c) \/ Removed(c)
Scan == List \/ (\E r \in Rooms : ReadOne(r)) \/ IndexOne \/ EndScan
Next ==
  \/ \E c \in Calls : Resend(c) \/ Create(c) \/ Join(c) \/ Close(c) \/ Serve(c) \/ DiskFails(c)
  \/ Scan \/ ScanFails \/ Crash
  \/ (\E i \in Ids : Lapse(i)) \/ (\E r \in Rooms : Evict(r))

Fairness == WF_vars(Scan) /\ \A c \in Calls : WF_vars(Serve(c))
Spec == Init /\ [][Next]_vars /\ Fairness
-----------------------------------------------------------------------------
TypeOK ==
  /\ disk \subseteq Rooms /\ cached \subseteq Rooms /\ index \subseteq Rooms /\ pending \subseteq Rooms
  /\ \A r \in Rooms : seats[r] \subseteq Joins
  /\ at \in [Calls -> {"new"} \cup Underway \cup Answers]
  /\ \A i \in Ids : receipts[i] # None => IdOf[receipts[i]] = i

\* However often a request is resent it makes one room, or takes one seat; each
\* restart, or receipt that is gone, costs at most one more.
RetryCountsOnce ==
  \A i \in Ids :
    /\ Cardinality({c \in Creates \cap disk : IdOf[c] = i}) <= 1 + lapses
    /\ Cardinality({c \in Joins : IdOf[c] = i /\ c \in seats[RoomOf[c]]}) <= 1 + lapses

\* Who was told to be in has a seat, in a room that is still there, whatever
\* happens to the process later.
JoinedIsSeated ==
  \A c \in Joins : at[c] = "ok" =>
    /\ RoomOf[c] \in disk
    /\ \E d \in seats[RoomOf[c]] : IdOf[d] = IdOf[c] /\ BodyOf[d] = BodyOf[c]

\* Nobody holds a seat in a room that was removed: a join that found the invite
\* of a dying room, or a left-over invite in the index, comes too late.
NoSeatInRemovedRoom == \A r \in Rooms : seats[r] # {} => r \in disk

\* An invite that was handed out is found as long as its room exists, also when
\* the scan runs while rooms come and go; unless the disk failed the scan.
Finds ==
  \A c \in Joins : at[c] = "index" /\ at'[c] \in {"noinvite", "error"} => RoomOf[c] \notin disk \/ faults > 0
=============================================================================
