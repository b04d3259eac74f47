--------------------------- MODULE ClientBroadcast ---------------------------
(* How the screens of the Supabase mode keep up with a room: every commit     *)
(* sends each member a snapshot over a private channel that may lose, delay   *)
(* or reorder it; SupabaseService keeps the newest in a cache with an age     *)
(* limit and polls; App shows what it is given and moves finished tricks on.  *)
EXTENDS Naturals, Sequences, FiniteSets

CONSTANTS Clients,
          MaxRevision,  \* bound on the commands of the room
          MaxFails      \* bound on the requests that fail

BroadcastAssumption == IsFiniteSet(Clients) /\ {MaxRevision, MaxFails} \subseteq Nat /\ MaxRevision > 0

VARIABLES history,   \* the states of the room: its revision is the length
          wire,      \* broadcasts on their way to each client, by revision
          joined, wasConnected,  \* the channel of each client
          visible,
          cache, fresh,  \* the cached snapshot, and whether it is younger than CACHE_MAX_AGE
          quiet,     \* no broadcast for POLL_INTERVAL
          shown,     \* the revision on the screen, 0 for none
          asked, replies,  \* snapshots under way: by resync or by App's refresh
          timer,     \* the revision the armed advance_trick was made for, 0 for none
          advance,   \* the one under way, 0 for none
          fails      \* requests that have failed

vars == <<history, wire, joined, wasConnected, visible, cache, fresh, quiet, shown, asked, replies, timer, advance, fails>>
channel == <<joined, wasConnected, visible>>

Revisions == 1..MaxRevision
revision == Len(history)
Room == history[revision]
Kinds == {"resync", "refresh"}
-----------------------------------------------------------------------------
Init ==
  /\ history = <<[phase |-> "playing", trick |-> 1]>>
  /\ wire = [c \in Clients |-> {}] /\ joined = [c \in Clients |-> FALSE] /\ wasConnected = [c \in Clients |-> FALSE]
  /\ visible = [c \in Clients |-> TRUE]
  /\ cache = [c \in Clients |-> 0] /\ fresh = [c \in Clients |-> FALSE] /\ quiet = [c \in Clients |-> FALSE]
  /\ shown = [c \in Clients |-> 0] /\ asked = [c \in Clients |-> {"refresh"}]
  /\ replies = [c \in Clients |-> {}]
  /\ timer = [c \in Clients |-> 0] /\ advance = [c \in Clients |-> 0] /\ fails = 0

\* A commit: the new state, and a broadcast to those whose channel takes it.
Commit(state) ==
  /\ revision < MaxRevision
  /\ history' = Append(history, state)
  /\ \E reached \in SUBSET {c \in Clients : joined[c]} :
       wire' = [c \in Clients |-> IF c \in reached THEN wire[c] \cup {revision + 1} ELSE wire[c]]

\* Another member acts: the trick may be complete by it, a finished trick may be
\* moved on, or left as it is by a vote or a mark.
Play ==
  /\ \E next \in {"playing", "result"} :
       Commit([phase |-> next, trick |-> IF Room.phase = "result" /\ next = "playing" THEN Room.trick + 1 ELSE Room.trick])
  /\ UNCHANGED <<channel, cache, fresh, quiet, shown, asked, replies, timer, advance, fails>>
-----------------------------------------------------------------------------

\* App.accept: not an older one.  The effect of the new snapshot arms the timer
\* that moves a finished trick on, and disarms the one before.
Accept(c, v) ==
  IF v < shown[c] THEN UNCHANGED <<shown, timer>>
  ELSE /\ shown' = [shown EXCEPT ![c] = v]
       /\ timer' = [timer EXCEPT ![c] = IF history[v].phase = "result" THEN v ELSE 0]

CacheIfNewer(c, v) ==
  IF v < cache[c] THEN UNCHANGED <<cache, fresh>>
  ELSE cache' = [cache EXCEPT ![c] = v] /\ fresh' = [fresh EXCEPT ![c] = TRUE]

\* Mutant: whatever arrives last is cached.
Deliver_Any(c, v) ==
  /\ v \in wire[c] /\ wire' = [wire EXCEPT ![c] = @ \ {v}]
  /\ cache' = [cache EXCEPT ![c] = v] /\ fresh' = [fresh EXCEPT ![c] = TRUE]
  /\ quiet' = [quiet EXCEPT ![c] = FALSE] /\ Accept(c, v)
  /\ UNCHANGED <<history, channel, asked, replies, advance, fails>>

\* A broadcast arrives: a newer one is cached and at once shown by the refresh
\* it causes; any other is dropped and does not count as a sign of life.
Deliver(c, v) ==
  /\ v \in wire[c] /\ wire' = [wire EXCEPT ![c] = @ \ {v}]
  /\ IF v <= cache[c] THEN UNCHANGED <<cache, fresh, quiet, shown, timer>>
     ELSE /\ cache' = [cache EXCEPT ![c] = v] /\ fresh' = [fresh EXCEPT ![c] = TRUE]
          /\ quiet' = [quiet EXCEPT ![c] = FALSE] /\ Accept(c, v)
  /\ UNCHANGED <<history, channel, asked, replies, advance, fails>>

Ages(c) ==
  /\ fresh[c] /\ fresh' = [fresh EXCEPT ![c] = FALSE]
  /\ UNCHANGED <<history, wire, channel, cache, quiet, shown, asked, replies, timer, advance, fails>>

GetsQuiet(c) ==
  /\ ~quiet[c] /\ quiet' = [quiet EXCEPT ![c] = TRUE]
  /\ UNCHANGED <<history, wire, channel, cache, fresh, shown, asked, replies, timer, advance, fails>>

Ask(c, kinds) == asked' = [asked EXCEPT ![c] = @ \cup kinds]

\* Mutant: the poll is left to clients whose channel is closed.
Poll_Closed(c) ==
  /\ quiet[c] /\ visible[c] /\ ~joined[c]
  /\ Ask(c, {"resync"})
  /\ UNCHANGED <<history, wire, channel, cache, fresh, quiet, shown, replies, timer, advance, fails>>

\* The safety net for a broadcast that never arrives.
Poll(c) ==
  /\ quiet[c] /\ visible[c]
  /\ Ask(c, {"resync"})
  /\ UNCHANGED <<history, wire, channel, cache, fresh, quiet, shown, replies, timer, advance, fails>>

\* App.refresh: service.snapshot answers from a fresh cache or asks.
Refresh(c) ==
  IF cache[c] # 0 /\ fresh[c] THEN Accept(c, cache[c]) /\ UNCHANGED asked
  ELSE Ask(c, {"refresh"}) /\ UNCHANGED <<shown, timer>>

\* Every 15 seconds, and on focus and online.
Interval(c) ==
  /\ visible[c] /\ Refresh(c)
  /\ UNCHANGED <<history, wire, channel, cache, fresh, quiet, replies, advance, fails>>

Hide(c) ==
  /\ visible[c] /\ visible' = [visible EXCEPT ![c] = FALSE]
  /\ UNCHANGED <<history, wire, joined, wasConnected, cache, fresh, quiet, shown, asked, replies, timer, advance, fails>>

\* Shown again: resync, and App's refresh.
Show(c) ==
  /\ ~visible[c] /\ visible' = [visible EXCEPT ![c] = TRUE]
  /\ Ask(c, {"resync"} \cup (IF cache[c] # 0 /\ fresh[c] THEN {} ELSE {"refresh"}))
  /\ IF cache[c] # 0 /\ fresh[c] THEN Accept(c, cache[c]) ELSE UNCHANGED <<shown, timer>>
  /\ UNCHANGED <<history, wire, joined, wasConnected, cache, fresh, quiet, replies, advance, fails>>

\* SUBSCRIBED: App refreshes, and after a reconnection what may have been
\* missed is fetched, for the channel never replays it.
Subscribed(c) ==
  /\ ~joined[c] /\ joined' = [joined EXCEPT ![c] = TRUE] /\ wasConnected' = [wasConnected EXCEPT ![c] = TRUE]
  /\ LET resync == IF wasConnected[c] THEN {"resync"} ELSE {} IN
     IF cache[c] # 0 /\ fresh[c] THEN Accept(c, cache[c]) /\ Ask(c, resync)
     ELSE Ask(c, resync \cup {"refresh"}) /\ UNCHANGED <<shown, timer>>
  /\ UNCHANGED <<history, wire, visible, cache, fresh, quiet, replies, advance, fails>>

Disconnected(c) ==
  /\ joined[c] /\ joined' = [joined EXCEPT ![c] = FALSE] /\ wire' = [wire EXCEPT ![c] = {}]
  /\ UNCHANGED <<history, wasConnected, visible, cache, fresh, quiet, shown, asked, replies, timer, advance, fails>>

Serve(c, kind) ==
  /\ kind \in asked[c] /\ asked' = [asked EXCEPT ![c] = @ \ {kind}]
  /\ replies' = [replies EXCEPT ![c] = @ \cup {<<kind, revision>>}]
  /\ UNCHANGED <<history, wire, channel, cache, fresh, quiet, shown, timer, advance, fails>>

\* A request fails: the next broadcast, poll or refresh asks again.
Fails(c, kind) ==
  /\ kind \in asked[c] /\ asked' = [asked EXCEPT ![c] = @ \ {kind}]
  /\ fails < MaxFails /\ fails' = fails + 1
  /\ UNCHANGED <<history, wire, channel, cache, fresh, quiet, shown, replies, timer, advance>>

\* A snapshot arrives.  App shows what it asked for; a resync is only announced
\* to it, and the refresh that follows takes the cache, or asks in its turn.
Arrive(c, kind, v) ==
  /\ <<kind, v>> \in replies[c] /\ replies' = [replies EXCEPT ![c] = @ \ {<<kind, v>>}]
  /\ CacheIfNewer(c, v)
  /\ IF kind = "refresh" THEN Accept(c, v) /\ UNCHANGED asked
     ELSE IF fresh'[c] THEN Accept(c, cache'[c]) /\ UNCHANGED asked
     ELSE Ask(c, {"refresh"}) /\ UNCHANGED <<shown, timer>>
  /\ UNCHANGED <<history, wire, channel, quiet, advance, fails>>
-----------------------------------------------------------------------------
\* The timer of the snapshot fires: advance_trick with that snapshot's revision.
Fire(c) ==
  /\ timer[c] # 0 /\ advance[c] = 0
  /\ advance' = [advance EXCEPT ![c] = timer[c]] /\ timer' = [timer EXCEPT ![c] = 0]
  /\ UNCHANGED <<history, wire, channel, cache, fresh, quiet, shown, asked, replies, fails>>

\* It arrives: the room compares the revision; the reply is cached and shown, a
\* refusal is passed over in silence.
Advance(c) ==
  /\ advance[c] # 0 /\ advance' = [advance EXCEPT ![c] = 0]
  /\ IF advance[c] = revision /\ Room.phase = "result"
     THEN /\ Commit([phase |-> "playing", trick |-> Room.trick + 1])
          /\ cache' = [cache EXCEPT ![c] = revision + 1] /\ fresh' = [fresh EXCEPT ![c] = TRUE]
          /\ shown' = [shown EXCEPT ![c] = revision + 1] /\ timer' = [timer EXCEPT ![c] = 0]
     ELSE UNCHANGED <<history, wire, cache, fresh, shown, timer>>
  /\ UNCHANGED <<channel, quiet, asked, replies, fails>>

Next ==
  \/ Play
  \/ \E c \in Clients :
       \/ Ages(c) \/ GetsQuiet(c) \/ Poll(c) \/ Interval(c) \/ Hide(c) \/ Show(c)
       \/ Subscribed(c) \/ Disconnected(c) \/ Fire(c) \/ Advance(c)
       \/ \E v \in wire[c] : Deliver(c, v)
       \/ \E kind \in asked[c] : Serve(c, kind) \/ Fails(c, kind)
       \/ \E reply \in replies[c] : Arrive(c, reply[1], reply[2])

\* The poll, without which nothing is assumed to be asked: its two conditions
\* come about by time alone; a request that does not fail is answered.
Serves(c) == \E kind \in Kinds : Serve(c, kind)
Arrives(c) == \E reply \in replies[c] : Arrive(c, reply[1], reply[2])
Spec ==
  /\ Init /\ [][Next]_vars
  /\ \A c \in Clients : WF_vars(GetsQuiet(c)) /\ WF_vars(Poll(c)) /\ WF_vars(Serves(c)) /\ WF_vars(Arrives(c))
-----------------------------------------------------------------------------
TypeOK ==
  /\ history \in Seq([phase : {"playing", "result"}, trick : Nat]) /\ revision \in Revisions
  /\ \A c \in Clients :
       /\ wire[c] \subseteq Revisions /\ {joined[c], wasConnected[c], visible[c], fresh[c], quiet[c]} \subseteq BOOLEAN
       /\ {cache[c], shown[c], timer[c], advance[c]} \subseteq 0..revision
       /\ asked[c] \subseteq Kinds /\ replies[c] \subseteq Kinds \X Revisions

\* What a screen shows is never newer than what the service remembers, so that
\* a refresh from the cache cannot bring an older state than a reply did.
CacheLeads == \A c \in Clients : shown[c] <= cache[c]

\* Neither the screen nor the cache goes back, whatever order broadcasts,
\* snapshots and replies arrive in (docs/API.ko.md:135).
NeverBack == \A c \in Clients : shown'[c] >= shown[c] /\ cache'[c] >= cache[c]

\* A trick is moved on only by who has the present state of the room before him: a
\* late advance_trick never clears a trick, a vote or a mark that its screen does
\* not show (App.tsx:283-288).
MovesOnWhatItShows == \A c \in Clients :
  Len(history') > Len(history) /\ advance[c] # 0 /\ advance'[c] = 0 => shown[c] = revision

\* A screen that is looked at and behind the room: not for ever, although every
\* broadcast may be lost (supabase.ts:236-238).
Behind == \E c \in Clients : visible[c] /\ shown[c] # revision
=============================================================================
