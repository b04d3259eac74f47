------------------------------- MODULE MCClient -------------------------------
(* The parts of the client on small instances.  They share no state, so a     *)
(* behaviour runs one of them, part, whose variables are x1, x2, ...; those of *)
(* the order of the goals have their own names.                               *)
EXTENDS TaskOrder, Integers, TLC

CONSTANT None
VARIABLES part, x1, x2, x3, x4, x5, x6, x7, x8, x9, x10, x11, x12, x13, x14, x15, x16, x17, x18, x19

all == <<part, vars, x1, x2, x3, x4, x5, x6, x7, x8, x9, x10, x11, x12, x13, x14, x15, x16, x17, x18, x19>>
-----------------------------------------------------------------------------
(* Commands.  Two clicks over the Node server; then over Supabase, where a    *)
(* call is tried again by itself: two that compete, and one of every kind.    *)
Clicks == INSTANCE ClientCommands WITH
  MaxClicks <- 2, Kinds <- {"choose", "move", "ready"}, MaxRevision <- 3, MaxTries <- 1, Cached <- FALSE,
  revision <- x1, chance <- x2, applied <- x3, late <- x4, shown <- x5, cache <- x6, pending <- x7,
  hasPending <- x8, busy <- x9, offers <- x10, runs <- x11, kind <- x12, told <- x13
Retries == INSTANCE ClientCommands WITH
  MaxClicks <- 2, Kinds <- {"view"}, MaxRevision <- 2, MaxTries <- 2, Cached <- TRUE,
  revision <- x1, chance <- x2, applied <- x3, late <- x4, shown <- x5, cache <- x6, pending <- x7,
  hasPending <- x8, busy <- x9, offers <- x10, runs <- x11, kind <- x12, told <- x13
Each == INSTANCE ClientCommands WITH
  MaxClicks <- 1, Kinds <- {"choose", "move", "ready", "view"}, MaxRevision <- 2, MaxTries <- 2, Cached <- TRUE,
  revision <- x1, chance <- x2, applied <- x3, late <- x4, shown <- x5, cache <- x6, pending <- x7,
  hasPending <- x8, busy <- x9, offers <- x10, runs <- x11, kind <- x12, told <- x13

(* The web socket: of one room with faults, and of two rooms.                 *)
OneRoom == INSTANCE ClientSync WITH
  Rooms <- {"a"}, Home <- "home", Slots <- 1..2, MaxRevision <- 3, MaxVisits <- 1, MaxAsked <- 2, MaxFaults <- 1,
  revision <- x1, path <- x2, visits <- x3, visible <- x4, shown <- x5, seen <- x6, sock <- x7, socket <- x8,
  timer <- x9, connection <- x10, asked <- x11, pulls <- x12, replies <- x13, command <- x14, faults <- x15
TwoRooms == INSTANCE ClientSync WITH
  Rooms <- {"a", "b"}, Home <- "home", Slots <- 1..2, MaxRevision <- 2, MaxVisits <- 2, MaxAsked <- 1, MaxFaults <- 0,
  revision <- x1, path <- x2, visits <- x3, visible <- x4, shown <- x5, seen <- x6, sock <- x7, socket <- x8,
  timer <- x9, connection <- x10, asked <- x11, pulls <- x12, replies <- x13, command <- x14, faults <- x15

(* The broadcasts of Supabase: of one commit, which may be lost while requests *)
(* fail; and of a table of tricks, where the next overtakes the one before: a  *)
(* tab in view, with two messages at a time on their way.                      *)
Tab == {"c1"}
Silence == INSTANCE ClientBroadcast WITH
  Clients <- Tab, MaxRevision <- 2, MaxFails <- 1,
  history <- x1, wire <- x2, joined <- x3, wasConnected <- x4, visible <- x5, cache <- x6, fresh <- x7, quiet <- x8,
  shown <- x9, asked <- x10, replies <- x11, timer <- x12, advance <- x13, fails <- x14
Tricks == INSTANCE ClientBroadcast WITH
  Clients <- Tab, MaxRevision <- 4, MaxFails <- 0,
  history <- x1, wire <- x2, joined <- x3, wasConnected <- x4, visible <- x5, cache <- x6, fresh <- x7, quiet <- x8,
  shown <- x9, asked <- x10, replies <- x11, timer <- x12, advance <- x13, fails <- x14
InView == x5["c1"] /\ Cardinality(x2["c1"]) + Cardinality(x11["c1"]) + Cardinality(x10["c1"]) <= 2
\* The winner's timer of 2.5 seconds, between a poll of 4 and a refresh of 15.
Fallback == INSTANCE TrickFallback WITH
  Delay <- 5, PollTicks <- 8, IntervalTicks <- 30, MaxLatency <- 2,
  seen <- x1, advanced <- x2, timer <- x3, poll <- x4, interval <- x5, silence <- x6, reply <- x7

(* The demo in two tabs: two creations and two commands with one id each and  *)
(* a join; and one call of every other kind.                                  *)
Kind(c) == CASE c \in {"create1", "create2"} -> "create" [] c \in {"cmd1", "cmd2"} -> "command" [] OTHER -> c
Second == {"create2", "cmd2", "join", "demo"}   \* the calls of the second tab
SameCalls == {"create1", "create2", "cmd1", "cmd2", "join"}
Same == INSTANCE MockStore WITH
  Tabs <- {"t1", "t2"}, Actors <- {"a1", "a2"}, Calls <- SameCalls, Locks <- TRUE,
  TabOf <- [c \in SameCalls |-> IF c \in Second THEN "t2" ELSE "t1"], KindOf <- [c \in SameCalls |-> Kind(c)],
  IdOf <- [c \in SameCalls |-> IF Kind(c) = "command" THEN "cmd" ELSE c],
  identity <- x1, actor <- x2, looked <- x3, room <- x4, receipt <- x5, created <- x6, holder <- x7, st <- x8,
  base <- x9, known <- x10
OtherCalls == {"create1", "fill", "demo", "leave", "join"}
Other == INSTANCE MockStore WITH
  Tabs <- {"t1", "t2"}, Actors <- {"a1", "a2"}, Calls <- OtherCalls, Locks <- TRUE,
  TabOf <- [c \in OtherCalls |-> IF c \in Second THEN "t2" ELSE "t1"], KindOf <- [c \in OtherCalls |-> Kind(c)],
  IdOf <- [c \in OtherCalls |-> c],
  identity <- x1, actor <- x2, looked <- x3, room <- x4, receipt <- x5, created <- x6, holder <- x7, st <- x8,
  base <- x9, known <- x10

(* The token layouts of the missions that deal tokens, with the real numbers  *)
(* of goals up to five; for mission 23 also every exchange of two tokens.     *)
GoalCount ==
  (3 :> 2) @@ (6 :> 3) @@ (7 :> 3) @@ (8 :> 3) @@ (11 :> 4)
    @@ (12 :> 4) @@ (14 :> 4) @@ (15 :> 4) @@ (19 :> 5) @@ (21 :> 5)
    @@ (22 :> 5) @@ (23 :> 5)
Exchanged(f, i, j) == [f EXCEPT ![i] = f[j], ![j] = f[i]]
Layouts ==
  {TokensDealt(m, GoalCount[m]) : m \in DOMAIN GoalCount}
    \cup {Exchanged(TokensDealt(23, 5), p[1], p[2]) : p \in (1 .. 5) \X (1 .. 5)}

(* Ways in and out: with the seats' tokens of Node, and as the user of        *)
(* Supabase.                                                                  *)
Seat == INSTANCE ClientEntry WITH
  Mode <- "server", Names <- {"luna", "comet"}, MaxIds <- 2, MaxUsers <- 0,
  seats <- x1, receipts <- x2, token <- x3, session <- x4, recent <- x5, page <- x6, form <- x7, pend <- x8,
  shown <- x9, load <- x10, op <- x11, wire <- x12, caps <- x13, waiting <- x14, ids <- x15, users <- x16,
  tried <- x17, doubt <- x18, linked <- x19
User == INSTANCE ClientEntry WITH
  Mode <- "supabase", Names <- {"luna"}, MaxIds <- 2, MaxUsers <- 2,
  seats <- x1, receipts <- x2, token <- x3, session <- x4, recent <- x5, page <- x6, form <- x7, pend <- x8,
  shown <- x9, load <- x10, op <- x11, wire <- x12, caps <- x13, waiting <- x14, ids <- x15, users <- x16,
  tried <- x17, doubt <- x18, linked <- x19
-----------------------------------------------------------------------------
ASSUME PartAssumptions ==
  /\ OrderAssumption
  /\ Clicks!CommandAssumption /\ Retries!CommandAssumption /\ Each!CommandAssumption
  /\ OneRoom!SyncAssumption /\ TwoRooms!SyncAssumption
  /\ Silence!BroadcastAssumption /\ Tricks!BroadcastAssumption /\ Fallback!FallbackAssumption
  /\ Same!MockAssumption /\ Other!MockAssumption
  /\ Seat!EntryAssumption /\ User!EntryAssumption

\* What a part leaves of x1, x2, ...
After7  == <<x8, x9, x10, x11, x12, x13, x14, x15, x16, x17, x18, x19>>
After10 == <<x11, x12, x13, x14, x15, x16, x17, x18, x19>>
After13 == <<x14, x15, x16, x17, x18, x19>>
After14 == <<x15, x16, x17, x18, x19>>
After15 == <<x16, x17, x18, x19>>
CommandDo(p, A) == part = p /\ A /\ UNCHANGED <<part, vars, After13>>
SyncDo(p, A)    == part = p /\ A /\ UNCHANGED <<part, vars, After15>>
SilenceDo(A)    == part = "silence" /\ A /\ UNCHANGED <<part, vars, After14>>
TricksDo(A)     == part = "tricks" /\ A /\ UNCHANGED <<part, vars, After14>>
FallbackDo(A)   == part = "fallback" /\ A /\ UNCHANGED <<part, vars, After7>>
DemoDo(p, A)    == part = p /\ A /\ UNCHANGED <<part, vars, After10>>
EntryDo(p, A)   == part = p /\ A /\ UNCHANGED <<part, vars>>
OrderDo(A)      == part = "order" /\ A /\ UNCHANGED <<part, x1, x2, x3, x4, x5, x6, x7, After7>>

No16 == x16 = 0 /\ x17 = 0 /\ x18 = 0 /\ x19 = 0
No15 == x15 = 0 /\ No16
No14 == x14 = 0 /\ No15
No11 == x11 = 0 /\ x12 = 0 /\ x13 = 0 /\ No14
No8  == x8 = 0 /\ x9 = 0 /\ x10 = 0 /\ No11
No1  == x1 = 0 /\ x2 = 0 /\ x3 = 0 /\ x4 = 0 /\ x5 = 0 /\ x6 = 0 /\ x7 = 0 /\ No8
\* A mission without goals.
NoGoals == token = <<>> /\ owner = <<>> /\ taken = <<>> /\ status = <<>>
PartInit ==
  \/ part = "clicks"     /\ Clicks!Init /\ No14
  \/ part = "retries"    /\ Retries!Init /\ No14
  \/ part = "each"       /\ Each!Init /\ No14
  \/ part = "room"       /\ OneRoom!Init /\ No16
  \/ part = "rooms"      /\ TwoRooms!Init /\ No16
  \/ part = "silence"    /\ Silence!Init /\ No15
  \/ part = "tricks"     /\ Tricks!Init /\ No15
  \/ part = "fallback"   /\ Fallback!Init /\ No8
  \/ part = "same"       /\ Same!Init /\ No11
  \/ part = "other"      /\ Other!Init /\ No11
  \/ part = "seat"       /\ Seat!Init
  \/ part = "user"       /\ User!Init
  \/ part = "order"      /\ No1
ClientInit == PartInit /\ (IF part = "order" THEN Init ELSE NoGoals)

ClientNext ==
  \/ CommandDo("clicks", Clicks!Next) \/ CommandDo("retries", Retries!Next) \/ CommandDo("each", Each!Next)
  \/ SyncDo("room", OneRoom!Next) \/ SyncDo("rooms", TwoRooms!Next)
  \/ SilenceDo(Silence!Next) \/ TricksDo(Tricks!Next /\ InView') \/ FallbackDo(Fallback!Next)
  \/ DemoDo("same", Same!Next) \/ DemoDo("other", Other!Next)
  \/ EntryDo("seat", Seat!Next) \/ EntryDo("user", User!Next)
  \/ OrderDo(Next)

\* The fairness each part states, for this part.
ClientFairness ==
  /\ \A r \in Clicks!Runs :
       /\ WF_all(CommandDo("clicks", Clicks!Answered(r))) /\ WF_all(CommandDo("clicks", Clicks!Continue(r)))
       /\ WF_all(CommandDo("each", Each!Answered(r))) /\ WF_all(CommandDo("each", Each!Continue(r)))
  /\ WF_all(SyncDo("room", OneRoom!Interval)) /\ WF_all(SyncDo("room", OneRoom!Serve))
  /\ WF_all(SyncDo("room", OneRoom!Arrives)) /\ WF_all(SyncDo("room", OneRoom!Reply))
  /\ WF_all(SyncDo("rooms", TwoRooms!Interval)) /\ WF_all(SyncDo("rooms", TwoRooms!Serve))
  /\ WF_all(SyncDo("rooms", TwoRooms!Arrives)) /\ WF_all(SyncDo("rooms", TwoRooms!Reply))
  /\ WF_all(SilenceDo(Silence!GetsQuiet("c1"))) /\ WF_all(SilenceDo(Silence!Poll("c1")))
  /\ WF_all(SilenceDo(Silence!Serves("c1"))) /\ WF_all(SilenceDo(Silence!Arrives("c1")))
  /\ WF_all(FallbackDo(Fallback!Next))
  /\ WF_all(EntryDo("seat", Seat!Ends))

ClientSpec == ClientInit /\ [][ClientNext]_all /\ ClientFairness
-----------------------------------------------------------------------------
\* OrderTestIsExact and MarksAgreeWithTheEngine are those of TaskOrder.

\* Commands (App.send and App.run): however often a click is tried again it takes
\* effect once; over the Node server the buttons are locked exactly while a request
\* is pending, an answer shown can be relied on, and an effect not yet confirmed
\* is still at hand to be sent again.
CommandsSound ==
  /\ part = "clicks" => /\ Clicks!TypeOK /\ Clicks!LockIsPending /\ Clicks!OncePerClick
                        /\ Clicks!ToldTruly /\ Clicks!UnsureIsKept
  /\ part = "retries" => Retries!OncePerClick
  /\ part = "each" => Each!OncePerClick

\* Keeping up with a room (ServerService.subscribe, SupabaseService and
\* App.accept): one socket, a connection called good only when it is, a quiet
\* screen that is the newest, no way back to an older snapshot whatever order
\* broadcasts arrive in, and no trick moved on by a screen that is behind.
LiveSound ==
  /\ [][part = "room" => (/\ OneRoom!TypeOK /\ OneRoom!OneSocket /\ OneRoom!StatusIsTrue
                          /\ OneRoom!QuietIsFresh /\ OneRoom!NeverBack)']_all
  /\ [][part = "rooms" => (TwoRooms!TypeOK /\ TwoRooms!OneSocket)']_all
  /\ [][part = "silence" => (Silence!TypeOK /\ Silence!CacheLeads)' /\ Silence!NeverBack]_all
  /\ [][part = "tricks" => Tricks!CacheLeads' /\ Tricks!NeverBack /\ Tricks!MovesOnWhatItShows]_all
  /\ [][part = "fallback" => Fallback!TypeOK']_all

\* Ways in (App.enter and leaveRoom) and the demo: a form sent again makes one
\* room or takes one seat, an id is never used twice, a kept token works, an
\* anonymous user reaches every seat; and the tabs of the demo keep the promise
\* of AtomicRoom.
EntryAndDemoSound ==
  /\ [][part = "seat" => (Seat!TypeOK /\ Seat!RetryIsOneSeat /\ Seat!NeverConflict /\ Seat!KeptTokenWorks)']_all
  /\ [][part = "user" => (User!TypeOK /\ User!RetryIsOneSeat /\ User!SeatIsReachable)']_all
  /\ [][part = "same" => (Same!TypeOK /\ Same!CreatesOnce)' /\ Same!KeepsPromise]_all
  /\ [][part = "other" => Other!TypeOK' /\ Other!KeepsPromise]_all
  /\ (part = "same" => Same!Room!Init) /\ (part = "other" => Other!Room!Init)

\* What the user waits for: the buttons, the newest state of the room that is
\* looked at, the end of a finished trick, the answer to a form.
Awaited ==
  CASE part = "clicks"     -> x9
    [] part = "each"       -> x9
    [] part = "room"       -> OneRoom!Behind
    [] part = "rooms"      -> TwoRooms!Behind
    [] part = "silence"    -> Silence!Behind
    [] part = "fallback"   -> Fallback!Unmoved
    [] part = "seat"       -> Seat!Waits
    [] OTHER               -> FALSE

\* Whatever is lost, late or refused: nothing is awaited for ever.
ClientGoesOn == Awaited ~> ~Awaited
=============================================================================
