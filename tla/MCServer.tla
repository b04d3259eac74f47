------------------------------- MODULE MCServer -------------------------------
(* The parts of the server on small instances.  They share no state, so a     *)
(* behaviour runs one of them, part, whose variables are x1, x2, ...; those of *)
(* the modules that are extended have their own names.                        *)
EXTENDS RoomStore, RateLimiter, SocketAuth, Shutdown, TLC

VARIABLES part, x1, x2, x3, x4, x5, x6, x7, x8, x9, x10, x11, x12, x13, x14

all == <<part, x1, x2, x3, x4, x5, x6, x7, x8, x9, x10, x11, x12, x13, x14,
         vars, limiterVars, socketVars, shutdownVars>>
-----------------------------------------------------------------------------
(* One room.  Members come and go, perhaps until it is empty; or a new attempt *)
(* is sent twice, its id used by another member, and a ready is late.          *)
LeaverCalls == {"c1", "c2", "c3", "c4"}
Leavers == INSTANCE RoomStore WITH
  Calls <- LeaverCalls, Crew <- {"ann", "ben"}, MaxFaults <- 1,
  KindOf <- "c1" :> "leave" @@ "c2" :> "leave" @@ "c3" :> "snapshot" @@ "c4" :> "join",
  IdOf <- [c \in LeaverCalls |-> c],
  ActorOf <- "c1" :> "ann" @@ "c2" :> "ben" @@ "c3" :> "ben" @@ "c4" :> "cho",
  file <- x1, cache <- x2, queue <- x3, at <- x4, draft <- x5, exp <- x6,
  told <- x7, floor <- x8, reply <- x9, faults <- x10

ResentCalls == {"c1", "c2", "c3", "c4"}
ResentCrew  == {"ann", "ben"}
ResentKind  == "c1" :> "restart" @@ "c2" :> "restart" @@ "c3" :> "ready" @@ "c4" :> "command"
ResentId    == "c1" :> 1 @@ "c2" :> 1 @@ "c3" :> 2 @@ "c4" :> 1
ResentActor == "c1" :> "ann" @@ "c2" :> "ann" @@ "c3" :> "ben" @@ "c4" :> "ben"

(* Ways in: a room that is made, joined and removed with every request sent   *)
(* twice; and one that is removed while the scan comes to its invite.         *)
EntryKind == "c1" :> "create" @@ "c2" :> "create" @@ "j1" :> "join" @@ "j2" :> "join" @@ "k1" :> "close"
EntryId   == "c1" :> 1 @@ "c2" :> 1 @@ "j1" :> 2 @@ "j2" :> 2 @@ "k1" :> 3
NewCalls == {"c1", "c2", "j1", "j2", "k1"}
OldCalls == {"c1", "j1", "j2", "k1"}
NewRoom == INSTANCE StoreEntry WITH
  Calls <- NewCalls, KindOf <- EntryKind, IdOf <- EntryId, BodyOf <- [c \in NewCalls |-> 1],
  RoomOf <- [c \in NewCalls |-> IF c = "c2" THEN "c2" ELSE "c1"], Old <- {"old"},
  CacheLimit <- 1, MaxLapses <- 1, MaxFaults <- 1,
  disk <- x1, handed <- x2, seats <- x3, cached <- x4, index <- x5, pending <- x6, scan <- x7,
  todo <- x8, inHand <- x9, receipts <- x10, inflight <- x11, at <- x12, lapses <- x13, faults <- x14
OldRoom == INSTANCE StoreEntry WITH
  Calls <- OldCalls, KindOf <- [c \in OldCalls |-> EntryKind[c]], IdOf <- [c \in OldCalls |-> EntryId[c]],
  BodyOf <- [c \in OldCalls |-> IF c = "j2" THEN 2 ELSE 1],
  RoomOf <- [c \in OldCalls |-> IF c = "c1" THEN "c1" ELSE "old"], Old <- {"old"},
  CacheLimit <- 2, MaxLapses <- 1, MaxFaults <- 1,
  disk <- x1, handed <- x2, seats <- x3, cached <- x4, index <- x5, pending <- x6, scan <- x7,
  todo <- x8, inHand <- x9, receipts <- x10, inflight <- x11, at <- x12, lapses <- x13, faults <- x14

(* The timers of a room; Slow where no revision passes unseen and every timer  *)
(* has run out before the next trick ends.                                    *)
Timers == INSTANCE StoreTimers WITH
  Bumps <- TRUE, Quick <- TRUE, MaxLeaves <- 2, MaxFaults <- 2, MaxSteps <- 2,
  phase <- x1, vote <- x2, turn <- x3, alive <- x4, cached <- x5, leaving <- x6, demo <- x7,
  steps <- x8, trick <- x9, advances <- x10, stopped <- x11, leaves <- x12, faults <- x13
Slow == INSTANCE StoreTimers WITH
  Bumps <- FALSE, Quick <- FALSE, MaxLeaves <- 2, MaxFaults <- 1, MaxSteps <- 2,
  phase <- x1, vote <- x2, turn <- x3, alive <- x4, cached <- x5, leaving <- x6, demo <- x7,
  steps <- x8, trick <- x9, advances <- x10, stopped <- x11, leaves <- x12, faults <- x13
-----------------------------------------------------------------------------
ASSUME PartAssumptions ==
  /\ Leavers!StoreAssumption /\ StoreAssumption
  /\ NewRoom!EntryAssumption /\ OldRoom!EntryAssumption
  /\ Timers!TimersAssumption /\ Slow!TimersAssumption

\* What a part leaves of x1, x2, ...
Last4 == <<x11, x12, x13, x14>>
AllX  == <<x1, x2, x3, x4, x5, x6, x7, x8, x9, x10, x11, x12, x13, x14>>
Still(tail) == UNCHANGED <<part, tail, vars, limiterVars, socketVars, shutdownVars>>

LeaversDo(A)  == part = "leavers" /\ A /\ Still(Last4)
ResentDo(A)   == part = "resent"  /\ A /\ UNCHANGED <<part, AllX, limiterVars, socketVars, shutdownVars>>
LimiterDo(A)  == part = "limiter" /\ A /\ UNCHANGED <<part, AllX, vars, socketVars, shutdownVars>>
SocketsDo(A)  == part = "sockets" /\ A /\ UNCHANGED <<part, AllX, vars, limiterVars, shutdownVars>>
EndingDo(A)   == part = "ending"  /\ A /\ UNCHANGED <<part, AllX, vars, limiterVars, socketVars>>
NewRoomDo(A)  == part = "new"     /\ A /\ Still(<<>>)
OldRoomDo(A)  == part = "old"     /\ A /\ Still(<<>>)
TimersDo(A)   == part = "timers"  /\ A /\ Still(x14)
SlowDo(A)     == part = "slow"    /\ A /\ Still(x14)

ServerInit ==
  /\ LimiterInit /\ Init /\ SocketInit /\ ShutdownInit
  /\ part = "resent" \/ cache = None
  /\ part = "ending" \/ pool = "none"
  /\ \/ part \in {"limiter", "resent", "sockets", "ending"}
        /\ x1 = 0 /\ x2 = 0 /\ x3 = 0 /\ x4 = 0 /\ x5 = 0 /\ x6 = 0 /\ x7 = 0
        /\ x8 = 0 /\ x9 = 0 /\ x10 = 0 /\ x11 = 0 /\ x12 = 0 /\ x13 = 0 /\ x14 = 0
     \/ part = "leavers" /\ Leavers!Init /\ x11 = 0 /\ x12 = 0 /\ x13 = 0 /\ x14 = 0
     \/ part = "new"     /\ NewRoom!Init
     \/ part = "old"     /\ OldRoom!Init
     \/ part = "timers"  /\ Timers!Init /\ x14 = 0
     \/ part = "slow"    /\ Slow!Init /\ x14 = 0

ServerNext ==
  \/ LimiterDo(LimiterNext) \/ ResentDo(Next) \/ LeaversDo(Leavers!Next)
  \/ NewRoomDo(NewRoom!Next) \/ OldRoomDo(OldRoom!Next)
  \/ TimersDo(Timers!Next) \/ SlowDo(Slow!Next)
  \/ SocketsDo(SocketNext) \/ EndingDo(ShutdownNext)

\* The fairness each part states, for this part.
ServerFairness ==
  /\ \A c \in LeaverCalls : WF_all(LeaversDo(Leavers!Serve(c)))
  /\ \A c \in ResentCalls : WF_all(ResentDo(Serve(c)))
  /\ WF_all(NewRoomDo(NewRoom!Scan)) /\ \A c \in NewCalls : WF_all(NewRoomDo(NewRoom!Serve(c)))
  /\ WF_all(OldRoomDo(OldRoom!Scan)) /\ \A c \in OldCalls : WF_all(OldRoomDo(OldRoom!Serve(c)))
  /\ WF_all(TimersDo(Timers!DemoFires)) /\ WF_all(TimersDo(Timers!DemoStep \/ Timers!DemoStepFails))
  /\ WF_all(TimersDo(Timers!TrickFires)) /\ WF_all(TimersDo(Timers!Advance))
  /\ WF_all(TimersDo(Timers!LeaveEnds)) /\ WF_all(TimersDo(Timers!Touch))
  /\ WF_all(SlowDo(Slow!DemoFires)) /\ WF_all(SlowDo(Slow!DemoStep \/ Slow!DemoStepFails))
  /\ WF_all(SlowDo(Slow!TrickFires)) /\ WF_all(SlowDo(Slow!Advance))
  /\ WF_all(SlowDo(Slow!LeaveEnds)) /\ WF_all(SlowDo(Slow!Touch))
  /\ \A s \in Sockets :
       /\ WF_all(SocketsDo(AuthTimeout(s))) /\ WF_all(SocketsDo(Answered(s)))
       /\ WF_all(SocketsDo(Ping(s))) /\ WF_all(SocketsDo(Terminate(s)))
  /\ WF_all(EndingDo(ClockTick)) /\ WF_all(EndingDo(Exit)) /\ WF_all(EndingDo(ProbeDue))
  /\ \A i \in Signals : WF_all(EndingDo(DrainFires(i))) /\ WF_all(EndingDo(DeadlineFires(i)))

ServerSpec == ServerInit /\ [][ServerNext]_all /\ ServerFairness
-----------------------------------------------------------------------------
\* StoreSound, StoreKeepsPromise, LimiterJust, SocketsSound and ShutdownSound are
\* those of the extended modules.

\* Rooms (rooms.ts).  createRoom and joinRoom: a retry counts once but for lost
\* receipts, who was told to be in has a seat, nobody has one in a removed room,
\* and an invite that was handed out is found while its room exists.  A room
\* whose members leave it, down to the last, stays sound and keeps its promise.
\* maybeScheduleDemo and maybeScheduleTrickAdvance: a bot that is awaited has a
\* timer, and the server moves a table on only in the very trick result it armed
\* its timer for.
EntryAndTimersSound ==
  /\ [][part = "leavers" => Leavers!StoreSound' /\ [Leavers!Room!Next]_(Leavers!Room!vars)]_all
  /\ [][part = "new" => (NewRoom!TypeOK /\ NewRoom!RetryCountsOnce /\ NewRoom!JoinedIsSeated /\ NewRoom!NoSeatInRemovedRoom)']_all
  /\ [][part = "old" => (OldRoom!TypeOK /\ OldRoom!RetryCountsOnce /\ OldRoom!JoinedIsSeated /\ OldRoom!NoSeatInRemovedRoom)']_all
  /\ [][part = "new" => NewRoom!Finds]_all /\ [][part = "old" => OldRoom!Finds]_all
  /\ [][part = "timers" => (Timers!TypeOK /\ Timers!BotsHaveTimer)' /\ Timers!OwnTrick]_all
  /\ [][part = "slow" => (Slow!TypeOK /\ Slow!BotsHaveTimer)' /\ Slow!OwnTrick]_all

\* What somebody waits for: an answer; a bot's move (the turn flips, and one half
\* stands for the other), unless a failed leave has stopped the timers; the next
\* trick, unless something failed; an open socket its authentication and a dead
\* one its end; the process its exit after a signal.
Awaited ==
  CASE part = "leavers" -> \E c \in LeaverCalls : x4[c] \in Leavers!Underway
    [] part = "resent"  -> \E c \in ResentCalls : at[c] \in Underway
    [] part = "new"     -> \E c \in NewCalls : x12[c] \in NewRoom!Underway
    [] part = "old"     -> \E c \in OldCalls : x12[c] \in OldRoom!Underway
    [] part = "timers"  -> Timers!BotAwaited /\ x3 = 0
    [] part = "slow"    -> Slow!TrickAwaited
    [] part = "sockets" -> \E s \in Sockets : Unsettled(s)
    [] part = "ending"  -> Ending
    [] OTHER            -> FALSE

\* Whatever fails, is evicted or restarted, and with nothing assumed of the
\* players but that a room that fell out of memory is asked for again: nothing is
\* awaited for ever.
ServerGoesOn == Awaited ~> ~Awaited
=============================================================================
