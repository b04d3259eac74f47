----------------------------- MODULE StoreTimers ------------------------------
(* The two timers of one room: the one that plays for the demo crew, and the   *)
(* one that moves the table on after a trick when nobody does.                *)
(* The game is kept as what the timers look at: who the table waits for and    *)
(* whether a restart is being voted on.  A timer remembers a revision only to  *)
(* compare it with the present one, so it is kept as "fresh" (the same), "same"*)
(* (another revision of the same trick result) or "old" (that trick is over).  *)
(* Handlers of one room run one at a time (RoomStore); the only one whose      *)
(* inside matters here is leaveRoom, which stops the timers before it knows    *)
(* whether anybody leaves.                                                    *)
EXTENDS Naturals, FiniteSets

CONSTANTS Bumps,      \* TRUE: somebody may join, or a command change no trick, while one is shown
          Quick,      \* TRUE: a trick may end before the timer of an earlier one has run out
          MaxLeaves,  \* bound on calls of leaveRoom
          MaxFaults,  \* bound on refused leaves, failed writes and crashes
          MaxSteps    \* bound on steps of the demo crew that wait for the queue

TimersAssumption ==
  Bumps \in BOOLEAN /\ Quick \in BOOLEAN /\ {MaxLeaves, MaxFaults, MaxSteps} \subseteq Nat

VARIABLES phase,     \* whom the table waits for: "human", "bot", "trick" or "over"
          vote,      \* "no", or whose approval a restart waits for: "bots", "people"
          turn,      \* flips with every change of the game
          alive,     \* the room has a file
          cached,    \* the room is in memory
          leaving,   \* a leave is between its first step and its end
          demo,      \* the demo timer is armed
          steps,     \* steps of the demo crew that wait for the queue
          trick,     \* the trick timer: "off" or what it remembers
          advances,  \* advances that wait for the queue, as what they remember
          stopped,   \* a leave that failed has stopped the timers
          leaves, faults

game == <<phase, vote, turn>>
timers == <<demo, trick>>
waiting == <<steps, advances>>
vars == <<phase, vote, turn, alive, cached, leaving, demo, steps, trick, advances, stopped, leaves, faults>>

Ages == {"fresh", "same", "old"}

\* pendingDemoActor: some bot has a command to give.
BotsPending(p, v) == v = "bots" \/ (v = "no" /\ p = "bot")

-----------------------------------------------------------------------------
Init ==
  /\ phase = "over" /\ vote = "no" /\ turn = 0
  /\ alive = TRUE /\ cached = TRUE /\ leaving = FALSE
  /\ demo = FALSE /\ steps = 0
  /\ trick = "off" /\ advances = {}
  /\ stopped = FALSE /\ leaves = 0 /\ faults = 0

\* Every change of the game ages what the trick timer and the advances remember.
Age(a, over) == IF a = "off" THEN "off" ELSE IF over THEN "old"
                ELSE IF a = "fresh" THEN "same" ELSE a

\* maybeScheduleDemo on a game, given whether the timer is armed.
Armed(d, p, v) == d \/ BotsPending(p, v)

\* maybeScheduleTrickAdvance on a game, given what the timer remembers.
TrickArmed(t, p, v) ==
  IF v # "no" THEN "off"
  ELSE IF p # "trick" \/ t # "off" THEN t
  ELSE "fresh"

\* A handler has changed the game to p, v: the timer memories age, the handler
\* schedules what it calls for, with d and t the timers as it found them.
Changed(p, v, over, d, t, schedulesTrick) ==
  /\ phase' = p /\ vote' = v /\ turn' = 1 - turn
  /\ demo' = Armed(d, p, v)
  /\ trick' = IF schedulesTrick THEN TrickArmed(Age(t, over), p, v) ELSE Age(t, over)
  /\ stopped' = FALSE

\* What one command makes of the game: of a person, of a bot, of either.
PersonMoves ==
  IF vote = "people" THEN {<<phase, "no">>, <<"human", "no">>, <<"bot", "no">>, <<phase, "bots">>}
  ELSE IF vote = "bots" THEN {<<phase, "no">>}
  ELSE (CASE phase = "human" -> {"human", "bot", "trick", "over"} \X {"no"}
          [] phase = "trick" -> {"human", "bot", "over"} \X {"no"}
          [] phase = "bot"   -> {<<"bot", "no">>}
          [] phase = "over"  -> {"over", "human", "bot"} \X {"no"})
       \cup (IF phase = "over" THEN {} ELSE {phase} \X {"bots", "people"})
BotMoves ==
  IF vote = "bots" THEN {<<phase, "people">>, <<phase, "bots">>, <<"human", "no">>, <<"bot", "no">>}
  ELSE {"human", "bot", "trick", "over"} \X {"no"}
\* A move from trick to trick stays in the result that is shown.
Over(m) == phase = "trick" /\ m[1] # "trick"
\* The table may not end a trick while an old timer runs, unless it is quick.
InTime(m) == m[1] = "trick" /\ phase # "trick" => Quick \/ (trick = "off" /\ advances = {})

Aged(over) == advances' = {Age(a, over) : a \in advances}

Ready == alive /\ cached /\ ~leaving

-----------------------------------------------------------------------------
\* command(): a person's command is applied and saved, both timers scheduled.
Command ==
  /\ Ready
  /\ \E m \in PersonMoves :
       /\ InTime(m)
       /\ Changed(m[1], m[2], Over(m), demo, trick, TRUE)
       /\ Aged(Over(m))
  /\ UNCHANGED <<alive, cached, leaving, steps, leaves, faults>>

\* A command that leaves the trick result as it is, a change of the waiting
\* policy or of a view, raises the revision all the same.
Bump ==
  /\ Bumps /\ Ready /\ phase = "trick"
  /\ Changed(phase, vote, FALSE, demo, trick, TRUE) /\ Aged(FALSE)
  /\ UNCHANGED <<alive, cached, leaving, steps, leaves, faults>>

\* joinRoom raises the revision and schedules nothing.
Join ==
  /\ Bumps /\ Ready
  /\ turn' = 1 - turn
  /\ trick' = Age(trick, FALSE) /\ Aged(FALSE)
  /\ UNCHANGED <<phase, vote, alive, cached, leaving, demo, steps, stopped, leaves, faults>>

\* leaveRoom stops both timers and goes on to its first await.
Leave ==
  /\ Ready /\ leaves < MaxLeaves
  /\ leaves' = leaves + 1
  /\ leaving' = TRUE /\ demo' = FALSE /\ trick' = "off"
  /\ UNCHANGED <<game, alive, cached, waiting, stopped, faults>>

\* A member of the crew leaves and the cards are dealt anew or the crew goes
\* back to the lobby; or one who only watched, and the game stays as it is.
Left ==
  /\ leaving
  /\ leaving' = FALSE
  /\ \E m \in {<<phase, vote>>, <<"human", "no">>, <<"bot", "no">>, <<"over", "no">>} :
       /\ Changed(m[1], m[2], Over(m), demo, trick, TRUE)
       /\ Aged(Over(m))
  /\ UNCHANGED <<alive, cached, steps, leaves, faults>>

\* Nobody is left.
LastLeft ==
  /\ leaving
  /\ leaving' = FALSE /\ alive' = FALSE /\ cached' = FALSE
  /\ UNCHANGED <<game, timers, waiting, stopped, leaves, faults>>

\* removePlayer refuses, or the record cannot be saved: the timers stay stopped.
LeaveFails ==
  /\ leaving /\ faults < MaxFaults
  /\ faults' = faults + 1
  /\ leaving' = FALSE /\ stopped' = TRUE
  /\ UNCHANGED <<game, alive, cached, timers, waiting, leaves>>

-----------------------------------------------------------------------------
\* The room is read in: its timers are scheduled.
Loaded == IF cached THEN <<demo, trick>> ELSE <<Armed(demo, phase, vote), TrickArmed(trick, phase, vote)>>

\* Any request for a room that is not in memory.
Touch ==
  /\ alive /\ ~cached /\ ~leaving
  /\ cached' = TRUE /\ demo' = Loaded[1] /\ trick' = Loaded[2] /\ stopped' = FALSE
  /\ UNCHANGED <<game, alive, leaving, waiting, leaves, faults>>

\* The demo timer fires and its step queues up for the room.
DemoFires ==
  /\ demo /\ steps < MaxSteps
  /\ demo' = FALSE /\ steps' = steps + 1
  /\ UNCHANGED <<game, alive, cached, leaving, trick, advances, stopped, leaves, faults>>

\* runDemoStep: a bot that is still awaited gives its command.
DemoStep ==
  /\ steps > 0 /\ alive /\ ~leaving
  /\ steps' = steps - 1 /\ cached' = TRUE
  /\ IF BotsPending(phase, vote)
     THEN \E m \in BotMoves :
            /\ InTime(m)
            /\ Changed(m[1], m[2], Over(m), Loaded[1], Loaded[2], TRUE)
            /\ Aged(Over(m))
     ELSE /\ demo' = Loaded[1] /\ trick' = Loaded[2]
          /\ UNCHANGED <<game, advances, stopped>>
  /\ UNCHANGED <<alive, leaving, leaves, faults>>

\* The step fails, in a room that is gone or for want of a disk: it is armed
\* again, after a longer while each time.
DemoStepFails ==
  /\ steps > 0 /\ ~leaving
  /\ IF alive THEN faults < MaxFaults /\ faults' = faults + 1 ELSE UNCHANGED faults
  /\ steps' = steps - 1 /\ demo' = TRUE
  /\ UNCHANGED <<game, alive, cached, leaving, trick, advances, stopped, leaves>>

\* The trick timer fires and its advance queues up for the room.
TrickFires ==
  /\ trick # "off"
  /\ trick' = "off" /\ advances' = advances \cup {trick}
  /\ UNCHANGED <<game, alive, cached, leaving, demo, steps, stopped, leaves, faults>>

\* Mutant: the advance does not ask for which revision it was meant.
StillMeant_Any(a) == vote = "no" /\ phase = "trick"

\* The game is as it was when the timer was armed.
StillMeant(a) == vote = "no" /\ phase = "trick" /\ a = "fresh"

\* autoAdvanceTrick: the server moves the table on, unless the game has moved.
AutoAdvance(a) ==
  /\ a \in advances /\ alive /\ ~leaving
  /\ cached' = TRUE
  /\ IF StillMeant(a)
     THEN \E p \in {"human", "bot", "over"} :
            /\ Changed(p, "no", TRUE, Loaded[1], Loaded[2], FALSE)
            /\ advances' = {Age(b, TRUE) : b \in advances \ {a}}
     ELSE /\ demo' = Loaded[1] /\ trick' = Loaded[2] /\ advances' = advances \ {a}
          /\ UNCHANGED <<game, stopped>>
  /\ UNCHANGED <<alive, leaving, steps, leaves, faults>>

\* The advance fails, in a room that is gone or for want of a disk, silently.
AdvanceFails(a) ==
  /\ a \in advances /\ ~leaving
  /\ IF alive THEN faults < MaxFaults /\ faults' = faults + 1 ELSE UNCHANGED faults
  /\ advances' = advances \ {a}
  /\ UNCHANGED <<game, alive, cached, leaving, timers, steps, stopped, leaves>>

\* sweepIdleRooms spares a room with a demo timer, not one with a trick timer.
Evict ==
  /\ cached /\ ~demo /\ ~leaving
  /\ cached' = FALSE
  /\ UNCHANGED <<game, alive, leaving, timers, waiting, stopped, leaves, faults>>

\* The process ends and is started again: no timer survives.
Crash ==
  /\ faults < MaxFaults /\ faults' = faults + 1
  /\ cached' = FALSE /\ leaving' = FALSE /\ stopped' = FALSE
  /\ demo' = FALSE /\ trick' = "off" /\ steps' = 0 /\ advances' = {}
  /\ UNCHANGED <<game, alive, leaves>>

Advance == \E a \in Ages : AutoAdvance(a)
LeaveEnds == Left \/ LastLeft \/ LeaveFails
Next ==
  \/ Command \/ Bump \/ Join \/ Leave \/ LeaveEnds
  \/ Touch \/ DemoFires \/ DemoStep \/ DemoStepFails
  \/ TrickFires \/ Advance \/ (\E a \in Ages : AdvanceFails(a))
  \/ Evict \/ Crash

\* Timers fire, the queue is served, and the clients of a room that fell out of
\* memory ask for it again; nobody is obliged to play.
Fairness ==
  /\ WF_vars(DemoFires) /\ WF_vars(DemoStep \/ DemoStepFails)
  /\ WF_vars(TrickFires) /\ WF_vars(Advance)
  /\ WF_vars(LeaveEnds) /\ WF_vars(Touch)
Spec == Init /\ [][Next]_vars /\ Fairness

-----------------------------------------------------------------------------
TypeOK ==
  /\ phase \in {"human", "bot", "trick", "over"} /\ vote \in {"no", "bots", "people"}
  /\ trick \in Ages \cup {"off"} /\ advances \subseteq Ages
  /\ steps \in 0..MaxSteps
  /\ {alive, cached, leaving, demo, stopped} \subseteq BOOLEAN

\* While a bot is awaited in a room in memory, its timer is armed or its step is
\* queued, unless a leave that failed has stopped the timers.
BotsHaveTimer ==
  alive /\ cached /\ ~leaving /\ BotsPending(phase, vote) /\ ~stopped =>
    demo \/ steps > 0

\* The server moves a table on only in the very result it armed its timer for:
\* who advances first wins, and the timer of one trick never cuts the next.
OwnTrick == \A a \in Ages : AutoAdvance(a) /\ turn' # turn => a # "old" /\ vote = "no"

\* The table waits for a bot, except after a leave that failed.
BotAwaited == alive /\ BotsPending(phase, vote) /\ ~stopped

\* "if nobody does, the server itself moves the game on after a short pause so a
\* slow/idle player doesn't stall the whole table": it stands at a trick result.
TrickAwaited == alive /\ phase = "trick" /\ vote = "no" /\ ~stopped /\ faults = 0
=============================================================================
