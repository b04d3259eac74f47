---------------------------- MODULE TrickFallback ----------------------------
(* The clocks behind a finished trick in the Supabase mode: App arms a timer  *)
(* for the snapshot it shows and arms it anew for every snapshot that takes   *)
(* its place, while the poll of the service and the interval of App fetch     *)
(* snapshots of the same state.  One screen of a room in which nobody else    *)
(* acts; a tick is half a second.                                             *)
EXTENDS Integers

CONSTANTS Delay,         \* of the timer: 5 ticks for the winner, 8 for the others
          PollTicks,     \* POLL_INTERVAL, which is also the silence the poll waits for
          IntervalTicks, \* between two refreshes by App
          MaxLatency     \* bound on the ticks a snapshot takes to arrive

FallbackAssumption == {Delay, PollTicks, IntervalTicks, MaxLatency} \subseteq Nat \ {0}

VARIABLES seen,      \* the screen shows the finished trick
          advanced,  \* it has sent advance_trick
          timer,     \* ticks left of the armed timer, or Unarmed
          poll, interval,  \* ticks until the poll and App's refresh
          silence,   \* ticks since the last broadcast, as far as the poll minds
          reply      \* ticks a snapshot has been on its way, or Unarmed

vars == <<seen, advanced, timer, poll, interval, silence, reply>>
Unarmed == -1
-----------------------------------------------------------------------------
\* The trick has just been finished; the clocks stand anywhere.
Init ==
  /\ seen = FALSE /\ advanced = FALSE /\ timer = Unarmed /\ reply = Unarmed
  /\ poll \in 1..PollTicks /\ interval \in 1..IntervalTicks /\ silence \in 0..PollTicks

\* A screen that hears of it by broadcast, which is a sign of life; it need not.
Hear ==
  /\ ~seen /\ seen' = TRUE
  /\ timer' = Delay /\ silence' = 0
  /\ UNCHANGED <<advanced, poll, interval, reply>>

\* What is due happens before more time passes.
Tick ==
  /\ 0 \notin {timer, poll, interval} /\ reply < MaxLatency
  /\ timer' = IF timer = Unarmed THEN Unarmed ELSE timer - 1
  /\ poll' = poll - 1 /\ interval' = interval - 1
  /\ silence' = IF silence < PollTicks THEN silence + 1 ELSE silence
  /\ reply' = IF reply = Unarmed THEN Unarmed ELSE reply + 1
  /\ UNCHANGED <<seen, advanced>>

\* The poll fetches a snapshot unless a broadcast was heard within its interval.
PollFires ==
  /\ poll = 0 /\ poll' = PollTicks
  /\ reply' = IF silence >= PollTicks /\ reply = Unarmed THEN 0 ELSE reply
  /\ UNCHANGED <<seen, advanced, timer, interval, silence>>

\* App's refresh, as if its cache were never fresh.
IntervalFires ==
  /\ interval = 0 /\ interval' = IntervalTicks
  /\ reply' = IF reply = Unarmed THEN 0 ELSE reply
  /\ UNCHANGED <<seen, advanced, timer, poll, silence>>

\* The snapshot arrives.  Its revision is not lower than the one shown, so it
\* takes its place, and the effect that depends on it arms the timer anew.
Arrive ==
  /\ reply > 0 /\ reply' = Unarmed
  /\ seen' = TRUE
  /\ timer' = IF advanced THEN Unarmed ELSE Delay
  /\ UNCHANGED <<advanced, poll, interval, silence>>

Fire ==
  /\ timer = 0 /\ timer' = Unarmed /\ advanced' = TRUE
  /\ UNCHANGED <<seen, poll, interval, silence, reply>>

Next == Hear \/ Tick \/ PollFires \/ IntervalFires \/ Arrive \/ Fire

\* Time passes and what is due happens; snapshots take as long as they take.
Spec == Init /\ [][Next]_vars /\ WF_vars(Next)
-----------------------------------------------------------------------------
TypeOK ==
  /\ {seen, advanced} \subseteq BOOLEAN /\ timer \in Unarmed..Delay /\ poll \in 0..PollTicks
  /\ interval \in 0..IntervalTicks /\ silence \in 0..PollTicks /\ reply \in Unarmed..MaxLatency

\* A screen that shows a finished trick and has not moved it on: not for ever,
\* although the snapshots fetched meanwhile put its timer off (App.tsx:283-288).
Unmoved == seen /\ ~advanced
=============================================================================
