------------------------------- MODULE Shutdown -------------------------------
(* How the server goes down: index.ts calls close() of app.ts on SIGTERM and  *)
(* on SIGINT, perhaps on both; each call runs its own timers.  Between the    *)
(* first signal and the end of the process the load balancer is to look away, *)
(* requests are to be answered, and nothing may hold the end up.              *)
EXTENDS Naturals, FiniteSets

CONSTANTS Conns,      \* HTTP connections
          Webs,       \* web sockets
          Signals,    \* the signals that may come, a call of close() for each
          Drain,      \* SHUTDOWN_DRAIN_MS, in ticks
          Deadline,   \* SHUTDOWN_DEADLINE_MS
          Grace,      \* SHUTDOWN_GRACE_MS
          Probe,      \* how often the load balancer probes /healthz
          MaxClock    \* bound on the clock: no signal comes too late to be followed to the end

ASSUME ShutdownAssumption ==
  /\ IsFiniteSet(Conns) /\ IsFiniteSet(Webs) /\ IsFiniteSet(Signals)
  /\ Drain \in Nat /\ Deadline \in Nat /\ Grace \in Nat /\ Probe \in Nat \ {0} /\ MaxClock \in Nat
  \* index.ts:12: the drain lasts two intervals of the probe, the deadline is later.
  /\ Probe < Drain /\ Drain < Deadline /\ Deadline < Grace

VARIABLES clock,
          called,     \* the calls of close()
          since,      \* when each was called
          step,       \* "drain": its drain timer runs; "http": it waits for the server
                      \* to close; "pool": for the pool; "done": it has resolved
          expired,    \* the calls whose deadline has passed unresolved
          healthy,    \* what /healthz answers: not shuttingDown
          listening,  \* the server accepts connections
          conn,       \* "none", "idle", "busy", or "gone"
          cut,        \* requests that were never answered
          web,        \* "open", "closing", or "gone"
          pool,       \* of database connections: "open", "ending", "ended", or "none"
          routed,     \* the load balancer sends new clients here
          probed,     \* ticks since it probed
          exited      \* the process has ended

shutdownVars == <<clock, called, since, step, expired, healthy, listening, conn, cut, web, pool, routed, probed, exited>>
net == <<listening, conn, cut, web>>
balancer == <<routed, probed>>

Pending(i) == i \in called /\ step[i] # "done"
\* Mutant: the door is closed at once.
DrainDue_AtOnce(i) == i \in called /\ step[i] = "drain"

DrainDue(i) == i \in called /\ step[i] = "drain" /\ clock >= since[i] + Drain
DeadlineDue(i) == Pending(i) /\ i \notin expired /\ clock >= since[i] + Deadline
GraceDue == \E i \in called : clock >= since[i] + Grace
-----------------------------------------------------------------------------
ShutdownInit ==
  /\ clock = 0 /\ called = {} /\ since = [i \in Signals |-> 0]
  /\ step = [i \in Signals |-> "drain"] /\ expired = {}
  /\ healthy = TRUE /\ listening = TRUE
  /\ conn = [c \in Conns |-> "none"] /\ cut = {}
  \* With files; or with a database, and no upgrades to web sockets.
  /\ \/ pool = "none" /\ web = [w \in Webs |-> "open"]
     \/ pool = "open" /\ web = [w \in Webs |-> "gone"]
  /\ routed = TRUE /\ probed = 0 /\ exited = FALSE

\* (a) A signal: close() is called, and health goes first.
Signal(i) ==
  /\ ~exited /\ i \notin called /\ clock + Grace <= MaxClock
  /\ called' = called \cup {i} /\ since' = [since EXCEPT ![i] = clock]
  /\ healthy' = FALSE
  /\ UNCHANGED <<clock, step, expired, net, pool, balancer, exited>>

\* (b) Close frames to the web sockets, idle connections dropped, server.close.
StopListening ==
  /\ listening' = FALSE
  /\ conn' = [c \in Conns |-> IF conn[c] = "idle" THEN "gone" ELSE conn[c]]
  /\ web' = [w \in Webs |-> IF web[w] = "open" THEN "closing" ELSE web[w]]
  /\ UNCHANGED cut

DrainFires(i) ==
  /\ ~exited /\ DrainDue(i)
  /\ StopListening
  /\ step' = [step EXCEPT ![i] = "http"]
  /\ UNCHANGED <<clock, called, since, expired, healthy, pool, balancer, exited>>

\* The server is closed: it listens no more and no connection is left, web
\* sockets among them.
ServerClosed == ~listening /\ \A c \in Conns : conn[c] \in {"none", "gone"} /\ \A w \in Webs : web[w] = "gone"

\* (c) The callback of server.close ends the pool, or the call.
HttpClosed(i) ==
  /\ ~exited /\ step[i] = "http" /\ ServerClosed
  /\ pool' = IF pool = "open" THEN "ending" ELSE pool
  /\ step' = [step EXCEPT ![i] = IF pool = "none" THEN "done" ELSE "pool"]
  /\ UNCHANGED <<clock, called, since, expired, healthy, net, balancer, exited>>

\* The pool has ended, for all who wait for it.
PoolEnds ==
  /\ ~exited /\ pool = "ending"
  /\ pool' = "ended"
  /\ step' = [i \in Signals |-> IF step[i] = "pool" THEN "done" ELSE step[i]]
  /\ UNCHANGED <<clock, called, since, expired, healthy, net, balancer, exited>>

\* A second call finds it ended.
PoolHasEnded(i) ==
  /\ ~exited /\ step[i] = "pool" /\ pool = "ended"
  /\ step' = [step EXCEPT ![i] = "done"]
  /\ UNCHANGED <<clock, called, since, expired, healthy, net, pool, balancer, exited>>

DeadlineStep(i) == "done"

\* (d) Past the deadline everything is closed by force, and the call resolves.
DeadlineFires(i) ==
  /\ ~exited /\ DeadlineDue(i)
  /\ listening' = FALSE
  /\ conn' = [c \in Conns |-> IF conn[c] = "none" THEN "none" ELSE "gone"]
  /\ cut' = cut \cup {c \in Conns : conn[c] = "busy"}
  /\ web' = [w \in Webs |-> "gone"]
  /\ pool' = IF pool = "open" THEN "ending" ELSE pool
  /\ step' = [step EXCEPT ![i] = DeadlineStep(i)]
  /\ expired' = expired \cup {i}
  /\ UNCHANGED <<clock, called, since, healthy, balancer, exited>>

\* A new client is sent here, or an idle connection asks again.
Request(c) ==
  /\ ~exited
  /\ \/ conn[c] = "none" /\ listening
     \/ conn[c] = "idle"
  /\ conn' = [conn EXCEPT ![c] = "busy"]
  /\ UNCHANGED <<clock, called, since, step, expired, healthy, listening, cut, web, pool, balancer, exited>>

\* The request is answered; the connection is kept for the next one.
AnswerRequest(c) ==
  /\ ~exited /\ conn[c] = "busy"
  /\ conn' = [conn EXCEPT ![c] = "idle"]
  /\ UNCHANGED <<clock, called, since, step, expired, healthy, listening, cut, web, pool, balancer, exited>>

\* The client hangs up, or the keep-alive timer does.
HangUp(c) ==
  /\ ~exited /\ conn[c] = "idle"
  /\ conn' = [conn EXCEPT ![c] = "gone"]
  /\ UNCHANGED <<clock, called, since, step, expired, healthy, listening, cut, web, pool, balancer, exited>>

\* A web socket ends; a dead peer's does not by itself.
WebEnds(w) ==
  /\ ~exited /\ web[w] # "gone"
  /\ web' = [web EXCEPT ![w] = "gone"]
  /\ UNCHANGED <<clock, called, since, step, expired, healthy, listening, conn, cut, pool, balancer, exited>>

\* The load balancer asks /healthz and believes the answer.
ProbeHealth ==
  /\ ~exited
  /\ routed' = (healthy /\ listening) /\ probed' = 0
  /\ UNCHANGED <<clock, called, since, step, expired, healthy, net, pool, exited>>

\* The process ends when the grace period is over, or when nothing is left to
\* wait for.
Exit ==
  /\ ~exited
  /\ \/ GraceDue
     \/ /\ ServerClosed /\ pool \in {"none", "ended"} /\ \A i \in called : step[i] = "done"
        /\ called # {}
  /\ exited' = TRUE
  /\ UNCHANGED <<clock, called, since, step, expired, healthy, net, pool, balancer>>

\* Time passes, but no timer is late and no probe is left out.
ClockTick ==
  /\ clock < MaxClock /\ ~exited
  /\ ~GraceDue /\ probed < Probe
  /\ \A i \in Signals : ~DrainDue(i) /\ ~DeadlineDue(i)
  /\ clock' = clock + 1 /\ probed' = probed + 1
  /\ UNCHANGED <<called, since, step, expired, healthy, net, pool, routed, exited>>

ShutdownTimers == ClockTick \/ ProbeHealth \/ Exit \/ \E i \in Signals : DrainFires(i) \/ HttpClosed(i) \/ PoolHasEnded(i) \/ DeadlineFires(i)
ProbeDue == probed = Probe /\ ProbeHealth
ShutdownNext ==
  \/ ShutdownTimers \/ PoolEnds
  \/ \E i \in Signals : Signal(i)
  \/ \E c \in Conns : Request(c) \/ AnswerRequest(c) \/ HangUp(c)
  \/ \E w \in Webs : WebEnds(w)

\* Time passes and timers fire.  Nothing is assumed of clients, of handlers or
\* of the database.
ShutdownFairness ==
  /\ WF_shutdownVars(ClockTick) /\ WF_shutdownVars(Exit) /\ WF_shutdownVars(ProbeDue)
  /\ \A i \in Signals : WF_shutdownVars(DrainFires(i)) /\ WF_shutdownVars(DeadlineFires(i))
ShutdownSpec == ShutdownInit /\ [][ShutdownNext]_shutdownVars /\ ShutdownFairness
-----------------------------------------------------------------------------
ShutdownTypeOK ==
  /\ clock \in 0..MaxClock /\ called \subseteq Signals /\ since \in [Signals -> 0..MaxClock]
  /\ step \in [Signals -> {"drain", "http", "pool", "done"}] /\ expired \subseteq called
  /\ healthy \in BOOLEAN /\ listening \in BOOLEAN /\ exited \in BOOLEAN /\ routed \in BOOLEAN
  /\ conn \in [Conns -> {"none", "idle", "busy", "gone"}] /\ cut \subseteq Conns
  /\ web \in [Webs -> {"open", "closing", "gone"}]
  /\ pool \in {"none", "open", "ending", "ended"} /\ probed \in 0..Probe

\* "taking this container out of rotation at its very next probe, while every
\* other route keeps being served": nobody is sent to a server that refuses.
NobodyRefused == routed /\ ~exited => listening

\* "In-flight requests are never cut by this": only a deadline cuts one, be it
\* that of a second signal's close().
OnlyDeadlineCuts == cut # {} => expired # {}

\* "Only after the HTTP server has actually finished closing": no handler loses
\* its database under its feet, unless a deadline had passed.
PoolOutlivesHandlers ==
  pool \in {"ending", "ended"} /\ expired = {} => \A c \in Conns : conn[c] # "busy"

\* "Hard cap on the whole close() sequence": a call has resolved when its
\* deadline is over, whatever requests, sockets or the pool do.
ResolvesInTime == \A i \in called : clock > since[i] + Deadline => step[i] = "done"

\* What close() promises of the end, whichever signals come and whoever hangs on.
ShutdownSound ==
  /\ ShutdownTypeOK /\ NobodyRefused /\ OnlyDeadlineCuts
  /\ PoolOutlivesHandlers /\ ResolvesInTime

\* A signal has come and the process has not ended.
Ending == called # {} /\ ~exited
=============================================================================
