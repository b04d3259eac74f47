------------------------------ MODULE CrewRoom ------------------------------
(***************************************************************************)
(* The life of one room of Space Crew, as the engine keeps it in State     *)
(* (src/src/game/engine.ts): who sits in the crew, who waits for a seat,   *)
(* who watches, who is host, which mission and attempt are running, and    *)
(* the votes and flags that move people between the three lists.           *)
(*                                                                         *)
(* One action per HTTP route or command that changes this state.  The      *)
(* cards, the goals and the preparation stages are abstracted to the       *)
(* phases they move the room through.  A person is a model value; the      *)
(* seat order inside a list is data, so where the code takes the first     *)
(* member of a list the model takes any member of it.                      *)
(***************************************************************************)
EXTENDS Integers, FiniteSets

CONSTANTS
  Humans,       \* people who may join through the invite link
  Bots,         \* identities for demo crew (isDemo)
  Capacities,   \* room sizes the contract allows: {3, 4, 5}
  LastMission,  \* missions are numbered 1..LastMission, all playable
  AttemptIds,   \* identities for attempts; only "fresh or not" is observable
  None          \* the null of attemptId

MinCrew == 3

ASSUME RoomAssumption ==
  /\ IsFiniteSet(Humans)
  /\ IsFiniteSet(Bots)
  /\ Humans \cap Bots = {}
  /\ Capacities \subseteq Nat
  /\ \A c \in Capacities : c >= MinCrew
  /\ LastMission \in Nat \ {0}
  /\ None \notin AttemptIds

People   == Humans \cup Bots
Missions == 1 .. LastMission
\* startMission, which a random room never reads, stays 1 there.
Settings == [capacity : Capacities, mode : {"sequential"}, start : Missions]
            \cup [capacity : Capacities, mode : {"random"}, start : {1}]

VARIABLES
  phase,       \* State.phase
  players,     \* the seated crew
  waiting,     \* waitingPlayers: joined during a mission, not yet seated
  spectators,  \* watching, no seat
  host,        \* hostId
  ready,       \* players with ready = true
  briefed,     \* players with briefingReady = true
  leaving,     \* players with spectateNextMission = true
  approvals,   \* restartVote.approvals; empty when restartVote is null
  policy,      \* waitingPolicy
  settings,    \* the part of RoomSettings the rules read
  mission,     \* missionId; 0 for null
  drawn,       \* drawnMissionIds
  attempt      \* attemptId

seats == <<players, waiting, spectators, host>>
flags == <<ready, briefed, leaving, approvals>>
run   == <<mission, drawn, attempt>>
vars  == <<phase, seats, flags, policy, settings, run>>

InProgress == {"briefing", "preparation", "task_selection", "playing", "trick_result"}
Ended      == {"success", "failure"}
Phases     == InProgress \cup Ended \cup {"lobby", "campaign_complete"}

Members    == players \cup waiting \cup spectators
Occupied   == Cardinality(players) + Cardinality(waiting)
VoteOpen   == approvals # {}

\* Mutant: the seats promised to those waiting are not counted.
HasSeat_WaitingNotCounted == Cardinality(players) < settings.capacity
HasSeat == Occupied < settings.capacity

-----------------------------------------------------------------------------
(* Parts that several operations share.                                    *)

\* hostCandidates: seated crew first, then those waiting, then those watching.
HostCandidates(crew, queue, watchers) ==
  IF crew # {} THEN crew ELSE IF queue # {} THEN queue ELSE watchers

\* The host after the people in gone have given up their seat or their place.
\* With nobody else to take over, the host stays (hostId ?? playerId).
HostAfter(gone, crew, queue, watchers) ==
  IF host \in gone /\ HostCandidates(crew, queue, watchers) # {}
  THEN HostCandidates(crew, queue, watchers)
  ELSE {host}

\* promoteWaiting clears the policy only when there was somebody to seat.
PromotedPolicy == IF waiting = {} THEN policy ELSE "none"

SeatWaiting ==
  /\ waiting' = {}
  /\ policy'  = PromotedPolicy

\* applyScheduledSpectators: who moves to the bench, and who keeps a seat.
\* Mutants: those not ready are benched too; the host is not.
Scheduled_NotReady(crew) == {p \in crew : p \in leaving \/ p \notin ready}
Scheduled_NotHost(crew) == (crew \cap leaving) \ {host}
Scheduled(crew) == crew \cap leaving
Stayers(crew) == crew \ Scheduled(crew)

\* The size check of begin, once the spectators have moved.
EnoughCrew(crew) == Cardinality(Stayers(crew)) >= MinCrew

\* attemptId = crypto.randomUUID().
FreshAttempt == AttemptIds \ {attempt}

\* ready = isDemo.
ReadyAgain(crew) == crew \cap Bots

\* begin: a fresh attempt at mission m.  crew is the seated crew it starts
\* from, left who has just been removed from the room.
Begin(m, crew, left) ==
  /\ EnoughCrew(crew)
  /\ players'    = Stayers(crew)
  /\ spectators' = spectators \cup Scheduled(crew)
  /\ host'       \in HostAfter(left \cup Scheduled(crew), Stayers(crew), {}, {})
  /\ ready'      = ready \cap Stayers(crew)
  /\ leaving'    = {}
  /\ briefed'    = {}
  /\ approvals'  = {}
  /\ phase'      = "briefing"
  /\ mission'    = m
  /\ drawn'      = drawn \cup {m}
  /\ attempt'    \in FreshAttempt

\* resetToLobby for the crew that is left.  The scheduled-spectator flags and
\* the missions already drawn survive it.
ResetToLobby(crew) ==
  /\ phase'     = "lobby"
  /\ mission'   = 0
  /\ attempt'   = None
  /\ players'   = crew
  /\ ready'     = ReadyAgain(crew)
  /\ briefed'   = {}
  /\ leaving'   = leaving \cap crew
  /\ approvals' = {}
  /\ UNCHANGED drawn

\* Person p no longer holds a seat: the flags go with the seat.
DropSeat(p) ==
  /\ players' = players \ {p}
  /\ ready'   = ready \ {p}
  /\ briefed' = briefed \ {p}
  /\ leaving' = leaving \ {p}

\* What every command but vote_restart asks of a seated actor.
Crew(a) == a \in players /\ ~VoteOpen
Host(a) == Crew(a) /\ a = host

-----------------------------------------------------------------------------
(* Membership.                                                             *)

\* POST /join: a seat in the lobby, the waiting list during a mission, and
\* the spectators' bench when every seat is taken.  An open vote is no bar.
Join(u) ==
  /\ u \in Humans \ Members
  /\ \/ /\ HasSeat /\ phase = "lobby"
        /\ players' = players \cup {u}
        /\ UNCHANGED <<waiting, spectators, policy>>
     \/ /\ HasSeat /\ phase # "lobby"
        /\ waiting' = waiting \cup {u}
        /\ policy'  = "prompt"
        /\ UNCHANGED <<players, spectators>>
     \/ /\ ~HasSeat
        /\ spectators' = spectators \cup {u}
        /\ UNCHANGED <<players, waiting, policy>>
  /\ UNCHANGED <<phase, host, flags, settings, run>>

\* POST /rooms/:id/demo-crew: the host fills the empty seats with ready bots.
FillDemoCrew(a, crew) ==
  /\ a \in Members
  /\ a = host
  /\ phase = "lobby"
  /\ crew \subseteq Bots \ players
  /\ crew # {}
  /\ Cardinality(players) + Cardinality(crew) = settings.capacity
  /\ players' = players \cup crew
  /\ ready'   = ready \cup crew
  /\ UNCHANGED <<phase, waiting, spectators, host, briefed, leaving, approvals,
                 policy, settings, run>>

\* become_spectator: at once in the lobby, otherwise a flag that is toggled
\* and takes effect when the next attempt begins.
BecomeSpectator(a) ==
  /\ Crew(a)
  /\ a \in Humans
  /\ \/ /\ phase = "lobby"
        /\ DropSeat(a)
        /\ spectators' = spectators \cup {a}
        /\ host' \in HostAfter({a}, players \ {a}, waiting, spectators)
        /\ UNCHANGED <<phase, waiting, approvals, policy, settings, run>>
     \/ /\ phase # "lobby"
        /\ leaving' = IF a \in leaving THEN leaving \ {a} ELSE leaving \cup {a}
        /\ UNCHANGED <<phase, seats, ready, briefed, approvals, policy, settings, run>>

\* join_as_player: a spectator asks for an empty seat.
\* Mutant: it is given at once, also during a mission.
JoinAsPlayer_AtOnce(a) ==
  /\ a \in spectators
  /\ ~VoteOpen
  /\ HasSeat
  /\ spectators' = spectators \ {a}
  /\ players' = players \cup {a}
  /\ UNCHANGED <<waiting, policy, phase, host, flags, settings, run>>
JoinAsPlayer(a) ==
  /\ a \in spectators
  /\ ~VoteOpen
  /\ HasSeat
  /\ spectators' = spectators \ {a}
  /\ \/ /\ phase = "lobby"
        /\ players' = players \cup {a}
        /\ UNCHANGED <<waiting, policy>>
     \/ /\ phase # "lobby"
        /\ waiting' = waiting \cup {a}
        /\ policy'  = "prompt"
        /\ UNCHANGED players
  /\ UNCHANGED <<phase, host, flags, settings, run>>

\* removePlayer on somebody who is still waiting for a seat.
LeaveQueue(a) ==
  /\ a \in waiting
  /\ waiting' = waiting \ {a}
  /\ UNCHANGED <<phase, players, spectators, host, flags, policy, settings, run>>

\* removePlayer on a spectator.
LeaveBench(a) ==
  /\ a \in spectators
  /\ spectators' = spectators \ {a}
  /\ host' \in HostAfter({a}, players, waiting, spectators \ {a})
  /\ UNCHANGED <<phase, players, waiting, flags, policy, settings, run>>

\* removePlayer on a seated player.  Outside the lobby the crew that is left
\* starts the mission afresh if it is large enough, otherwise those waiting
\* are seated and the room returns to the lobby.
LeaveCrew(a) ==
  /\ a \in players
  /\ \/ /\ phase = "lobby"
        /\ DropSeat(a)
        /\ host' \in HostAfter({a}, players \ {a}, waiting, spectators)
        /\ approvals' = {}
        /\ UNCHANGED <<phase, waiting, spectators, policy, settings, run>>
     \/ /\ phase # "lobby"
        /\ Cardinality(players \ {a}) >= MinCrew
        /\ Begin(mission, players \ {a}, {a})
        /\ UNCHANGED <<waiting, policy, settings>>
     \/ /\ phase # "lobby"
        /\ Cardinality(players \ {a}) < MinCrew
        /\ host' \in HostAfter({a}, players \ {a}, waiting, spectators)
        /\ SeatWaiting
        /\ ResetToLobby((players \ {a}) \cup waiting)
        /\ UNCHANGED <<spectators, settings>>

\* POST /rooms/:id/leave.  The last member's leave deletes the room and is
\* left to the store; bots never leave.
Leave(a) ==
  /\ a \in Humans
  /\ Members # {a}
  /\ LeaveQueue(a) \/ LeaveBench(a) \/ LeaveCrew(a)

-----------------------------------------------------------------------------
(* The lobby.                                                              *)

\* update_settings: everybody but the bots has to get ready again.
UpdateSettings(a, new) ==
  /\ Host(a)
  /\ phase = "lobby"
  /\ new.capacity >= Cardinality(players)
  /\ settings' = new
  /\ ready'    = ReadyAgain(players)
  /\ UNCHANGED <<phase, seats, briefed, leaving, approvals, policy, run>>

\* set_character: the choice itself is data, but it withdraws readiness.
SetCharacter(a) ==
  /\ Crew(a)
  /\ phase = "lobby"
  /\ ready' = ready \ {a}
  /\ UNCHANGED <<phase, seats, briefed, leaving, approvals, policy, settings, run>>

\* set_ready
SetReady(a, on) ==
  /\ Crew(a)
  /\ phase = "lobby"
  /\ ready' = IF on THEN ready \cup {a} ELSE ready \ {a}
  /\ UNCHANGED <<phase, seats, briefed, leaving, approvals, policy, settings, run>>

\* start_mission: a random room draws from all playable missions.
StartChoices == IF settings.mode = "random" THEN Missions ELSE {settings.start}

StartMission(a) ==
  /\ Host(a)
  /\ phase = "lobby"
  /\ Cardinality(players) >= MinCrew
  /\ Cardinality(players) <= settings.capacity
  /\ players \subseteq ready
  /\ \E m \in StartChoices : Begin(m, players, {})
  /\ UNCHANGED <<waiting, policy, settings>>

-----------------------------------------------------------------------------
(* The mission.                                                            *)

\* briefing_ready: the last one moves the room on to whatever advanceSetup
\* finds to do first.
EveryoneBriefed(a) == players \subseteq briefed \cup {a}

BriefingReady(a) ==
  /\ Crew(a)
  /\ phase = "briefing"
  /\ briefed' = briefed \cup {a}
  /\ phase' \in IF EveryoneBriefed(a)
                THEN {"preparation", "task_selection", "playing"}
                ELSE {"briefing"}
  /\ UNCHANGED <<seats, ready, leaving, approvals, policy, settings, run>>

\* request_distress before the first card sends the crew back to prepare.
RequestDistress(a) ==
  /\ Host(a)
  /\ phase = "playing"
  /\ phase' = "preparation"
  /\ UNCHANGED <<seats, flags, policy, settings, run>>

\* Any command of the preparation and of the task draft: it stays, or goes on
\* to the next stage, or opens the first trick.
Prepare(a) ==
  /\ Crew(a)
  /\ phase \in {"preparation", "task_selection"}
  /\ phase' \in {"preparation", "task_selection", "playing"}
  /\ UNCHANGED <<seats, flags, policy, settings, run>>

\* play_card: the last card of a trick decides it, perhaps the mission too.
\* When the mission ends, those who chose to wait for that are seated.
\* Mutant: failure is forgotten.
SeatAfterMission_SuccessOnly == phase' = "success" /\ policy = "after_mission"
SeatAfterMission == phase' \in Ended /\ policy = "after_mission"

PlayCard(a) ==
  /\ Crew(a)
  /\ phase = "playing"
  /\ phase' \in {"playing", "trick_result", "success", "failure"}
  /\ IF SeatAfterMission
     THEN players' = players \cup waiting /\ SeatWaiting
     ELSE UNCHANGED <<players, waiting, policy>>
  /\ UNCHANGED <<spectators, host, flags, settings, run>>

\* advance_trick
AdvanceTrick(a) ==
  /\ Crew(a)
  /\ phase = "trick_result"
  /\ phase' = "playing"
  /\ UNCHANGED <<seats, flags, policy, settings, run>>

\* request_restart
RequestRestart(a) ==
  /\ Crew(a)
  /\ a \in Humans
  /\ phase \in InProgress
  /\ approvals' = {a}
  /\ UNCHANGED <<phase, seats, ready, briefed, leaving, policy, settings, run>>

\* vote_restart: one no ends the vote, the last yes starts the mission afresh.
RejectRestart(a) ==
  /\ a \in players \cap Humans
  /\ VoteOpen
  /\ approvals' = {}
  /\ UNCHANGED <<phase, seats, ready, briefed, leaving, policy, settings, run>>

\* Mutant: the votes are counted before the new one is added.
AllApprove_TooEarly(a) == players \subseteq approvals
AllApprove(a) == players \subseteq approvals \cup {a}

ApproveRestart(a) ==
  /\ a \in players
  /\ VoteOpen
  /\ \/ /\ AllApprove(a)
        /\ Begin(mission, players, {})
        /\ UNCHANGED <<waiting, policy, settings>>
     \/ /\ ~AllApprove(a)
        /\ approvals' = approvals \cup {a}
        /\ UNCHANGED <<phase, seats, ready, briefed, leaving, policy, settings, run>>

-----------------------------------------------------------------------------
(* Between missions, and those who wait.                                   *)

\* retry_mission
RetryMission(a) ==
  /\ Host(a)
  /\ phase = "failure"
  /\ SeatWaiting
  /\ Begin(mission, players \cup waiting, {})
  /\ UNCHANGED settings

\* next_mission: the next number, or any mission not yet drawn; with none
\* left the campaign is complete.
\* Mutant: only the mission just flown is excluded from the draw.
NextChoices_AnyOther ==
  IF settings.mode = "random" THEN Missions \ {mission} ELSE Missions \cap {mission + 1}
NextChoices ==
  IF settings.mode = "random" THEN Missions \ drawn ELSE Missions \cap {mission + 1}

Won == phase = "success"

NextMission(a) ==
  /\ Host(a)
  /\ Won
  /\ \/ /\ NextChoices = {}
        /\ phase' = "campaign_complete"
        /\ UNCHANGED <<seats, flags, policy, run>>
     \/ /\ SeatWaiting
        /\ \E m \in NextChoices : Begin(m, players \cup waiting, {})
  /\ UNCHANGED settings

\* resolve_waiting, mode after_mission: seated at once if the mission is over.
WaitForMission(a) ==
  /\ Host(a)
  /\ waiting # {}
  /\ \/ /\ phase \in Ended
        /\ players' = players \cup waiting
        /\ SeatWaiting
     \/ /\ phase \in InProgress
        /\ policy' = "after_mission"
        /\ UNCHANGED <<players, waiting>>
  /\ UNCHANGED <<phase, spectators, host, flags, settings, run>>

\* resolve_waiting, mode restart_now: seat them and start the mission afresh,
\* or go back to the lobby when the campaign is over.
RestartWithWaiting(a) ==
  /\ Host(a)
  /\ waiting # {}
  /\ SeatWaiting
  /\ \/ /\ phase \in InProgress \cup Ended
        /\ Begin(mission, players \cup waiting, {})
     \/ /\ phase = "campaign_complete"
        /\ ResetToLobby(players \cup waiting)
        /\ UNCHANGED <<spectators, host>>
  /\ UNCHANGED settings

-----------------------------------------------------------------------------
\* createState: the creator sits alone in the lobby.
Init ==
  /\ phase = "lobby"
  /\ \E u \in Humans : players = {u} /\ host = u
  /\ waiting = {} /\ spectators = {}
  /\ ready = {} /\ briefed = {} /\ leaving = {} /\ approvals = {}
  /\ policy = "none"
  /\ settings \in Settings
  /\ mission = 0 /\ drawn = {} /\ attempt = None

Membership ==
  \/ \E u \in Humans : Join(u) \/ Leave(u)
  \/ \E a \in Humans : BecomeSpectator(a) \/ JoinAsPlayer(a)
  \/ \E a \in Humans, crew \in SUBSET Bots : FillDemoCrew(a, crew)

Lobby ==
  \/ \E a \in Humans, new \in Settings : UpdateSettings(a, new)
  \/ \E a \in Humans : SetCharacter(a) \/ StartMission(a)
  \/ \E a \in Humans, on \in BOOLEAN : SetReady(a, on)

Mission ==
  \/ \E a \in People : \/ BriefingReady(a) \/ Prepare(a) \/ PlayCard(a)
                       \/ AdvanceTrick(a) \/ ApproveRestart(a)
  \/ \E a \in Humans : RequestDistress(a) \/ RequestRestart(a) \/ RejectRestart(a)

BetweenMissions ==
  \E a \in Humans : \/ RetryMission(a) \/ NextMission(a)
                    \/ WaitForMission(a) \/ RestartWithWaiting(a)

Next == Membership \/ Lobby \/ Mission \/ BetweenMissions

Spec == Init /\ [][Next]_vars
-----------------------------------------------------------------------------
(* Invariants.                                                             *)

\* Every variable has its type.
TypeOK ==
  /\ phase \in Phases
  /\ players \subseteq People
  /\ waiting \subseteq People
  /\ spectators \subseteq People
  /\ host \in People
  /\ ready \subseteq People
  /\ briefed \subseteq People
  /\ leaving \subseteq People
  /\ approvals \subseteq People
  /\ policy \in {"none", "prompt", "after_mission"}
  /\ settings \in Settings
  /\ mission \in 0 .. LastMission
  /\ drawn \subseteq Missions
  /\ attempt \in AttemptIds \cup {None}

\* Nobody is on two of the three lists (players, waitingPlayers, spectators),
\* the flags of a player leave with the player, and bots keep their seats.
OneRolePerMember ==
  /\ players \cap waiting = {}
  /\ players \cap spectators = {}
  /\ waiting \cap spectators = {}
  /\ ready \cup briefed \cup leaving \cup approvals \subseteq players
  /\ (waiting \cup spectators \cup leaving) \cap Bots = {}

\* However people join, wait, watch, sit down and restart, the seats taken and
\* the seats promised to those waiting never exceed the room's capacity.
CrewCapacity == Occupied <= settings.capacity

\* Outside the lobby the crew is never smaller than the three that every rule
\* of the game (deal, draft, distribution) is written for.
MissionCrew == phase # "lobby" => Cardinality(players) >= MinCrew

\* The host is always a member of the room, and while a mission is on, or its
\* result is shown, the host is seated: the commands that carry on (retry,
\* next, resolve waiting) are refused to anybody else.
HostInCharge ==
  /\ host \in Members
  /\ phase # "lobby" => host \in players

\* The lobby, the null mission and the null attempt go together, and the
\* mission being flown is on the list of those drawn.
PhaseShape ==
  /\ (phase = "lobby") <=> (mission = 0)
  /\ (phase = "lobby") <=> (attempt = None)
  /\ mission # 0 => mission \in drawn

\* An open restart vote belongs to a mission in progress and still needs
\* somebody's answer: it can neither be open with everybody agreed, nor
\* outlive the people or the attempt it was opened for.
VoteAwaitsAnswer ==
  VoteOpen => phase \in InProgress /\ approvals # players

\* The briefing always waits for a seated player who has not confirmed yet,
\* so it cannot be left with nobody able to move it on.
BriefingAwaitsSomeone == phase = "briefing" => ~(players \subseteq briefed)

\* Nobody waits in a lobby, nobody waits without the host having been asked,
\* and those told to wait for the mission's end are seated once it has ended.
WaitingIsHonoured ==
  /\ phase = "lobby" => waiting = {}
  /\ waiting # {} => policy # "none"
  /\ phase \in Ended /\ policy = "after_mission" => waiting = {}

\* A campaign is complete only when no mission is left to play.
CampaignIsExhausted ==
  phase = "campaign_complete" =>
    IF settings.mode = "random" THEN drawn = Missions ELSE mission = LastMission

\* The room is what its rules are written for, in every order in which people
\* come, go, watch, vote and fly missions: the three lists, the seats, the size
\* of the crew, the host and the phase agree.
CrewSound ==
  /\ TypeOK
  /\ OneRolePerMember
  /\ CrewCapacity
  /\ MissionCrew
  /\ HostInCharge
  /\ PhaseShape

\* Neither of the questions that hold everybody up, the restart vote and the
\* briefing, is left open when all have answered it.
NobodyHeldUp == VoteAwaitsAnswer /\ BriefingAwaitsSomeone

\* What those waiting were told, and what the campaign announces, is so.
AgreementsHold == WaitingIsHonoured /\ CampaignIsExhausted

-----------------------------------------------------------------------------
(* Action properties.                                                      *)

\* The host changes only when the host gives up the seat (or leaves the room).
HostKeepsOffice == [][host' # host => host \notin players']_vars

\* A seated player who stays in the room is moved to the spectators only in
\* the lobby or at the start of an attempt, and then only having asked for it.
SeatLostOnlyOnRequest ==
  [][\A p \in players \cap spectators' :
        \/ phase = "lobby" /\ phase' = "lobby"
        \/ p \in leaving /\ attempt' # attempt]_vars

\* Once an attempt begins, all who had asked to watch it do.
SpectatorRequestKept ==
  [][attempt' \notin {attempt, None} => players' \cap leaving = {}]_vars

\* Hands are dealt to the crew an attempt begins with: while it is in
\* progress nobody is seated or unseated.
CrewFixedDuringAttempt ==
  [][attempt' = attempt /\ {phase, phase'} \subseteq InProgress
       => players' = players]_vars

\* The mission changes only after success or by way of the lobby: a failure,
\* a restart, somebody leaving or being seated keep the mission.
MissionKept ==
  [][mission' # mission => phase \in {"success", "lobby"} \/ phase' = "lobby"]_vars

\* A random campaign that goes on after a success goes on to a mission this
\* room has not flown.
NextDrawIsFresh ==
  [][phase = "success" /\ phase' = "briefing" /\ mission' # mission
       /\ settings.mode = "random" => mission' \notin drawn]_vars

\* Readiness given under other settings, or before the mission that ended,
\* does not count for the next start.
ReadinessExpires ==
  [][settings' # settings \/ (phase # "lobby" /\ phase' = "lobby")
       => ready' \subseteq Bots]_vars

\* No step takes a seat, a hand or the office of host from somebody who did
\* not give it up.
SeatsKept == HostKeepsOffice /\ SeatLostOnlyOnRequest /\ CrewFixedDuringAttempt

\* A wish to watch is granted at the next attempt, and readiness does not
\* outlive what it was given for.
WishesKept == SpectatorRequestKept /\ ReadinessExpires

\* The missions of a campaign follow one another as its mode says.
MissionsInOrder == MissionKept /\ NextDrawIsFresh

-----------------------------------------------------------------------------
(* Claims of the documentation that the code does not keep.                *)

\* docs/API.ko.md: a random room draws among the missions it has not drawn
\* yet.  start_mission draws among all of them.
RandomDrawIsFresh ==
  [][phase = "lobby" /\ phase' = "briefing" /\ settings.mode = "random"
       => mission' \notin drawn]_vars

\* The comment on removePlayer: with three members left the crew starts
\* afresh, otherwise the room returns to the lobby.  So a player may always
\* leave a room that has another member.
CanAlwaysLeave ==
  \A a \in players \cap Humans : Members # {a} => ENABLED Leave(a)
=============================================================================
