--------------------------- MODULE CrewRoomProofs ---------------------------
(***************************************************************************)
(* Proofs about CrewRoom, for every set of people, capacity and campaign.  *)
(***************************************************************************)
EXTENDS RoomViews, FiniteSetTheorems, TLAPS

-----------------------------------------------------------------------------
(* Type correctness.                                                       *)

\* The inductive form of type correctness.  begin is handed the mission being
\* flown, so the step needs to know that there is one outside the lobby, and
\* that a restart vote is never open in the lobby.
VoteInMission == VoteOpen => phase \in InProgress

TypeInv == TypeOK /\ PhaseShape /\ VoteInMission

\* Whoever is offered the office of host is a person.
LEMMA HostAfterType ==
  ASSUME TypeOK,
         NEW gone, NEW crew \in SUBSET People,
         NEW queue \in SUBSET People, NEW watchers \in SUBSET People
  PROVE  HostAfter(gone, crew, queue, watchers) \subseteq People
BY DEF TypeOK, HostAfter, HostCandidates

\* What begin leaves behind has the right types, for a crew of people.
LEMMA BeginType ==
  ASSUME TypeOK, NEW m \in Missions, NEW crew \in SUBSET People, NEW left,
         Begin(m, crew, left),
         waiting' \subseteq People,
         policy' \in {"none", "prompt", "after_mission"},
         settings' \in Settings
  PROVE  TypeOK'
<1>1. Stayers(crew) \subseteq People /\ Scheduled(crew) \subseteq People
  BY DEF Stayers, Scheduled
<1>2. host' \in People
  BY <1>1, HostAfterType DEF Begin
<1>3. /\ phase' \in Phases
      /\ mission' \in 0 .. LastMission
      /\ drawn' \subseteq Missions
      /\ attempt' \in AttemptIds \cup {None}
  BY DEF TypeOK, Begin, Phases, InProgress, FreshAttempt, Missions
<1>4. players' \subseteq People /\ spectators' \subseteq People /\ ready' \subseteq People
  BY <1>1 DEF TypeOK, Begin
<1>5. briefed' \subseteq People /\ leaving' \subseteq People /\ approvals' \subseteq People
  BY DEF Begin
<1> QED
  BY <1>2, <1>3, <1>4, <1>5 DEF TypeOK

\* A mission in progress, won or lost has a number.
LEMMA MissionNumbered ==
  ASSUME TypeOK, PhaseShape, phase # "lobby"
  PROVE  mission \in Missions
BY RoomAssumption DEF TypeOK, PhaseShape, Missions

\* What resetToLobby leaves behind has the right types and the lobby's shape.
LEMMA ResetType ==
  ASSUME TypeOK, NEW crew \in SUBSET People,
         ResetToLobby(crew),
         host' \in People, waiting' \subseteq People, spectators' \subseteq People,
         policy' \in {"none", "prompt", "after_mission"},
         settings' \in Settings
  PROVE  TypeInv'
<1>1. /\ phase' = "lobby" /\ mission' = 0 /\ attempt' = None /\ drawn' = drawn
      /\ players' \subseteq People /\ ready' \subseteq People
      /\ briefed' \subseteq People /\ leaving' \subseteq People /\ approvals' = {}
  BY DEF TypeOK, ResetToLobby, ReadyAgain
<1>2. "lobby" \in Phases /\ 0 \in 0 .. LastMission
  BY RoomAssumption DEF Phases
<1> QED
  BY <1>1, <1>2 DEF TypeInv, TypeOK, PhaseShape, VoteInMission, VoteOpen

\* begin leaves the lobby, with a mission that is on the list of those drawn
\* and without a vote.
LEMMA BeginShape ==
  ASSUME NEW m \in Missions, NEW crew, NEW left, Begin(m, crew, left)
  PROVE  PhaseShape' /\ VoteInMission'
BY RoomAssumption
   DEF Begin, FreshAttempt, PhaseShape, Missions, VoteInMission, VoteOpen, InProgress

\* The choice of the next mission is a choice among the missions there are.
LEMMA ChoicesAreMissions ==
  ASSUME TypeOK
  PROVE  StartChoices \subseteq Missions /\ NextChoices \subseteq Missions
BY DEF TypeOK, Settings, StartChoices, NextChoices

\* The creator alone in the lobby is well typed.
LEMMA TypeInit == Init => TypeInv
<1> SUFFICES ASSUME Init PROVE TypeInv
  OBVIOUS
<1>1. 0 \in 0 .. LastMission
  BY RoomAssumption
<1> QED
  BY <1>1 DEF Init, TypeInv, TypeOK, PhaseShape, VoteInMission, VoteOpen, People, Phases

\* Joining, leaving, taking and giving up a seat.
LEMMA TypeMembership ==
  ASSUME TypeInv, Membership
  PROVE  TypeInv'
<1> USE DEF TypeInv, VoteInMission, VoteOpen
<1>1. CASE \E u \in Humans : Join(u)
  BY <1>1 DEF Join, TypeOK, PhaseShape, People, flags, run
<1>2. ASSUME NEW u \in Humans, Leave(u)
      PROVE  TypeInv'
  <2> USE DEF flags, run
  <2>1. CASE LeaveQueue(u)
    BY <2>1 DEF LeaveQueue, TypeOK, PhaseShape
  <2>2. CASE LeaveBench(u)
    <3>1. host' \in People
      BY <2>2, HostAfterType DEF LeaveBench, TypeOK
    <3> QED
      BY <2>2, <3>1 DEF LeaveBench, TypeOK, PhaseShape
  <2>3. CASE LeaveCrew(u) /\ phase = "lobby"
    <3>1. host' \in People
      BY <2>3, HostAfterType DEF LeaveCrew, TypeOK
    <3> QED
      BY <2>3, <3>1 DEF LeaveCrew, DropSeat, TypeOK, PhaseShape
  <2>4. CASE /\ phase # "lobby"
             /\ Begin(mission, players \ {u}, {u})
             /\ UNCHANGED <<waiting, policy, settings>>
    <3>1. players \ {u} \subseteq People
      BY DEF TypeOK
    <3> QED
      BY <2>4, <3>1, MissionNumbered, BeginType, BeginShape DEF TypeOK
  <2>5. CASE /\ host' \in HostAfter({u}, players \ {u}, waiting, spectators)
             /\ SeatWaiting
             /\ ResetToLobby((players \ {u}) \cup waiting)
             /\ UNCHANGED <<spectators, settings>>
    <3>1. (players \ {u}) \cup waiting \subseteq People /\ players \ {u} \subseteq People
      BY DEF TypeOK
    <3>2. host' \in People
      BY <2>5, <3>1, HostAfterType DEF TypeOK
    <3>3. /\ waiting' \subseteq People
          /\ policy' \in {"none", "prompt", "after_mission"}
          /\ spectators' \subseteq People
          /\ settings' \in Settings
      BY <2>5 DEF TypeOK, SeatWaiting, PromotedPolicy
    <3> QED
      BY <2>5, <3>1, <3>2, <3>3, ResetType
  <2> QED
    BY <1>2, <2>1, <2>2, <2>3, <2>4, <2>5 DEF Leave, LeaveCrew
<1>3. ASSUME NEW a \in Humans, BecomeSpectator(a)
      PROVE  TypeInv'
  <2>1. host' \in People
    BY <1>3, HostAfterType DEF BecomeSpectator, TypeOK, seats
  <2> QED
    BY <1>3, <2>1 DEF BecomeSpectator, DropSeat, TypeOK, PhaseShape, People, seats, run
<1>4. CASE \E a \in Humans : JoinAsPlayer(a)
  BY <1>4 DEF JoinAsPlayer, TypeOK, PhaseShape, People, flags, run
<1>5. CASE \E a \in Humans, crew \in SUBSET Bots : FillDemoCrew(a, crew)
  BY <1>5 DEF FillDemoCrew, TypeOK, PhaseShape, People, run
<1> QED
  BY <1>1, <1>2, <1>3, <1>4, <1>5 DEF Membership

\* Settings, readiness and the start of a mission.
LEMMA TypeLobby ==
  ASSUME TypeInv, Lobby
  PROVE  TypeInv'
<1> USE DEF TypeInv, VoteInMission, VoteOpen
<1>1. CASE \E a \in Humans, new \in Settings : UpdateSettings(a, new)
  BY <1>1 DEF UpdateSettings, ReadyAgain, TypeOK, PhaseShape, seats, run
<1>2. CASE \E a \in Humans : SetCharacter(a)
  BY <1>2 DEF SetCharacter, TypeOK, PhaseShape, seats, run
<1>3. CASE \E a \in Humans, on \in BOOLEAN : SetReady(a, on)
  BY <1>3 DEF SetReady, TypeOK, PhaseShape, People, seats, run
<1>4. CASE \E a \in Humans : StartMission(a)
  <2>1. PICK m \in Missions : Begin(m, players, {})
    BY <1>4, ChoicesAreMissions DEF StartMission
  <2> QED
    BY <1>4, <2>1, BeginType, BeginShape DEF StartMission, TypeOK
<1> QED
  BY <1>1, <1>2, <1>3, <1>4 DEF Lobby

\* The commands of a mission in progress.
LEMMA TypeMission ==
  ASSUME TypeInv, Mission
  PROVE  TypeInv'
<1> USE DEF TypeInv, VoteInMission, VoteOpen, seats, flags, run
<1>1. CASE \E a \in People : BriefingReady(a)
  BY <1>1 DEF BriefingReady, TypeOK, PhaseShape, Phases, InProgress
<1>2. CASE \E a \in People : Prepare(a) \/ AdvanceTrick(a)
  BY <1>2 DEF Prepare, AdvanceTrick, TypeOK, PhaseShape, Phases, InProgress
<1>3. CASE \E a \in People : PlayCard(a)
  BY <1>3 DEF PlayCard, Crew, SeatWaiting, PromotedPolicy, TypeOK, PhaseShape, Phases, InProgress, Ended
<1>4. ASSUME NEW a \in People, ApproveRestart(a)
      PROVE  TypeInv'
  <2>1. CASE AllApprove(a)
    <3>1. /\ Begin(mission, players, {})
          /\ UNCHANGED <<waiting, policy, settings>>
          /\ phase # "lobby"
      BY <1>4, <2>1 DEF ApproveRestart, InProgress
    <3> QED
      BY <3>1, MissionNumbered, BeginType, BeginShape DEF TypeOK
  <2>2. CASE ~AllApprove(a)
    BY <1>4, <2>2 DEF ApproveRestart, TypeOK, PhaseShape
  <2> QED
    BY <2>1, <2>2
<1>5. CASE \E a \in Humans : RequestDistress(a)
  BY <1>5 DEF RequestDistress, TypeOK, PhaseShape, Phases, InProgress
<1>6. CASE \E a \in Humans : RequestRestart(a) \/ RejectRestart(a)
  BY <1>6 DEF RequestRestart, RejectRestart, TypeOK, PhaseShape, People
<1> QED
  BY <1>1, <1>2, <1>3, <1>4, <1>5, <1>6 DEF Mission

\* Retrying, going on, and seating those who wait.
LEMMA TypeBetween ==
  ASSUME TypeInv, BetweenMissions
  PROVE  TypeInv'
<1> USE DEF TypeInv, VoteInMission, VoteOpen
<1>1. players \cup waiting \subseteq People
  BY DEF TypeOK
<1>2. /\ PromotedPolicy \in {"none", "prompt", "after_mission"}
      /\ settings \in Settings
  BY DEF TypeOK, PromotedPolicy
<1>3. ASSUME NEW m \in Missions, SeatWaiting, Begin(m, players \cup waiting, {}),
             UNCHANGED settings
      PROVE  TypeInv'
  BY <1>1, <1>2, <1>3, BeginType, BeginShape DEF SeatWaiting
<1>4. CASE \E a \in Humans : RetryMission(a)
  BY <1>3, <1>4, MissionNumbered DEF RetryMission
<1>5. ASSUME NEW a \in Humans, NextMission(a)
      PROVE  TypeInv'
  <2>1. CASE \E m \in NextChoices : SeatWaiting /\ Begin(m, players \cup waiting, {})
    BY <1>3, <1>5, <2>1, ChoicesAreMissions DEF NextMission
  <2>2. CASE phase' = "campaign_complete" /\ UNCHANGED <<seats, flags, policy, run>>
    BY <1>5, <2>2
       DEF NextMission, Host, Crew, Won, seats, flags, run, TypeOK, PhaseShape, Phases
  <2> QED
    BY <1>5, <2>1, <2>2 DEF NextMission
<1>6. CASE \E a \in Humans : WaitForMission(a)
  BY <1>1, <1>2, <1>6 DEF WaitForMission, SeatWaiting, TypeOK, PhaseShape, flags, run
<1>7. ASSUME NEW a \in Humans, RestartWithWaiting(a)
      PROVE  TypeInv'
  <2>1. CASE phase \in InProgress \cup Ended /\ Begin(mission, players \cup waiting, {})
    BY <1>3, <1>7, <2>1, MissionNumbered DEF RestartWithWaiting, InProgress, Ended
  <2>2. CASE ResetToLobby(players \cup waiting) /\ UNCHANGED <<spectators, host>>
    BY <1>1, <1>2, <1>7, <2>2, ResetType DEF RestartWithWaiting, SeatWaiting, TypeOK
  <2> QED
    BY <1>7, <2>1, <2>2 DEF RestartWithWaiting
<1> QED
  BY <1>4, <1>5, <1>6, <1>7 DEF BetweenMissions

\* No operation of the room leaves the types or the phase shape.
LEMMA TypeStep == TypeInv /\ [Next]_vars => TypeInv'
<1> SUFFICES ASSUME TypeInv, [Next]_vars PROVE TypeInv'
  OBVIOUS
<1>1. CASE Next
  BY <1>1, TypeMembership, TypeLobby, TypeMission, TypeBetween DEF Next
<1>2. CASE UNCHANGED vars
  BY <1>2 DEF vars, seats, flags, run, TypeInv, TypeOK, PhaseShape, VoteInMission, VoteOpen
<1> QED
  BY <1>1, <1>2

\* Every variable keeps its type, in every room and for every campaign.
THEOREM TypeCorrect == Spec => []TypeOK
<1>1. TypeInv => TypeOK
  BY DEF TypeInv
<1> QED
  BY <1>1, TypeInit, TypeStep, PTL DEF Spec

\* The lobby, the null mission and the null attempt go together, and the
\* mission being flown has been drawn.
THEOREM PhaseShaped == Spec => []PhaseShape
<1>1. TypeInv => PhaseShape
  BY DEF TypeInv
<1> QED
  BY <1>1, TypeInit, TypeStep, PTL DEF Spec

\* Type correctness in the form later proofs build on.
THEOREM TypeInvariant == Spec => []TypeInv
BY TypeInit, TypeStep, PTL DEF Spec

-----------------------------------------------------------------------------
(* One role per member.                                                    *)

\* The creator alone in the lobby holds one role.
LEMMA RoleInit == Init => OneRolePerMember
BY RoomAssumption DEF Init, OneRolePerMember

\* begin splits a crew in two and leaves the queue to its caller.
LEMMA BeginRoles ==
  ASSUME OneRolePerMember,
         NEW m, NEW left, NEW crew, Begin(m, crew, left),
         crew \subseteq players \cup waiting,
         waiting' \subseteq waiting, waiting' \cap crew = {}
  PROVE  OneRolePerMember'
BY DEF OneRolePerMember, Begin, Stayers, Scheduled

\* Joining, leaving and changing role keep the three lists apart.
LEMMA RoleMembership ==
  ASSUME TypeOK, OneRolePerMember, Membership
  PROVE  OneRolePerMember'
<1> USE DEF OneRolePerMember, flags, seats
<1>1. CASE \E u \in Humans : Join(u)
  BY <1>1, RoomAssumption DEF Join, Members
<1>2. ASSUME NEW u \in Humans, Leave(u)
      PROVE  OneRolePerMember'
  <2>1. CASE LeaveQueue(u) \/ LeaveBench(u)
    BY <2>1 DEF LeaveQueue, LeaveBench
  <2>2. CASE LeaveCrew(u)
    <3>1. CASE DropSeat(u) /\ approvals' = {} /\ UNCHANGED <<waiting, spectators>>
      BY <3>1 DEF DropSeat
    <3>2. CASE Begin(mission, players \ {u}, {u}) /\ UNCHANGED waiting
      BY <3>2, BeginRoles
    <3>3. CASE /\ SeatWaiting
               /\ ResetToLobby((players \ {u}) \cup waiting)
               /\ UNCHANGED spectators
      BY <3>3 DEF SeatWaiting, ResetToLobby, ReadyAgain
    <3> QED
      BY <2>2, <3>1, <3>2, <3>3 DEF LeaveCrew
  <2> QED
    BY <1>2, <2>1, <2>2 DEF Leave
<1>3. CASE \E a \in Humans : BecomeSpectator(a)
  BY <1>3, RoomAssumption DEF BecomeSpectator, DropSeat, Crew, VoteOpen
<1>4. CASE \E a \in Humans : JoinAsPlayer(a)
  BY <1>4, RoomAssumption DEF JoinAsPlayer
<1>5. CASE \E a \in Humans, crew \in SUBSET Bots : FillDemoCrew(a, crew)
  BY <1>5 DEF FillDemoCrew
<1> QED
  BY <1>1, <1>2, <1>3, <1>4, <1>5 DEF Membership

\* No operation of the room puts anybody on two lists.
LEMMA RoleStep == OneRolePerMember /\ TypeOK /\ [Next]_vars => OneRolePerMember'
<1> SUFFICES ASSUME OneRolePerMember, TypeOK, [Next]_vars PROVE OneRolePerMember'
  OBVIOUS
<1> USE DEF seats, flags
<1>1. CASE Membership
  BY <1>1, RoleMembership
<1>2. CASE Lobby
  <2>1. ASSUME NEW a \in Humans, StartMission(a)
        PROVE  OneRolePerMember'
    <3>1. PICK m \in StartChoices : Begin(m, players, {})
      BY <2>1 DEF StartMission
    <3> QED
      BY <2>1, <3>1, BeginRoles DEF StartMission, OneRolePerMember
  <2>2. CASE \/ \E a \in Humans, new \in Settings : UpdateSettings(a, new)
             \/ \E a \in Humans : SetCharacter(a)
             \/ \E a \in Humans, on \in BOOLEAN : SetReady(a, on)
    BY <2>2 DEF UpdateSettings, SetCharacter, SetReady, ReadyAgain, Host, Crew, OneRolePerMember
  <2> QED
    BY <1>2, <2>1, <2>2 DEF Lobby
<1>3. CASE Mission
  <2>1. ASSUME NEW a \in People, ApproveRestart(a)
        PROVE  OneRolePerMember'
    <3>1. CASE Begin(mission, players, {}) /\ UNCHANGED waiting
      BY <3>1, BeginRoles DEF OneRolePerMember
    <3>2. CASE ~AllApprove(a)
      BY <2>1, <3>2 DEF ApproveRestart, OneRolePerMember
    <3> QED
      BY <2>1, <3>1, <3>2 DEF ApproveRestart
  <2>2. CASE \E a \in People : PlayCard(a)
    BY <2>2 DEF PlayCard, SeatWaiting, OneRolePerMember
  <2>3. CASE \/ \E a \in People : BriefingReady(a) \/ Prepare(a) \/ AdvanceTrick(a)
             \/ \E a \in Humans : RequestDistress(a) \/ RequestRestart(a) \/ RejectRestart(a)
    BY <2>3 DEF BriefingReady, Prepare, AdvanceTrick, RequestDistress, RequestRestart,
                RejectRestart, Crew, OneRolePerMember
  <2> QED
    BY <1>3, <2>1, <2>2, <2>3 DEF Mission
<1>4. CASE BetweenMissions
  <2>1. ASSUME NEW m, SeatWaiting, Begin(m, players \cup waiting, {})
        PROVE  OneRolePerMember'
    BY <2>1, BeginRoles DEF SeatWaiting
  <2>2. CASE \E a \in Humans : RetryMission(a)
    BY <2>1, <2>2 DEF RetryMission
  <2>3. CASE \E a \in Humans : NextMission(a)
    BY <2>1, <2>3 DEF NextMission, OneRolePerMember
  <2>4. CASE \E a \in Humans : WaitForMission(a)
    BY <2>4 DEF WaitForMission, SeatWaiting, OneRolePerMember
  <2>5. CASE \E a \in Humans : RestartWithWaiting(a)
    BY <2>1, <2>5 DEF RestartWithWaiting, SeatWaiting, ResetToLobby, ReadyAgain, OneRolePerMember
  <2> QED
    BY <1>4, <2>2, <2>3, <2>4, <2>5 DEF BetweenMissions
<1>5. CASE UNCHANGED vars
  BY <1>5 DEF vars, OneRolePerMember
<1> QED
  BY <1>1, <1>2, <1>3, <1>4, <1>5 DEF Next

\* Nobody is ever on two of the room's three lists, flags never outlive the
\* seat they belong to, and bots are never unseated.
THEOREM RolesDisjoint == Spec => []OneRolePerMember
<1>1. TypeInv => TypeOK
  BY DEF TypeInv
<1> QED
  BY <1>1, TypeInvariant, RoleInit, RoleStep, PTL DEF Spec

-----------------------------------------------------------------------------
(* Those who wait.                                                         *)

\* begin enters a briefing; the queue is as its caller leaves it.
LEMMA BeginWaiting ==
  ASSUME NEW m, NEW crew, NEW left, Begin(m, crew, left),
         waiting' # {} => policy' # "none"
  PROVE  WaitingIsHonoured'
BY DEF Begin, WaitingIsHonoured, Ended

\* No operation seats people in the wrong phase or strands those who wait.
LEMMA WaitingStep == WaitingIsHonoured /\ TypeInv /\ [Next]_vars => WaitingIsHonoured'
<1> SUFFICES ASSUME WaitingIsHonoured, TypeInv, [Next]_vars PROVE WaitingIsHonoured'
  OBVIOUS
<1> USE DEF WaitingIsHonoured, seats, flags, run
<1>1. CASE Membership
  <2>1. CASE \E u \in Humans : Join(u)
    BY <2>1 DEF Join
  <2>2. ASSUME NEW u \in Humans, Leave(u)
        PROVE  WaitingIsHonoured'
    <3>1. CASE LeaveQueue(u) \/ LeaveBench(u)
      BY <3>1 DEF LeaveQueue, LeaveBench
    <3>2. CASE LeaveCrew(u)
      BY <3>2, BeginWaiting DEF LeaveCrew, SeatWaiting, ResetToLobby
    <3> QED
      BY <2>2, <3>1, <3>2 DEF Leave
  <2>3. CASE \E a \in Humans : BecomeSpectator(a)
    BY <2>3 DEF BecomeSpectator
  <2>4. CASE \E a \in Humans : JoinAsPlayer(a)
    BY <2>4 DEF JoinAsPlayer
  <2>5. CASE \E a \in Humans, crew \in SUBSET Bots : FillDemoCrew(a, crew)
    BY <2>5 DEF FillDemoCrew
  <2> QED
    BY <1>1, <2>1, <2>2, <2>3, <2>4, <2>5 DEF Membership
<1>2. CASE Lobby
  <2>1. CASE \E a \in Humans : StartMission(a)
    BY <2>1, BeginWaiting DEF StartMission
  <2>2. CASE \/ \E a \in Humans, new \in Settings : UpdateSettings(a, new)
             \/ \E a \in Humans : SetCharacter(a)
             \/ \E a \in Humans, on \in BOOLEAN : SetReady(a, on)
    BY <2>2 DEF UpdateSettings, SetCharacter, SetReady
  <2> QED
    BY <1>2, <2>1, <2>2 DEF Lobby
<1>3. CASE Mission
  <2>1. CASE \E a \in People : ApproveRestart(a)
    BY <2>1, BeginWaiting DEF ApproveRestart
  <2>2. CASE \E a \in People : PlayCard(a)
    BY <2>2 DEF PlayCard, SeatAfterMission, SeatWaiting
  <2>3. CASE \/ \E a \in People : BriefingReady(a) \/ Prepare(a) \/ AdvanceTrick(a)
             \/ \E a \in Humans : RequestDistress(a) \/ RequestRestart(a) \/ RejectRestart(a)
    BY <2>3 DEF BriefingReady, Prepare, AdvanceTrick, RequestDistress, RequestRestart,
                RejectRestart, Ended
  <2> QED
    BY <1>3, <2>1, <2>2, <2>3 DEF Mission
<1>4. CASE BetweenMissions
  <2>1. CASE \E a \in Humans : RetryMission(a)
    BY <2>1, BeginWaiting DEF RetryMission, SeatWaiting
  <2>2. CASE \E a \in Humans : NextMission(a)
    BY <2>2, BeginWaiting DEF NextMission, Won, SeatWaiting, Ended
  <2>3. CASE \E a \in Humans : WaitForMission(a)
    BY <2>3 DEF WaitForMission, SeatWaiting, InProgress, Ended
  <2>4. CASE \E a \in Humans : RestartWithWaiting(a)
    BY <2>4, BeginWaiting DEF RestartWithWaiting, SeatWaiting
  <2> QED
    BY <1>4, <2>1, <2>2, <2>3, <2>4 DEF BetweenMissions
<1>5. CASE UNCHANGED vars
  BY <1>5 DEF vars
<1> QED
  BY <1>1, <1>2, <1>3, <1>4, <1>5 DEF Next

\* Nobody waits in a lobby or without the host being asked, and whoever was
\* told to wait for the end of the mission is seated when it ends.
THEOREM WaitingHonoured == Spec => []WaitingIsHonoured
<1>1. Init => WaitingIsHonoured
  BY DEF Init, WaitingIsHonoured
<1> QED
  BY <1>1, TypeInvariant, WaitingStep, PTL DEF Spec

-----------------------------------------------------------------------------
(* The size of the crew.                                                   *)

\* A set of people is finite.
LEMMA PeopleFinite == \A S \in SUBSET People : IsFiniteSet(S) /\ Cardinality(S) \in Nat
<1>1. IsFiniteSet(People)
  BY RoomAssumption, FS_Union DEF People
<1> QED
  BY <1>1, FS_Subset, FS_CardinalityType

\* Seating people who are not seated yet adds up.
LEMMA SeatingAddsUp ==
  ASSUME NEW S \in SUBSET People, NEW T \in SUBSET People, S \cap T = {}
  PROVE  Cardinality(S \cup T) = Cardinality(S) + Cardinality(T)
<1>1. Cardinality(S \cup T) = Cardinality(S) + Cardinality(T) - Cardinality(S \cap T)
  BY PeopleFinite, FS_Union
<1>2. Cardinality(S \cap T) = 0
  BY FS_EmptySet
<1> QED
  BY <1>1, <1>2, PeopleFinite

\* Part of a crew is no larger than the crew.
LEMMA SmallerCrew ==
  ASSUME NEW S \in SUBSET People, NEW T \in SUBSET S
  PROVE  Cardinality(T) <= Cardinality(S)
BY PeopleFinite, FS_Subset

\* One person more or less makes a set one larger or smaller.
LEMMA OneMore ==
  ASSUME NEW S \in SUBSET People, NEW x \in People, x \notin S
  PROVE  Cardinality(S \cup {x}) = Cardinality(S) + 1
BY PeopleFinite, FS_AddElement

\* The facts the size of the crew depends on.
SizeInv == CrewCapacity /\ MissionCrew
SizeContext == TypeInv /\ OneRolePerMember /\ WaitingIsHonoured

\* The creator alone is within every capacity.
LEMMA SizeInit == Init => SizeInv
<1> SUFFICES ASSUME Init PROVE SizeInv
  OBVIOUS
<1>1. Cardinality(players) = 1 /\ Cardinality(waiting) = 0
  BY FS_Singleton, FS_EmptySet DEF Init
<1>2. settings.capacity >= MinCrew /\ settings.capacity \in Nat
  BY RoomAssumption DEF Init, Settings
<1> QED
  BY <1>1, <1>2 DEF Init, SizeInv, CrewCapacity, MissionCrew, Occupied, MinCrew

\* A room whose seats and queue do not grow stays within its capacity.
LEMMA SeatsNotTaken ==
  ASSUME SizeContext, SizeInv,
         players' \subseteq players, waiting' \subseteq waiting, UNCHANGED settings
  PROVE  CrewCapacity'
<1>1. /\ Cardinality(players') <= Cardinality(players)
      /\ Cardinality(waiting') <= Cardinality(waiting)
      /\ players' \in SUBSET People /\ waiting' \in SUBSET People
  BY SmallerCrew DEF SizeContext, TypeInv, TypeOK
<1>2. /\ Cardinality(players) \in Nat /\ Cardinality(waiting) \in Nat
      /\ Cardinality(players') \in Nat /\ Cardinality(waiting') \in Nat
  BY <1>1, PeopleFinite DEF SizeContext, TypeInv, TypeOK
<1>3. settings.capacity \in Nat
  BY RoomAssumption DEF SizeContext, TypeInv, TypeOK, Settings
<1> QED
  BY <1>1, <1>2, <1>3 DEF SizeInv, CrewCapacity, Occupied

\* Seating some of those who wait changes nothing about the seats promised.
LEMMA QueueSeated ==
  ASSUME SizeContext, SizeInv,
         players' \subseteq players \cup waiting, waiting' = {}, UNCHANGED settings
  PROVE  CrewCapacity'
<1>1. /\ players \in SUBSET People /\ waiting \in SUBSET People
      /\ players \cup waiting \in SUBSET People
      /\ players \cap waiting = {}
      /\ players' \in SUBSET People
  BY DEF SizeContext, TypeInv, TypeOK, OneRolePerMember
<1>2. Cardinality(players \cup waiting) = Cardinality(players) + Cardinality(waiting)
  BY <1>1, SeatingAddsUp
<1>3. Cardinality(players') <= Cardinality(players \cup waiting)
  BY <1>1, SmallerCrew
<1>4. Cardinality(waiting') = 0
  BY FS_EmptySet
<1>5. /\ Cardinality(players) \in Nat /\ Cardinality(waiting) \in Nat
      /\ Cardinality(players') \in Nat
  BY <1>1, PeopleFinite
<1>6. settings.capacity \in Nat
  BY RoomAssumption DEF SizeContext, TypeInv, TypeOK, Settings
<1> QED
  BY <1>2, <1>3, <1>4, <1>5, <1>6 DEF SizeInv, CrewCapacity, Occupied

\* begin leaves a crew of at least three.
LEMMA BeginCrew ==
  ASSUME NEW m, NEW crew, NEW left, Begin(m, crew, left)
  PROVE  MissionCrew' /\ players' \subseteq crew
BY DEF Begin, EnoughCrew, MissionCrew, Stayers

\* Taking one of the free seats.
LEMMA SeatTaken ==
  ASSUME SizeContext, SizeInv, HasSeat, UNCHANGED settings,
         NEW p \in Humans, p \notin players, p \notin waiting,
         \/ players' = players \cup {p} /\ UNCHANGED waiting
         \/ waiting' = waiting \cup {p} /\ UNCHANGED players
  PROVE  CrewCapacity'
<1>1. players \in SUBSET People /\ waiting \in SUBSET People /\ p \in People
  BY DEF SizeContext, TypeInv, TypeOK, People
<1>2. /\ Cardinality(players \cup {p}) = Cardinality(players) + 1
      /\ Cardinality(waiting \cup {p}) = Cardinality(waiting) + 1
  BY <1>1, OneMore
<1>3. Cardinality(players) \in Nat /\ Cardinality(waiting) \in Nat
  BY <1>1, PeopleFinite
<1>4. settings.capacity \in Nat
  BY RoomAssumption DEF SizeContext, TypeInv, TypeOK, Settings
<1>5. Cardinality(players') + Cardinality(waiting')
        = Cardinality(players) + Cardinality(waiting) + 1
  <2>1. CASE players' = players \cup {p} /\ UNCHANGED waiting
    BY <1>2, <1>3, <2>1
  <2>2. CASE waiting' = waiting \cup {p} /\ UNCHANGED players
    BY <1>2, <1>3, <2>2
  <2> QED
    BY <2>1, <2>2
<1>6. Cardinality(players) + Cardinality(waiting) < settings.capacity
  BY DEF HasSeat, Occupied
<1> QED
  BY <1>3, <1>4, <1>5, <1>6 DEF CrewCapacity, Occupied

\* Joining and leaving keep the crew between its bounds.
LEMMA SizeMembership ==
  ASSUME SizeContext, SizeInv, Membership
  PROVE  SizeInv'
<1> USE DEF flags, seats
<1>1. ASSUME NEW u \in Humans, Join(u)
      PROVE  SizeInv'
  <2>1. UNCHANGED <<phase, settings>> /\ u \notin players /\ u \notin waiting
    BY <1>1 DEF Join, Members
  <2>2. CASE HasSeat /\ phase = "lobby" /\ players' = players \cup {u} /\ UNCHANGED waiting
    BY <2>1, <2>2, SeatTaken DEF SizeInv, MissionCrew
  <2>3. CASE HasSeat /\ waiting' = waiting \cup {u} /\ UNCHANGED players
    BY <2>1, <2>3, SeatTaken DEF SizeInv, MissionCrew
  <2>4. CASE UNCHANGED <<players, waiting>>
    BY <2>1, <2>4 DEF SizeInv, MissionCrew, CrewCapacity, Occupied
  <2> QED
    BY <1>1, <2>2, <2>3, <2>4 DEF Join
<1>2. ASSUME NEW u \in Humans, Leave(u)
      PROVE  SizeInv'
  <2>1. CASE LeaveQueue(u) \/ LeaveBench(u)
    <3>1. /\ players' = players /\ phase' = phase /\ settings' = settings
          /\ waiting' \subseteq waiting
      BY <2>1 DEF LeaveQueue, LeaveBench
    <3> QED
      BY <3>1, SeatsNotTaken DEF SizeInv, MissionCrew
  <2>2. CASE LeaveCrew(u)
    <3>1. CASE /\ phase = "lobby" /\ DropSeat(u)
               /\ UNCHANGED <<phase, waiting, settings>>
      BY <3>1, SeatsNotTaken DEF DropSeat, SizeInv, MissionCrew
    <3>2. CASE Begin(mission, players \ {u}, {u}) /\ UNCHANGED <<waiting, settings>>
      BY <3>2, BeginCrew, SeatsNotTaken DEF SizeInv
    <3>3. CASE /\ SeatWaiting
               /\ ResetToLobby((players \ {u}) \cup waiting)
               /\ UNCHANGED settings
      BY <3>3, QueueSeated DEF SeatWaiting, ResetToLobby, SizeInv, MissionCrew
    <3> QED
      BY <2>2, <3>1, <3>2, <3>3 DEF LeaveCrew
  <2> QED
    BY <1>2, <2>1, <2>2 DEF Leave
<1>3. ASSUME NEW a \in Humans, BecomeSpectator(a)
      PROVE  SizeInv'
  <2>1. /\ players' \subseteq players
        /\ UNCHANGED <<phase, waiting, settings>>
        /\ phase # "lobby" => players' = players
    BY <1>3 DEF BecomeSpectator, DropSeat
  <2> QED
    BY <2>1, SeatsNotTaken DEF SizeInv, MissionCrew
<1>4. ASSUME NEW a \in Humans, JoinAsPlayer(a)
      PROVE  SizeInv'
  <2>1. UNCHANGED <<phase, settings>> /\ HasSeat /\ a \notin players /\ a \notin waiting
    BY <1>4 DEF JoinAsPlayer, SizeContext, OneRolePerMember
  <2>2. \/ phase = "lobby" /\ players' = players \cup {a} /\ UNCHANGED waiting
        \/ waiting' = waiting \cup {a} /\ UNCHANGED players
    BY <1>4 DEF JoinAsPlayer
  <2> QED
    BY <2>1, <2>2, SeatTaken DEF SizeInv, MissionCrew
<1>5. ASSUME NEW a \in Humans, NEW crew \in SUBSET Bots, FillDemoCrew(a, crew)
      PROVE  SizeInv'
  <2>1. /\ phase = "lobby" /\ UNCHANGED <<phase, waiting, settings>>
        /\ players \cap crew = {} /\ players' = players \cup crew
        /\ Cardinality(players) + Cardinality(crew) = settings.capacity
    BY <1>5 DEF FillDemoCrew
  <2>2. waiting = {}
    BY <2>1 DEF SizeContext, WaitingIsHonoured
  <2>3. Cardinality(players') = settings.capacity
    BY <2>1, SeatingAddsUp DEF SizeContext, TypeInv, TypeOK, People
  <2>4. Cardinality(waiting') = 0
    BY <2>1, <2>2, FS_EmptySet
  <2>5. settings.capacity \in Nat
    BY RoomAssumption DEF SizeContext, TypeInv, TypeOK, Settings
  <2> QED
    BY <2>1, <2>3, <2>4, <2>5 DEF SizeInv, CrewCapacity, MissionCrew, Occupied
<1> QED
  BY <1>1, <1>2, <1>3, <1>4, <1>5 DEF Membership

\* Settings and the start of a mission keep the crew between its bounds.
LEMMA SizeLobby ==
  ASSUME SizeContext, SizeInv, Lobby
  PROVE  SizeInv'
<1> USE DEF flags, seats
<1>1. ASSUME NEW a \in Humans, NEW new \in Settings, UpdateSettings(a, new)
      PROVE  SizeInv'
  <2>1. /\ phase = "lobby" /\ UNCHANGED <<phase, players, waiting>>
        /\ settings' = new /\ new.capacity >= Cardinality(players)
    BY <1>1 DEF UpdateSettings
  <2>2. Cardinality(waiting) = 0
    BY <2>1, FS_EmptySet DEF SizeContext, WaitingIsHonoured
  <2>3. new.capacity \in Nat /\ Cardinality(players) \in Nat
    BY RoomAssumption, PeopleFinite DEF Settings, SizeContext, TypeInv, TypeOK
  <2> QED
    BY <2>1, <2>2, <2>3 DEF SizeInv, CrewCapacity, MissionCrew, Occupied
<1>2. CASE \/ \E a \in Humans : SetCharacter(a)
           \/ \E a \in Humans, on \in BOOLEAN : SetReady(a, on)
  BY <1>2 DEF SetCharacter, SetReady, SizeInv, CrewCapacity, MissionCrew, Occupied
<1>3. ASSUME NEW a \in Humans, StartMission(a)
      PROVE  SizeInv'
  BY <1>3, BeginCrew, SeatsNotTaken DEF StartMission, SizeInv
<1> QED
  BY <1>1, <1>2, <1>3 DEF Lobby

\* The commands of a mission keep the crew between its bounds.
LEMMA SizeMission ==
  ASSUME SizeContext, SizeInv, Mission
  PROVE  SizeInv'
<1> USE DEF flags, seats
<1>1. ASSUME NEW a \in People, ApproveRestart(a)
      PROVE  SizeInv'
  <2>1. CASE Begin(mission, players, {}) /\ UNCHANGED <<waiting, settings>>
    BY <2>1, BeginCrew, SeatsNotTaken DEF SizeInv
  <2>2. CASE UNCHANGED <<phase, players, waiting, settings>>
    BY <2>2 DEF SizeInv, CrewCapacity, MissionCrew, Occupied
  <2> QED
    BY <1>1, <2>1, <2>2 DEF ApproveRestart
<1>2. ASSUME NEW a \in People, PlayCard(a)
      PROVE  SizeInv'
  <2>1. phase = "playing" /\ UNCHANGED settings /\ players \subseteq players'
    BY <1>2 DEF PlayCard
  <2>2. CrewCapacity'
    <3>1. CASE players' = players \cup waiting /\ SeatWaiting
      BY <2>1, <3>1, QueueSeated DEF SeatWaiting
    <3>2. CASE UNCHANGED <<players, waiting>>
      BY <2>1, <3>2, SeatsNotTaken
    <3> QED
      BY <1>2, <3>1, <3>2 DEF PlayCard
  <2>3. players' \in SUBSET People
    BY <1>2 DEF PlayCard, SizeContext, TypeInv, TypeOK
  <2>4. Cardinality(players') >= Cardinality(players) /\ Cardinality(players) >= MinCrew
    BY <2>1, <2>3, SmallerCrew DEF SizeInv, MissionCrew
  <2>5. Cardinality(players') \in Nat /\ Cardinality(players) \in Nat
    BY <2>3, PeopleFinite DEF SizeContext, TypeInv, TypeOK
  <2> QED
    BY <2>2, <2>4, <2>5 DEF SizeInv, MissionCrew, MinCrew
<1>3. CASE \/ \E a \in People : BriefingReady(a) \/ Prepare(a) \/ AdvanceTrick(a)
           \/ \E a \in Humans : RequestDistress(a) \/ RequestRestart(a) \/ RejectRestart(a)
  BY <1>3 DEF BriefingReady, Prepare, AdvanceTrick, RequestDistress, RequestRestart,
              RejectRestart, SizeInv, CrewCapacity, MissionCrew, Occupied
<1> QED
  BY <1>1, <1>2, <1>3 DEF Mission

\* Seating those who wait keeps the crew between its bounds.
LEMMA SizeBetween ==
  ASSUME SizeContext, SizeInv, BetweenMissions
  PROVE  SizeInv'
<1> USE DEF flags, seats
<1>1. ASSUME NEW m, SeatWaiting, Begin(m, players \cup waiting, {}), UNCHANGED settings
      PROVE  SizeInv'
  BY <1>1, BeginCrew, QueueSeated DEF SeatWaiting, SizeInv
<1>2. CASE \E a \in Humans : RetryMission(a)
  BY <1>1, <1>2 DEF RetryMission
<1>3. ASSUME NEW a \in Humans, NextMission(a)
      PROVE  SizeInv'
  <2>1. CASE phase' = "campaign_complete" /\ UNCHANGED <<players, waiting, settings>>
    BY <1>3, <2>1 DEF NextMission, Won, SizeInv, CrewCapacity, MissionCrew, Occupied
  <2> QED
    BY <1>1, <1>3, <2>1 DEF NextMission
<1>4. ASSUME NEW a \in Humans, WaitForMission(a)
      PROVE  SizeInv'
  <2>1. CASE UNCHANGED <<phase, players, waiting, settings>>
    BY <2>1 DEF SizeInv, CrewCapacity, MissionCrew, Occupied
  <2>2. CASE /\ players' = players \cup waiting /\ SeatWaiting
             /\ UNCHANGED <<phase, settings>>
    <3>1. players' \in SUBSET People
      BY <2>2 DEF SizeContext, TypeInv, TypeOK
    <3>2. /\ Cardinality(players') >= Cardinality(players)
          /\ Cardinality(players') \in Nat /\ Cardinality(players) \in Nat
      BY <2>2, <3>1, SmallerCrew, PeopleFinite DEF SizeContext, TypeInv, TypeOK
    <3>3. MissionCrew'
      BY <2>2, <3>2 DEF SizeInv, MissionCrew, MinCrew
    <3> QED
      BY <2>2, <3>3, QueueSeated DEF SeatWaiting, SizeInv
  <2> QED
    BY <1>4, <2>1, <2>2 DEF WaitForMission
<1>5. ASSUME NEW a \in Humans, RestartWithWaiting(a)
      PROVE  SizeInv'
  <2>1. CASE ResetToLobby(players \cup waiting)
    BY <1>5, <2>1, QueueSeated
       DEF RestartWithWaiting, SeatWaiting, ResetToLobby, SizeInv, MissionCrew
  <2> QED
    BY <1>1, <1>5, <2>1 DEF RestartWithWaiting
<1> QED
  BY <1>2, <1>3, <1>4, <1>5 DEF BetweenMissions

\* No operation of the room takes the crew out of its bounds.
LEMMA SizeStep == SizeInv /\ SizeContext /\ [Next]_vars => SizeInv'
<1> SUFFICES ASSUME SizeInv, SizeContext, [Next]_vars PROVE SizeInv'
  OBVIOUS
<1>1. CASE Next
  BY <1>1, SizeMembership, SizeLobby, SizeMission, SizeBetween DEF Next
<1>2. CASE UNCHANGED vars
  BY <1>2 DEF vars, seats, SizeInv, CrewCapacity, MissionCrew, Occupied
<1> QED
  BY <1>1, <1>2

\* The crew stays between its bounds in every behaviour.
LEMMA SizeInvariant == Spec => []SizeInv
<1>1. TypeInv /\ OneRolePerMember /\ WaitingIsHonoured => SizeContext
  BY DEF SizeContext
<1> QED
  BY <1>1, SizeInit, SizeStep, TypeInvariant, RolesDisjoint, WaitingHonoured, PTL DEF Spec

\* The seats taken and the seats promised to those waiting never exceed the
\* room's capacity, whatever the capacity and however many people there are.
THEOREM CapacityKept == Spec => []CrewCapacity
<1>1. SizeInv => CrewCapacity
  BY DEF SizeInv
<1> QED
  BY <1>1, SizeInvariant, PTL

\* No mission is ever flown, or its result shown, with fewer than three.
THEOREM CrewLargeEnough == Spec => []MissionCrew
<1>1. SizeInv => MissionCrew
  BY DEF SizeInv
<1> QED
  BY <1>1, SizeInvariant, PTL

-----------------------------------------------------------------------------
(* The host.                                                               *)

HostContext == SizeContext /\ SizeInv

\* A crew of at least three has somebody in it.
LEMMA CrewNotEmpty ==
  ASSUME NEW S \in SUBSET People, Cardinality(S) >= MinCrew
  PROVE  S # {}
BY FS_EmptySet DEF MinCrew

\* begin leaves the office with somebody who is still seated, provided it was
\* held by the crew or by whoever has just left.
LEMMA BeginHost ==
  ASSUME NEW m, NEW crew \in SUBSET People, NEW left, Begin(m, crew, left),
         host \in crew \cup left
  PROVE  HostInCharge'
<1>1. Stayers(crew) # {}
  BY CrewNotEmpty DEF Begin, EnoughCrew, Stayers
<1>2. host' \in Stayers(crew)
  BY <1>1 DEF Begin, HostAfter, HostCandidates, Stayers
<1> QED
  BY <1>2 DEF Begin, HostInCharge, Members

\* No operation leaves the room with an absent or, in a mission, unseated host.
LEMMA HostStep == HostInCharge /\ HostContext /\ [Next]_vars => HostInCharge'
<1> SUFFICES ASSUME HostInCharge, HostContext, [Next]_vars PROVE HostInCharge'
  OBVIOUS
<1>1. /\ TypeInv /\ OneRolePerMember
      /\ players \in SUBSET People /\ waiting \in SUBSET People
  BY DEF HostContext, SizeContext, TypeInv, TypeOK
<1> USE DEF seats, flags
<1>2. CASE Membership
  <2>1. CASE \E u \in Humans : Join(u)
    BY <2>1 DEF Join, HostInCharge, Members
  <2>2. ASSUME NEW u \in Humans, Leave(u)
        PROVE  HostInCharge'
    <3>1. CASE LeaveQueue(u)
      <4>1. host # u
        BY <1>1, <3>1
           DEF LeaveQueue, HostInCharge, HostContext, SizeContext, WaitingIsHonoured, OneRolePerMember
      <4> QED
        BY <3>1, <4>1 DEF LeaveQueue, HostInCharge, Members
    <3>2. CASE LeaveBench(u)
      BY <1>1, <2>2, <3>2
         DEF Leave, LeaveBench, HostInCharge, HostAfter, HostCandidates, Members, OneRolePerMember
    <3>3. CASE LeaveCrew(u)
      <4>1. CASE /\ phase = "lobby" /\ DropSeat(u)
                 /\ host' \in HostAfter({u}, players \ {u}, waiting, spectators)
                 /\ UNCHANGED <<phase, waiting, spectators>>
        BY <1>1, <2>2, <3>3, <4>1
           DEF Leave, LeaveCrew, DropSeat, HostInCharge, HostAfter, HostCandidates, Members,
               OneRolePerMember
      <4>2. CASE phase # "lobby" /\ Begin(mission, players \ {u}, {u})
        BY <1>1, <4>2, BeginHost DEF HostInCharge
      <4>3. CASE /\ host' \in HostAfter({u}, players \ {u}, waiting, spectators)
                 /\ ResetToLobby((players \ {u}) \cup waiting)
                 /\ UNCHANGED spectators
        BY <1>1, <2>2, <3>3, <4>3
           DEF Leave, LeaveCrew, ResetToLobby, HostInCharge, HostAfter, HostCandidates, Members,
               OneRolePerMember
      <4> QED
        BY <3>3, <4>1, <4>2, <4>3 DEF LeaveCrew
    <3> QED
      BY <2>2, <3>1, <3>2, <3>3 DEF Leave
  <2>3. CASE \E a \in Humans : BecomeSpectator(a)
    BY <2>3 DEF BecomeSpectator, DropSeat, HostInCharge, HostAfter, HostCandidates, Members
  <2>4. CASE \E a \in Humans : JoinAsPlayer(a)
    BY <2>4 DEF JoinAsPlayer, HostInCharge, Members
  <2>5. CASE \E a \in Humans, crew \in SUBSET Bots : FillDemoCrew(a, crew)
    BY <2>5 DEF FillDemoCrew, HostInCharge, Members
  <2> QED
    BY <1>2, <2>1, <2>2, <2>3, <2>4, <2>5 DEF Membership
<1>3. CASE Lobby
  <2>1. CASE \E a \in Humans : StartMission(a)
    BY <1>1, <2>1, BeginHost DEF StartMission, Host, Crew
  <2>2. CASE \/ \E a \in Humans, new \in Settings : UpdateSettings(a, new)
             \/ \E a \in Humans : SetCharacter(a)
             \/ \E a \in Humans, on \in BOOLEAN : SetReady(a, on)
    BY <2>2 DEF UpdateSettings, SetCharacter, SetReady, HostInCharge, Members
  <2> QED
    BY <1>3, <2>1, <2>2 DEF Lobby
<1>4. CASE Mission
  <2>1. ASSUME NEW a \in People, ApproveRestart(a)
        PROVE  HostInCharge'
    <3>1. phase # "lobby"
      BY <1>1, <2>1 DEF ApproveRestart, TypeInv, VoteInMission, InProgress
    <3> QED
      BY <1>1, <2>1, <3>1, BeginHost DEF ApproveRestart, HostInCharge, Members
  <2>2. CASE \E a \in People : PlayCard(a)
    BY <2>2 DEF PlayCard, SeatWaiting, HostInCharge, Members
  <2>3. CASE \/ \E a \in People : BriefingReady(a) \/ Prepare(a) \/ AdvanceTrick(a)
             \/ \E a \in Humans : RequestDistress(a) \/ RequestRestart(a) \/ RejectRestart(a)
    BY <2>3 DEF BriefingReady, Prepare, AdvanceTrick, RequestDistress, RequestRestart,
                RejectRestart, HostInCharge, Members
  <2> QED
    BY <1>4, <2>1, <2>2, <2>3 DEF Mission
<1>5. CASE BetweenMissions
  <2>1. ASSUME NEW m, NEW a, Host(a), Begin(m, players \cup waiting, {})
        PROVE  HostInCharge'
    BY <1>1, <2>1, BeginHost DEF Host, Crew
  <2>2. CASE \E a \in Humans : RetryMission(a)
    BY <2>1, <2>2 DEF RetryMission
  <2>3. CASE \E a \in Humans : NextMission(a)
    BY <2>1, <2>3 DEF NextMission, Host, Crew, HostInCharge, Members
  <2>4. CASE \E a \in Humans : WaitForMission(a)
    BY <2>4 DEF WaitForMission, SeatWaiting, HostInCharge, Members
  <2>5. CASE \E a \in Humans : RestartWithWaiting(a)
    BY <2>1, <2>5 DEF RestartWithWaiting, Host, Crew, ResetToLobby, HostInCharge, Members
  <2> QED
    BY <1>5, <2>2, <2>3, <2>4, <2>5 DEF BetweenMissions
<1>6. CASE UNCHANGED vars
  BY <1>6 DEF vars, HostInCharge, Members
<1> QED
  BY <1>2, <1>3, <1>4, <1>5, <1>6 DEF Next

\* The facts the host proof builds on hold in every behaviour.
LEMMA ContextInvariant == Spec => []HostContext
<1>1. TypeInv /\ OneRolePerMember /\ WaitingIsHonoured /\ SizeInv => HostContext
  BY DEF HostContext, SizeContext
<1> QED
  BY <1>1, SizeInvariant, TypeInvariant, RolesDisjoint, WaitingHonoured, PTL

\* The host is always in the room, and in the crew whenever a mission is on or
\* its result is shown: through leaves, scheduled spectators and restarts.
THEOREM HostSeated == Spec => []HostInCharge
<1>1. Init => HostInCharge
  BY DEF Init, HostInCharge, Members
<1> QED
  BY <1>1, ContextInvariant, HostStep, PTL DEF Spec

-----------------------------------------------------------------------------
(* Votes and briefings always wait for somebody.                           *)

AnswersInv == VoteAwaitsAnswer /\ BriefingAwaitsSomeone

\* begin opens a briefing nobody has confirmed, without a vote.
LEMMA BeginAnswers ==
  ASSUME NEW m, NEW crew \in SUBSET People, NEW left, Begin(m, crew, left)
  PROVE  AnswersInv'
<1>1. players' # {}
  BY CrewNotEmpty DEF Begin, EnoughCrew, Stayers
<1> QED
  BY <1>1 DEF Begin, AnswersInv, VoteAwaitsAnswer, VoteOpen, BriefingAwaitsSomeone

\* Without a vote before and after, and outside the briefing, nothing is asked.
LEMMA NothingAsked ==
  ASSUME approvals' = {}, phase' # "briefing"
  PROVE  AnswersInv'
BY DEF AnswersInv, VoteAwaitsAnswer, VoteOpen, BriefingAwaitsSomeone

\* In the crew of a mission one player is not everybody.
LEMMA CrewIsMoreThanOne ==
  ASSUME SizeContext, SizeInv, phase # "lobby", NEW a
  PROVE  players # {a}
<1>1. Cardinality(players) >= 3
  BY DEF SizeInv, MissionCrew, MinCrew
<1>2. Cardinality({a}) = 1
  BY FS_Singleton
<1> QED
  BY <1>1, <1>2

\* No operation leaves a vote or a briefing that nobody has to answer.
LEMMA AnswersStep == AnswersInv /\ HostContext /\ [Next]_vars => AnswersInv'
<1> SUFFICES ASSUME AnswersInv, HostContext, [Next]_vars PROVE AnswersInv'
  OBVIOUS
<1>1. /\ TypeInv /\ OneRolePerMember
      /\ players \in SUBSET People /\ waiting \in SUBSET People
      /\ phase = "lobby" => approvals = {}
  BY DEF HostContext, SizeContext, TypeInv, TypeOK, VoteInMission, VoteOpen, InProgress
<1>2. CASE UNCHANGED <<phase, players, approvals, briefed>>
  BY <1>2 DEF AnswersInv, VoteAwaitsAnswer, VoteOpen, BriefingAwaitsSomeone
<1> USE DEF seats, flags
<1>3. CASE Membership
  <2>1. CASE \E u \in Humans : Join(u)
    BY <1>1, <2>1 DEF Join, AnswersInv, VoteAwaitsAnswer, VoteOpen, BriefingAwaitsSomeone
  <2>2. ASSUME NEW u \in Humans, Leave(u)
        PROVE  AnswersInv'
    <3>1. CASE LeaveQueue(u) \/ LeaveBench(u)
      BY <1>2, <3>1 DEF LeaveQueue, LeaveBench
    <3>2. CASE LeaveCrew(u)
      <4>1. players \ {u} \in SUBSET People
        BY <1>1
      <4> QED
        BY <3>2, <4>1, BeginAnswers, NothingAsked DEF LeaveCrew, ResetToLobby
    <3> QED
      BY <2>2, <3>1, <3>2 DEF Leave
  <2>3. CASE \E a \in Humans : BecomeSpectator(a)
    BY <1>1, <1>2, <2>3, NothingAsked DEF BecomeSpectator
  <2>4. CASE \E a \in Humans : JoinAsPlayer(a)
    BY <1>1, <2>4
       DEF JoinAsPlayer, AnswersInv, VoteAwaitsAnswer, VoteOpen, BriefingAwaitsSomeone
  <2>5. CASE \E a \in Humans, crew \in SUBSET Bots : FillDemoCrew(a, crew)
    BY <1>1, <2>5, NothingAsked DEF FillDemoCrew
  <2> QED
    BY <1>3, <2>1, <2>2, <2>3, <2>4, <2>5 DEF Membership
<1>4. CASE Lobby
  <2>1. CASE \E a \in Humans : StartMission(a)
    BY <1>1, <2>1, BeginAnswers DEF StartMission
  <2>2. CASE \/ \E a \in Humans, new \in Settings : UpdateSettings(a, new)
             \/ \E a \in Humans : SetCharacter(a)
             \/ \E a \in Humans, on \in BOOLEAN : SetReady(a, on)
    BY <1>2, <2>2 DEF UpdateSettings, SetCharacter, SetReady
  <2> QED
    BY <1>4, <2>1, <2>2 DEF Lobby
<1>5. CASE Mission
  <2>1. CASE \E a \in People : BriefingReady(a)
    BY <2>1 DEF BriefingReady, Crew, EveryoneBriefed, AnswersInv, VoteAwaitsAnswer, VoteOpen,
                BriefingAwaitsSomeone
  <2>2. CASE \E a \in People : Prepare(a) \/ AdvanceTrick(a) \/ PlayCard(a)
    BY <2>2, NothingAsked DEF Prepare, AdvanceTrick, PlayCard, Crew, VoteOpen
  <2>3. CASE \E a \in Humans : RequestDistress(a)
    BY <2>3, NothingAsked DEF RequestDistress, Host, Crew, VoteOpen
  <2>4. ASSUME NEW a \in Humans, RequestRestart(a)
        PROVE  AnswersInv'
    <3>1. players # {a}
      BY <2>4, CrewIsMoreThanOne DEF RequestRestart, InProgress, HostContext
    <3> QED
      BY <2>4, <3>1
         DEF RequestRestart, AnswersInv, VoteAwaitsAnswer, BriefingAwaitsSomeone
  <2>5. CASE \E a \in Humans : RejectRestart(a)
    BY <2>5
       DEF RejectRestart, AnswersInv, VoteAwaitsAnswer, VoteOpen, BriefingAwaitsSomeone
  <2>6. ASSUME NEW a \in People, ApproveRestart(a)
        PROVE  AnswersInv'
    <3>1. CASE Begin(mission, players, {})
      BY <1>1, <3>1, BeginAnswers
    <3>2. CASE ~AllApprove(a)
      BY <2>6, <3>2
         DEF ApproveRestart, AllApprove, AnswersInv, VoteAwaitsAnswer, VoteOpen,
             BriefingAwaitsSomeone
    <3> QED
      BY <2>6, <3>1, <3>2 DEF ApproveRestart
  <2> QED
    BY <1>5, <2>1, <2>2, <2>3, <2>4, <2>5, <2>6 DEF Mission
<1>6. CASE BetweenMissions
  <2>1. ASSUME NEW m, Begin(m, players \cup waiting, {})
        PROVE  AnswersInv'
    BY <1>1, <2>1, BeginAnswers
  <2>2. CASE \E a \in Humans : RetryMission(a)
    BY <2>1, <2>2 DEF RetryMission
  <2>3. CASE \E a \in Humans : NextMission(a)
    BY <2>1, <2>3, NothingAsked DEF NextMission, Host, Crew, VoteOpen
  <2>4. CASE \E a \in Humans : WaitForMission(a)
    BY <1>2, <2>4, NothingAsked DEF WaitForMission, Host, Crew, VoteOpen, Ended
  <2>5. CASE \E a \in Humans : RestartWithWaiting(a)
    BY <2>1, <2>5, NothingAsked DEF RestartWithWaiting, ResetToLobby
  <2> QED
    BY <1>6, <2>2, <2>3, <2>4, <2>5 DEF BetweenMissions
<1>7. CASE UNCHANGED vars
  BY <1>2, <1>7 DEF vars
<1> QED
  BY <1>3, <1>4, <1>5, <1>6, <1>7 DEF Next

\* Votes and briefings await an answer in every behaviour.
LEMMA AnswersInvariant == Spec => []AnswersInv
<1>1. Init => AnswersInv
  BY DEF Init, AnswersInv, VoteAwaitsAnswer, VoteOpen, BriefingAwaitsSomeone
<1> QED
  BY <1>1, ContextInvariant, AnswersStep, PTL DEF Spec

\* An open restart vote always lacks somebody's answer, in a running mission.
THEOREM VoteStaysOpenQuestion == Spec => []VoteAwaitsAnswer
<1>1. AnswersInv => VoteAwaitsAnswer
  BY DEF AnswersInv
<1> QED
  BY <1>1, AnswersInvariant, PTL

\* A briefing always lacks somebody's confirmation.
THEOREM BriefingStaysOpen == Spec => []BriefingAwaitsSomeone
<1>1. AnswersInv => BriefingAwaitsSomeone
  BY DEF AnswersInv
<1> QED
  BY <1>1, AnswersInvariant, PTL

-----------------------------------------------------------------------------
(* The campaign.                                                           *)

\* begin never completes a campaign.
LEMMA BeginCampaign ==
  ASSUME NEW m, NEW crew, NEW left, Begin(m, crew, left)
  PROVE  CampaignIsExhausted'
BY DEF Begin, CampaignIsExhausted

\* No operation completes a campaign that has a mission left.
LEMMA CampaignStep == CampaignIsExhausted /\ TypeInv /\ [Next]_vars => CampaignIsExhausted'
<1> SUFFICES ASSUME CampaignIsExhausted, TypeInv, [Next]_vars PROVE CampaignIsExhausted'
  OBVIOUS
<1>1. CASE UNCHANGED <<phase, settings, run>>
  BY <1>1 DEF CampaignIsExhausted, run
<1>2. CASE phase' # "campaign_complete"
  BY <1>2 DEF CampaignIsExhausted
<1>3. CASE Membership
  BY <1>1, <1>2, <1>3, BeginCampaign
     DEF Membership, Join, Leave, LeaveQueue, LeaveBench, LeaveCrew, ResetToLobby,
         BecomeSpectator, JoinAsPlayer, FillDemoCrew
<1>4. CASE Lobby
  BY <1>1, <1>2, <1>4, BeginCampaign
     DEF Lobby, UpdateSettings, SetCharacter, SetReady, StartMission
<1>5. CASE Mission
  BY <1>1, <1>2, <1>5, BeginCampaign
     DEF Mission, BriefingReady, Prepare, PlayCard, AdvanceTrick, ApproveRestart,
         RequestDistress, RequestRestart, RejectRestart
<1>6. CASE BetweenMissions
  <2>1. CASE \E a \in Humans : RetryMission(a) \/ WaitForMission(a) \/ RestartWithWaiting(a)
    BY <1>1, <1>2, <2>1, BeginCampaign
       DEF RetryMission, WaitForMission, RestartWithWaiting, ResetToLobby
  <2>2. ASSUME NEW a \in Humans, NextMission(a)
        PROVE  CampaignIsExhausted'
    <3>1. CASE NextChoices = {} /\ UNCHANGED run
      <4>1. mission \in Missions /\ drawn \subseteq Missions
        BY <2>2, MissionNumbered DEF NextMission, Won, TypeInv, TypeOK
      <4>2. CASE settings.mode = "random"
        BY <2>2, <3>1, <4>1, <4>2 DEF NextMission, NextChoices, CampaignIsExhausted, run
      <4>3. CASE settings.mode # "random"
        <5>1. mission + 1 \notin Missions
          BY <3>1, <4>3 DEF NextChoices
        <5>2. mission = LastMission
          BY <4>1, <5>1, RoomAssumption DEF Missions
        <5> QED
          BY <2>2, <3>1, <4>3, <5>2 DEF NextMission, CampaignIsExhausted, run
      <4> QED
        BY <4>2, <4>3
    <3> QED
      BY <2>2, <3>1, BeginCampaign DEF NextMission
  <2> QED
    BY <1>6, <2>1, <2>2 DEF BetweenMissions
<1>7. CASE UNCHANGED vars
  BY <1>1, <1>7 DEF vars
<1> QED
  BY <1>3, <1>4, <1>5, <1>6, <1>7 DEF Next

\* A campaign is complete only when no mission is left to play.
THEOREM CampaignExhausted == Spec => []CampaignIsExhausted
<1>1. Init => CampaignIsExhausted
  BY DEF Init, CampaignIsExhausted
<1> QED
  BY <1>1, TypeInvariant, CampaignStep, PTL DEF Spec

-----------------------------------------------------------------------------
(* What a step may never do.                                               *)

CrewFixed ==
  attempt' = attempt /\ {phase, phase'} \subseteq InProgress => players' = players

\* No operation seats or unseats anybody within an attempt.
LEMMA CrewFixedStep == [Next]_vars => [CrewFixed]_vars
<1> SUFFICES ASSUME Next PROVE CrewFixed
  OBVIOUS
<1>1. CASE UNCHANGED players
  BY <1>1 DEF CrewFixed
<1>2. CASE phase \notin InProgress \/ phase' \notin InProgress
  BY <1>2 DEF CrewFixed
<1>3. ASSUME NEW m, NEW crew, NEW left, Begin(m, crew, left)
      PROVE  CrewFixed
  BY <1>3 DEF Begin, FreshAttempt, CrewFixed
<1>4. "lobby" \notin InProgress /\ Ended \cap InProgress = {}
  BY DEF InProgress, Ended
<1> USE DEF seats, flags
<1>5. CASE Membership
  BY <1>1, <1>2, <1>3, <1>4, <1>5
     DEF Membership, Join, Leave, LeaveQueue, LeaveBench, LeaveCrew, ResetToLobby,
         BecomeSpectator, JoinAsPlayer, FillDemoCrew
<1>6. CASE Lobby
  BY <1>1, <1>3, <1>6 DEF Lobby, UpdateSettings, SetCharacter, SetReady, StartMission
<1>7. CASE Mission
  BY <1>1, <1>2, <1>3, <1>4, <1>7
     DEF Mission, BriefingReady, Prepare, PlayCard, SeatAfterMission, AdvanceTrick,
         ApproveRestart, RequestDistress, RequestRestart, RejectRestart
<1>8. CASE BetweenMissions
  BY <1>1, <1>2, <1>3, <1>4, <1>8
     DEF BetweenMissions, RetryMission, NextMission, WaitForMission, RestartWithWaiting,
         ResetToLobby
<1> QED
  BY <1>5, <1>6, <1>7, <1>8 DEF Next

\* The crew an attempt was dealt to is the crew that plays it: nobody is
\* seated or unseated while it is in progress.
THEOREM CrewStaysFixed == Spec => CrewFixedDuringAttempt
BY CrewFixedStep, PTL DEF Spec, CrewFixedDuringAttempt, CrewFixed

HostKept == host' # host => host \notin players'

\* begin takes the office only from somebody it benches or who has left.
LEMMA BeginHostKept ==
  ASSUME NEW m, NEW crew, NEW left, Begin(m, crew, left), left \cap crew = {}
  PROVE  HostKept
BY DEF Begin, HostAfter, Stayers, Scheduled, HostKept

\* No operation replaces a host who keeps the seat.
LEMMA HostKeptStep == OneRolePerMember /\ [Next]_vars => [HostKept]_vars
<1> SUFFICES ASSUME OneRolePerMember, Next PROVE HostKept
  OBVIOUS
<1>1. CASE UNCHANGED host
  BY <1>1 DEF HostKept
<1> USE DEF seats, flags
<1>2. CASE Membership
  <2>1. ASSUME NEW u \in Humans, LeaveBench(u)
        PROVE  HostKept
    BY <2>1 DEF LeaveBench, HostAfter, HostKept, OneRolePerMember
  <2>2. ASSUME NEW u \in Humans, LeaveCrew(u)
        PROVE  HostKept
    <3>1. CASE DropSeat(u) /\ host' \in HostAfter({u}, players \ {u}, waiting, spectators)
      BY <3>1 DEF DropSeat, HostAfter, HostKept
    <3>2. CASE Begin(mission, players \ {u}, {u})
      BY <3>2, BeginHostKept
    <3>3. CASE /\ host' \in HostAfter({u}, players \ {u}, waiting, spectators)
               /\ ResetToLobby((players \ {u}) \cup waiting)
      BY <2>2, <3>3 DEF LeaveCrew, ResetToLobby, HostAfter, HostKept, OneRolePerMember
    <3> QED
      BY <2>2, <3>1, <3>2, <3>3 DEF LeaveCrew
  <2>3. ASSUME NEW a \in Humans, BecomeSpectator(a)
        PROVE  HostKept
    BY <2>3 DEF BecomeSpectator, DropSeat, HostAfter, HostKept
  <2> QED
    BY <1>1, <1>2, <2>1, <2>2, <2>3
       DEF Membership, Join, Leave, LeaveQueue, JoinAsPlayer, FillDemoCrew
<1>3. CASE Lobby
  BY <1>1, <1>3, BeginHostKept
     DEF Lobby, UpdateSettings, SetCharacter, SetReady, StartMission
<1>4. CASE Mission
  BY <1>1, <1>4, BeginHostKept
     DEF Mission, BriefingReady, Prepare, PlayCard, AdvanceTrick, ApproveRestart,
         RequestDistress, RequestRestart, RejectRestart
<1>5. CASE BetweenMissions
  BY <1>1, <1>5, BeginHostKept
     DEF BetweenMissions, RetryMission, NextMission, WaitForMission, RestartWithWaiting
<1> QED
  BY <1>2, <1>3, <1>4, <1>5 DEF Next

\* The host is replaced only on giving up the seat or leaving the room.
THEOREM HostOfficeKept == Spec => HostKeepsOffice
BY RolesDisjoint, HostKeptStep, PTL DEF Spec, HostKeepsOffice, HostKept

UnseatedOnRequest ==
  \A p \in players \cap spectators' :
     \/ phase = "lobby" /\ phase' = "lobby"
     \/ p \in leaving /\ attempt' # attempt

\* No operation unseats a player who has not asked for it.
LEMMA UnseatedStep == OneRolePerMember /\ [Next]_vars => [UnseatedOnRequest]_vars
<1> SUFFICES ASSUME OneRolePerMember, Next PROVE UnseatedOnRequest
  OBVIOUS
<1>1. CASE spectators' \subseteq spectators
  BY <1>1 DEF UnseatedOnRequest, OneRolePerMember
<1>2. ASSUME NEW m, NEW crew, NEW left, Begin(m, crew, left)
      PROVE  UnseatedOnRequest
  BY <1>2 DEF Begin, Scheduled, FreshAttempt, UnseatedOnRequest, OneRolePerMember
<1>3. CASE \E u \in Humans : Join(u)
  BY <1>3 DEF Join, Members, UnseatedOnRequest, OneRolePerMember
<1>4. CASE \E a \in Humans : BecomeSpectator(a)
  BY <1>1, <1>4 DEF BecomeSpectator, seats, UnseatedOnRequest
<1> USE DEF seats, flags
<1>5. CASE Membership
  BY <1>1, <1>2, <1>3, <1>4, <1>5
     DEF Membership, Leave, LeaveQueue, LeaveBench, LeaveCrew, JoinAsPlayer, FillDemoCrew
<1>6. CASE Lobby
  BY <1>1, <1>2, <1>6 DEF Lobby, UpdateSettings, SetCharacter, SetReady, StartMission
<1>7. CASE Mission
  BY <1>1, <1>2, <1>7
     DEF Mission, BriefingReady, Prepare, PlayCard, AdvanceTrick, ApproveRestart,
         RequestDistress, RequestRestart, RejectRestart
<1>8. CASE BetweenMissions
  BY <1>1, <1>2, <1>8
     DEF BetweenMissions, RetryMission, NextMission, WaitForMission, RestartWithWaiting
<1> QED
  BY <1>5, <1>6, <1>7, <1>8 DEF Next

\* Nobody loses a seat to the spectators' bench without having asked for it.
THEOREM UnseatedOnlyOnRequest == Spec => SeatLostOnlyOnRequest
BY RolesDisjoint, UnseatedStep, PTL DEF Spec, SeatLostOnlyOnRequest, UnseatedOnRequest

WatchersGo == attempt' \notin {attempt, None} => players' \cap leaving = {}
ReadinessGoes ==
  settings' # settings \/ (phase # "lobby" /\ phase' = "lobby") => ready' \subseteq Bots

\* Only begin makes a new attempt, and it benches all who asked for it.
LEMMA WatchersGoStep == [Next]_vars => [WatchersGo]_vars
<1> SUFFICES ASSUME Next PROVE WatchersGo
  OBVIOUS
<1>1. CASE UNCHANGED attempt
  BY <1>1 DEF WatchersGo
<1>2. ASSUME NEW m, NEW crew, NEW left, Begin(m, crew, left)
      PROVE  WatchersGo
  BY <1>2 DEF Begin, Stayers, Scheduled, WatchersGo
<1>3. ASSUME NEW crew, ResetToLobby(crew)
      PROVE  WatchersGo
  BY <1>3 DEF ResetToLobby, WatchersGo
<1> USE DEF run
<1>4. CASE Membership
  BY <1>1, <1>2, <1>3, <1>4
     DEF Membership, Join, Leave, LeaveQueue, LeaveBench, LeaveCrew, BecomeSpectator, JoinAsPlayer,
         FillDemoCrew
<1>5. CASE Lobby
  BY <1>1, <1>2, <1>5 DEF Lobby, UpdateSettings, SetCharacter, SetReady, StartMission
<1>6. CASE Mission
  BY <1>1, <1>2, <1>6
     DEF Mission, BriefingReady, Prepare, PlayCard, AdvanceTrick, ApproveRestart,
         RequestDistress, RequestRestart, RejectRestart
<1>7. CASE BetweenMissions
  BY <1>1, <1>2, <1>3, <1>7
     DEF BetweenMissions, RetryMission, NextMission, WaitForMission, RestartWithWaiting
<1> QED
  BY <1>4, <1>5, <1>6, <1>7 DEF Next

\* Only update_settings changes the settings and only resetToLobby leads back to
\* the lobby, and both leave nobody ready but the bots.
LEMMA ReadinessGoesStep == TypeOK /\ [Next]_vars => [ReadinessGoes]_vars
<1> SUFFICES ASSUME TypeOK, Next PROVE ReadinessGoes
  OBVIOUS
<1>1. CASE UNCHANGED settings /\ (phase # "lobby" => phase' # "lobby")
  BY <1>1 DEF ReadinessGoes
<1>2. ASSUME NEW m, NEW crew, NEW left, Begin(m, crew, left), UNCHANGED settings
      PROVE  ReadinessGoes
  BY <1>1, <1>2 DEF Begin
<1>3. ASSUME NEW crew, ResetToLobby(crew)
      PROVE  ReadinessGoes
  BY <1>3 DEF ResetToLobby, ReadyAgain, ReadinessGoes
<1>4. CASE Membership
  BY <1>1, <1>2, <1>3, <1>4
     DEF Membership, Join, Leave, LeaveQueue, LeaveBench, LeaveCrew, BecomeSpectator, JoinAsPlayer,
         FillDemoCrew
<1>5. CASE \E a \in Humans, new \in Settings : UpdateSettings(a, new)
  BY <1>5 DEF UpdateSettings, ReadyAgain, ReadinessGoes
<1>6. CASE Lobby
  BY <1>1, <1>2, <1>5, <1>6 DEF Lobby, SetCharacter, SetReady, StartMission
<1>7. CASE Mission
  BY <1>1, <1>2, <1>7
     DEF Mission, BriefingReady, Prepare, PlayCard, AdvanceTrick, ApproveRestart,
         RequestDistress, RequestRestart, RejectRestart, InProgress
<1>8. CASE BetweenMissions
  BY <1>1, <1>2, <1>3, <1>8
     DEF BetweenMissions, RetryMission, NextMission, WaitForMission, RestartWithWaiting
<1> QED
  BY <1>4, <1>6, <1>7, <1>8 DEF Next

\* Whoever asked to watch does, once the next attempt begins.
THEOREM RequestsToWatchKept == Spec => SpectatorRequestKept
BY WatchersGoStep, PTL DEF Spec, SpectatorRequestKept, WatchersGo

\* Readiness does not outlive the settings or the mission it was given for.
THEOREM ReadinessNotKept == Spec => ReadinessExpires
BY TypeCorrect, ReadinessGoesStep, PTL DEF Spec, ReadinessExpires, ReadinessGoes

MissionStays ==
  mission' # mission => phase \in {"success", "lobby"} \/ phase' = "lobby"
DrawIsNew ==
  phase = "success" /\ phase' = "briefing" /\ mission' # mission
    /\ settings.mode = "random" => mission' \notin drawn

\* Only start_mission and next_mission take up another mission, and the latter
\* draws among those that are left.
LEMMA MissionStaysStep == [Next]_vars => [MissionStays /\ DrawIsNew]_vars
<1> SUFFICES ASSUME Next PROVE MissionStays /\ DrawIsNew
  OBVIOUS
<1>1. CASE UNCHANGED mission
  BY <1>1 DEF MissionStays, DrawIsNew
<1>2. ASSUME NEW crew, NEW left, Begin(mission, crew, left)
      PROVE  MissionStays /\ DrawIsNew
  BY <1>1, <1>2 DEF Begin
<1>3. ASSUME NEW crew, ResetToLobby(crew)
      PROVE  MissionStays /\ DrawIsNew
  BY <1>3 DEF ResetToLobby, MissionStays, DrawIsNew
<1>4. ASSUME NEW a \in Humans, StartMission(a)
      PROVE  MissionStays /\ DrawIsNew
  BY <1>4 DEF StartMission, MissionStays, DrawIsNew
<1>5. ASSUME NEW a \in Humans, NextMission(a)
      PROVE  MissionStays /\ DrawIsNew
  BY <1>1, <1>5 DEF NextMission, Won, run, Begin, NextChoices, MissionStays, DrawIsNew
<1> USE DEF run
<1>6. CASE Membership
  BY <1>1, <1>2, <1>3, <1>6
     DEF Membership, Join, Leave, LeaveQueue, LeaveBench, LeaveCrew, BecomeSpectator, JoinAsPlayer,
         FillDemoCrew
<1>7. CASE Lobby
  BY <1>1, <1>4, <1>7 DEF Lobby, UpdateSettings, SetCharacter, SetReady
<1>8. CASE Mission
  BY <1>1, <1>2, <1>8
     DEF Mission, BriefingReady, Prepare, PlayCard, AdvanceTrick, ApproveRestart,
         RequestDistress, RequestRestart, RejectRestart
<1>9. CASE BetweenMissions
  BY <1>1, <1>2, <1>3, <1>5, <1>9
     DEF BetweenMissions, RetryMission, WaitForMission, RestartWithWaiting
<1> QED
  BY <1>6, <1>7, <1>8, <1>9 DEF Next

\* The mission changes only after a success or by way of the lobby.
THEOREM MissionIsKept == Spec => MissionKept
<1>1. [Next]_vars => [MissionStays]_vars
  BY MissionStaysStep
<1>2. QED
  BY <1>1, PTL DEF Spec, MissionKept, MissionStays

\* The next mission of a random campaign is one the room has not flown.
THEOREM NextDrawFresh == Spec => NextDrawIsFresh
<1>1. [Next]_vars => [DrawIsNew]_vars
  BY MissionStaysStep
<1>2. QED
  BY <1>1, PTL DEF Spec, NextDrawIsFresh, DrawIsNew

-----------------------------------------------------------------------------
(* The promises together, as the model checker checks them.           *)

\* removePlayer, begin, applyCommand: every command leaves the lists, the
\* seats, the host and the phase in agreement.
THEOREM CrewAlwaysSound == Spec => []CrewSound
<1>1. TypeOK /\ OneRolePerMember /\ CrewCapacity /\ MissionCrew
        /\ HostInCharge /\ PhaseShape => CrewSound
  BY DEF CrewSound
<1>2. QED
  BY <1>1, TypeCorrect, RolesDisjoint, CapacityKept, CrewLargeEnough,
     HostSeated, PhaseShaped, PTL

\* vote_restart, briefing_ready, removePlayer: no question stays open that
\* everybody has answered.
THEOREM NobodyIsHeldUp == Spec => []NobodyHeldUp
<1>1. VoteAwaitsAnswer /\ BriefingAwaitsSomeone => NobodyHeldUp
  BY DEF NobodyHeldUp
<1>2. QED
  BY <1>1, VoteStaysOpenQuestion, BriefingStaysOpen, PTL

\* resolve, resolve_waiting, next_mission: those waiting are seated when they
\* were told, and a campaign is complete only with no mission left.
THEOREM AgreementsAreHeld == Spec => []AgreementsHold
<1>1. WaitingIsHonoured /\ CampaignIsExhausted => AgreementsHold
  BY DEF AgreementsHold
<1>2. QED
  BY <1>1, WaitingHonoured, CampaignExhausted, PTL

\* movePlayerToSpectators, hostCandidates, resolve: nobody loses a seat, a hand
\* or the office of host without giving it up.
THEOREM SeatsAreKept == Spec => SeatsKept
BY HostOfficeKept, UnseatedOnlyOnRequest, CrewStaysFixed DEF SeatsKept

\* begin, update_settings, resetToLobby: a wish to watch is granted at the next
\* attempt, and readiness does not outlive what it was given for.
THEOREM WishesAreKept == Spec => WishesKept
BY RequestsToWatchKept, ReadinessNotKept DEF WishesKept

\* next_mission, retry_mission, removePlayer: the missions of a campaign follow one
\* another as its mode says, whoever comes and goes.
THEOREM MissionsFollow == Spec => MissionsInOrder
BY MissionIsKept, NextDrawFresh DEF MissionsInOrder

-----------------------------------------------------------------------------
(* Whose hand was seen.                                                    *)

AttemptGoesOn ==
  attempt' = attempt /\ phase' \in InProgress => phase \in InProgress

\* An attempt that is over, or has not begun, comes back only as another one.
LEMMA AttemptStep == [Next]_vars => [AttemptGoesOn]_vars
<1> SUFFICES ASSUME Next PROVE AttemptGoesOn
  OBVIOUS
<1>1. CASE UNCHANGED phase
  BY <1>1 DEF AttemptGoesOn
<1>2. CASE phase \in InProgress \/ phase' \notin InProgress
  BY <1>2 DEF AttemptGoesOn
<1>3. ASSUME NEW m, NEW crew, NEW left, Begin(m, crew, left)
      PROVE  AttemptGoesOn
  BY <1>3 DEF Begin, FreshAttempt, AttemptGoesOn
<1>4. {"lobby", "campaign_complete"} \cap InProgress = {}
      /\ {"briefing", "preparation", "task_selection", "playing", "trick_result"} \subseteq InProgress
  BY DEF InProgress
<1> USE DEF seats, flags
<1>5. CASE Membership
  BY <1>1, <1>2, <1>3, <1>4, <1>5
     DEF Membership, Join, Leave, LeaveQueue, LeaveBench, LeaveCrew, ResetToLobby,
         BecomeSpectator, JoinAsPlayer, FillDemoCrew
<1>6. CASE Lobby
  BY <1>1, <1>3, <1>6 DEF Lobby, UpdateSettings, SetCharacter, SetReady, StartMission
<1>7. CASE Mission
  BY <1>1, <1>2, <1>3, <1>4, <1>7
     DEF Mission, BriefingReady, Prepare, PlayCard, AdvanceTrick,
         ApproveRestart, RequestDistress, RequestRestart, RejectRestart
<1>8. CASE BetweenMissions
  BY <1>1, <1>2, <1>3, <1>4, <1>8
     DEF BetweenMissions, RetryMission, NextMission, WaitForMission, RestartWithWaiting,
         ResetToLobby
<1> QED
  BY <1>5, <1>6, <1>7, <1>8 DEF Next

ViewInv == ViewTypeOK /\ NoSeatAfterLooking

\* What a step adds to those who have seen a hand are no players: they are sent
\* their own.
LEMMA PlayersSeeTheirOwn ==
  ASSUME Look
  PROVE  players' \cap seen' \subseteq IF attempt' = attempt THEN seen ELSE {}
BY DEF Look, HandOwner

\* Whoever has been sent a hand stays without a seat for as long as the attempt
\* goes on, and the choices are those of the bench.
LEMMA ViewStep == ViewInv /\ [ViewNext]_allVars => ViewInv'
<1> SUFFICES ASSUME ViewInv, [ViewNext]_allVars PROVE ViewInv'
  OBVIOUS
<1>1. CASE RoomStep
  <2>1. view' = Choices /\ Look /\ [Next]_vars
    BY <1>1 DEF RoomStep
  <2>2. ViewTypeOK'
    <3>1. view' \in [Humans -> People \cup {None}] /\ seen' \subseteq Humans
      BY <2>1 DEF ViewInv, ViewTypeOK, Choices, Look
    <3>2. \A u \in Humans : view'[u] # None => u \in spectators'
      BY <2>1 DEF Choices
    <3> QED
      BY <3>1, <3>2 DEF ViewTypeOK
  <2>3. ASSUME phase' \in InProgress PROVE players' \cap seen' = {}
    <3>1. CASE attempt' # attempt
      BY <2>1, <3>1, PlayersSeeTheirOwn
    <3>2. CASE attempt' = attempt
      <4>1. phase \in InProgress /\ players' = players
        BY <2>1, <2>3, <3>2, AttemptStep, CrewFixedStep
           DEF AttemptGoesOn, CrewFixed, vars, seats
      <4> QED
        BY <2>1, <3>2, <4>1, PlayersSeeTheirOwn DEF ViewInv, NoSeatAfterLooking
    <3> QED
      BY <3>1, <3>2
  <2> QED
    BY <2>2, <2>3 DEF ViewInv, NoSeatAfterLooking
<1>2. ASSUME NEW a \in Humans, NEW p \in People \cup {None}, ViewPlayer(a, p)
      PROVE  ViewInv'
  <2>1. /\ a \in spectators /\ view' = [view EXCEPT ![a] = p] /\ Look
        /\ UNCHANGED <<phase, players, spectators, attempt>>
    BY <1>2 DEF ViewPlayer, vars, seats, run
  <2>2. ViewTypeOK'
    BY <2>1 DEF ViewInv, ViewTypeOK, Look
  <2>3. NoSeatAfterLooking'
    BY <2>1, PlayersSeeTheirOwn DEF ViewInv, NoSeatAfterLooking
  <2> QED
    BY <2>2, <2>3 DEF ViewInv
<1>3. CASE UNCHANGED allVars
  BY <1>3 DEF allVars, viewVars, vars, seats, ViewInv, ViewTypeOK, NoSeatAfterLooking
<1> QED
  BY <1>1, <1>2, <1>3 DEF ViewNext

\* Nobody plays in an attempt after having been sent the hand of another player
\* of it, whoever watches, asks for a seat, leaves or votes in between.
THEOREM NobodyPlaysAfterLooking == ViewSpec => []NoSeatAfterLooking
<1>1. ViewInit => ViewInv
  BY DEF ViewInit, ViewInv, ViewTypeOK, NoSeatAfterLooking
<1>2. ViewInv => NoSeatAfterLooking
  BY DEF ViewInv
<1> QED
  BY <1>1, <1>2, ViewStep, PTL DEF ViewSpec
=============================================================================
