------------------------------ MODULE CrewSetup ------------------------------
(***************************************************************************)
(* One mission from the deal to the first card: briefing, roles, tokens,   *)
(* the assignment of the goals, the transfer of five players and the       *)
(* distress exchange (src/src/game/engine.ts: begin, advanceSetup,         *)
(* startPlaying and the commands they wait for).                           *)
(*                                                                         *)
(* stage joins State.phase and preparation.stage: "task_selection" is the  *)
(* phase of that name, "playing" is the start of the first trick and       *)
(* "opened" any later moment, when a card or a communication is out.       *)
(* What a member answers matters to the engine in the distress vote only;  *)
(* of the other answers the model keeps who has given one.  Which card a   *)
(* goal shows plays no part here.  The variables dealt and attempts are    *)
(* auxiliary: the hands begin dealt, and how often it has run.             *)
(***************************************************************************)
EXTENDS CrewTable

CONSTANTS
  MissionIds,   \* the missions attempted
  TaskCount,    \* taskCount of each, in shared/missions.json
  Deals,        \* bound: the deals considered
  MaxAttempts   \* bound: how often begin runs

\* Nobody holds rockets only, as ten cards of forty with four rockets ensure.
SetupAssumption ==
  /\ N \in Nat /\ N >= 3
  /\ TopRank \in Nat \ {0} /\ TopRocket \in Nat \ {0}
  /\ IsFiniteSet(Colours) /\ Black \in Colours /\ Rocket \notin Colours
  /\ MissionIds \subseteq 1 .. 50
  /\ TaskCount \in [MissionIds -> Nat]
  /\ \A d \in Deals : DealtEvenly(d) /\ \A p \in Players : \E c \in d[p] : ~IsRocket(c)
  /\ MaxAttempts \in Nat
  /\ None \notin Players /\ None \notin Deck

VARIABLES
  mission,       \* missionId
  stage,         \* phase and preparation.stage
  hands,         \* State.hands
  turn,          \* turnPlayerId
  owner,         \* ownerId of each goal
  token,         \* token of each goal
  done,          \* roleDone, tokensDone, assignmentDone, transferDone
  eligible,      \* preparation.eligiblePlayerIds
  active,        \* preparation.activeTaskId
  answered,      \* preparation.answeredPlayerIds
  refused,       \* who voted no on the distress signal
  briefed,       \* players with briefingReady
  distress,      \* distressDirection, distressResolved, distressEverUsed, distressUsed
  picks,         \* distressCards
  roles,         \* selectedPlayerId, secondaryPlayerId, silentPlayerId
  attemptNumber, \* attemptNumber
  dealt,         \* the hands as begin dealt them
  attempts       \* the number of attempts begun

prep == <<eligible, active, answered, refused>>
deal == <<mission, dealt, attempts>>
vars == <<stage, hands, turn, owner, token, done, prep, briefed, distress,
          picks, roles, attemptNumber, deal>>

Tasks   == 1 .. TaskCount[mission]
captain == Commander(dealt)
Open(own) == {t \in DOMAIN own : own[t] = None}
Dealt   == TokensDealt(mission, TaskCount[mission])
Bare(t) == Dealt[t].kind = "none"
SeatBefore(p) == CHOOSE q \in Players : SeatAfter(q) = p

RoleMissions  == {5, 11, 33, 41, 50}
TokenMissions == {23, 40}
\* roleIncludesCommander, under the rules a new attempt is played by.
RoleIncludesCommander == mission # 11
-----------------------------------------------------------------------------
(* The order of the stages.                                                *)

\* distributionTargets: who may take the next goal so that the shares can
\* still end within one of each other.
LeastShare(own) == Cardinality(DOMAIN own) \div N
MostShare(own)  == (Cardinality(DOMAIN own) + N - 1) \div N
\* The goals q has when p takes this one.
ShareWith(own, p, q) ==
  Cardinality({t \in DOMAIN own : own[t] = q}) + (IF p = q THEN 1 ELSE 0)
\* The goals then missing to the least share.
Lacking(own, p) ==
  {x \in Players \X (1 .. LeastShare(own)) : x[2] > ShareWith(own, p, x[1])}
DistributionTargets(own) ==
  {p \in Players : /\ \A q \in Players : ShareWith(own, p, q) <= MostShare(own)
                   /\ Cardinality(Lacking(own, p)) <= Cardinality(Open(own)) - 1}

DistressDue(dis) ==
  ~dis.resolved /\ (dis.direction # None \/ mission = 46 \/ dis.everUsed)

\* What advanceSetup comes to next.
\* Mutant: a transfer made is not remembered.
NextStage_TransferAgain(fin, own, dis) ==
  IF "assignment" \notin fin /\ Open(own) # {}
  THEN IF Assignment(mission) = "distribution" THEN "captain_distribution"
       ELSE IF Assignment(mission) = "decision" THEN "captain_decision" ELSE "task_selection"
  ELSE IF N = 5 /\ FivePlayerTransfer(mission) THEN "task_transfer"
  ELSE IF DistressDue(dis) THEN "distress_vote"
  ELSE "playing"
NextStage(fin, own, dis) ==
  IF mission \in RoleMissions /\ "role" \notin fin THEN "role"
  ELSE IF mission \in TokenMissions /\ "tokens" \notin fin THEN "token_edit"
  ELSE IF "assignment" \notin fin /\ Open(own) # {}
       THEN CASE Assignment(mission) = "decision"     -> "captain_decision"
              [] Assignment(mission) = "distribution" -> "captain_distribution"
              [] Assignment(mission) = "draft"        -> "task_selection"
  ELSE IF N = 5 /\ FivePlayerTransfer(mission) /\ "transfer" \notin fin THEN "task_transfer"
  ELSE IF DistressDue(dis) THEN "distress_vote"
  ELSE "playing"

\* Who may be named at a stage.
EligibleAt(s, own) ==
  CASE s = "role" -> IF RoleIncludesCommander THEN Players ELSE Players \ {captain}
    [] s = "captain_decision"     -> Players \ {captain}
    [] s = "captain_distribution" -> DistributionTargets(own)
    [] s \in {"playing", "task_selection"} -> {}
    [] OTHER -> Players

\* prepare: a stage opens without answers.
Prepare(s, own) ==
  /\ stage'    = s
  /\ turn'     = captain
  /\ eligible' = EligibleAt(s, own)
  /\ active'   = IF s = "captain_distribution"
                 THEN CHOOSE t \in Open(own) : \A u \in Open(own) : t <= u ELSE None
  /\ answered' = {} /\ refused' = {}

\* startPlaying: in mission 46 the role falls to the seat after the highest
\* black card.
AfterBlackNine(held) == CHOOSE p \in Selected(46, held) : TRUE

\* advanceSetup once fin is done, own are the owners, dis is the distress
\* record, held the hands and r the roles.
AdvanceSetup(fin, own, dis, held, r) ==
  LET s == NextStage(fin, own, dis)
  IN /\ Prepare(s, own)
     /\ owner' = own
     /\ done'  = IF s \in {"task_transfer", "distress_vote", "playing"}
                 THEN fin \cup {"assignment"} ELSE fin
     /\ distress' = IF s = "distress_vote" /\ dis.direction = None
                    THEN [dis EXCEPT !.direction = "left"] ELSE dis
     /\ hands' = held
     /\ roles' = IF s = "playing" /\ mission = 46
                 THEN [r EXCEPT !.selected = AfterBlackNine(held)] ELSE r
-----------------------------------------------------------------------------
(* The attempt.                                                            *)

\* freshSetup: nobody has chosen a card.
FreshPicks == [p \in Players |-> None]
NoRoles == [selected |-> None, secondary |-> None, silent |-> None]

\* begin: a new deal for the same mission.
Begin ==
  /\ attempts < MaxAttempts
  /\ \E d \in Deals : dealt' = d /\ hands' = d /\ turn' = Commander(d)
  /\ stage' = "briefing"
  /\ owner' = [t \in Tasks |-> None]
  /\ token' = Dealt
  /\ done' = {} /\ briefed' = {}
  /\ eligible' = {} /\ active' = None /\ answered' = {} /\ refused' = {}
  /\ distress' = [distress EXCEPT !.direction = None, !.resolved = FALSE, !.used = FALSE]
  /\ picks' = FreshPicks
  /\ roles' = NoRoles
  /\ attemptNumber' = attemptNumber + 1
  /\ attempts' = attempts + 1
  /\ UNCHANGED mission

\* briefing_ready
BriefingReady(p) ==
  /\ stage = "briefing"
  /\ briefed' = briefed \cup {p}
  /\ IF briefed' = Players
     THEN AdvanceSetup(done, owner, distress, hands, roles)
     ELSE UNCHANGED <<stage, turn, owner, done, prep, distress, hands, roles>>
  /\ UNCHANGED <<token, picks, attemptNumber, deal>>

\* Mutant: the signal can be requested again.
SignalOpen_Again == TRUE
SignalOpen == ~distress.resolved /\ distress.direction = None

\* request_distress, before the first card and the first communication.
RequestDistress(way) ==
  /\ stage \in {"briefing", "playing"}
  /\ SignalOpen
  /\ distress' = [distress EXCEPT !.direction = way]
  /\ IF stage = "playing" THEN Prepare("distress_vote", owner)
     ELSE UNCHANGED <<stage, turn, prep>>
  /\ UNCHANGED <<hands, owner, token, done, briefed, picks, roles, attemptNumber, deal>>

\* A card is played or a member communicates: play is open.
FirstMove ==
  /\ stage = "playing"
  /\ stage' = "opened"
  /\ UNCHANGED <<hands, turn, owner, token, done, prep, briefed, distress, picks, roles,
                 attemptNumber, deal>>
-----------------------------------------------------------------------------
(* Answers.                                                                *)

CaptainAsks == {"captain_decision", "captain_distribution"}

\* preparation_response: once per stage, and nobody is asked in mission 11.
Respond(p, no) ==
  /\ stage \in {"role", "distress_vote"} \cup CaptainAsks
  /\ p \notin answered
  /\ stage = "role" => mission # 11
  /\ LET said == answered \cup {p}
         nays == IF no /\ stage = "distress_vote" THEN refused \cup {p} ELSE refused
         all  == stage = "distress_vote" /\ said = Players
     IN \/ /\ ~all
           /\ answered' = said /\ refused' = nays
           /\ UNCHANGED <<stage, turn, eligible, active, owner, done, distress, hands, roles>>
        \/ /\ all /\ nays = {}
           /\ Prepare("distress_cards", owner)
           /\ UNCHANGED <<owner, done, distress, hands, roles>>
        \/ /\ all /\ nays # {}
           /\ AdvanceSetup(done, owner, [distress EXCEPT !.resolved = TRUE], hands, roles)
  /\ UNCHANGED <<token, briefed, picks, attemptNumber, deal>>

\* All cards change hands at once, to the left or to the right.
\* Mutant: to the left, whatever was agreed.
Exchanged_Left(held, out) ==
  [p \in Players |-> (held[p] \ {out[p]}) \cup {out[SeatBefore(p)]}]
Exchanged(held, out) ==
  [p \in Players |-> (held[p] \ {out[p]})
     \cup {out[IF distress.direction = "left" THEN SeatBefore(p) ELSE SeatAfter(p)]}]

Exchangeable(p) == {c \in hands[p] : ~IsRocket(c)}

FirstUse == ~distress.everUsed

\* select_distress_card: the last choice makes the exchange.
SelectDistressCard(p, c) ==
  /\ stage = "distress_cards"
  /\ picks[p] = None
  /\ c \in Exchangeable(p)
  /\ LET out == [picks EXCEPT ![p] = c]
     IN IF \E q \in Players : out[q] = None
        THEN /\ picks' = out
             /\ answered' = answered \cup {p}
             /\ UNCHANGED <<stage, turn, eligible, active, refused, owner, done, distress,
                            hands, roles, attemptNumber>>
        ELSE /\ picks' = [q \in Players |-> None]
             /\ attemptNumber' = IF FirstUse THEN attemptNumber + 1 ELSE attemptNumber
             /\ AdvanceSetup(done, owner,
                  [distress EXCEPT !.resolved = TRUE, !.everUsed = TRUE, !.used = TRUE],
                  Exchanged(hands, out), roles)
  /\ UNCHANGED <<token, briefed, deal>>
-----------------------------------------------------------------------------
(* The commander decides.                                                  *)

\* answered: who has to have spoken first.
Heard == answered = Players

\* select_crew: a role, two of them in mission 50, or the owner of all goals.
SelectCrew(p, one, two) ==
  /\ stage \in {"role", "captain_decision"}
  /\ p = captain
  /\ mission # 11 => Heard
  /\ one \in eligible
  /\ IF mission = 50 THEN two \in eligible \ {one} ELSE two = None
  /\ LET r == [roles EXCEPT !.secondary = IF mission = 50 THEN two ELSE @]
     IN \/ /\ stage = "captain_decision"
           /\ AdvanceSetup(done \cup {"assignment"}, [t \in Tasks |-> one], distress, hands, r)
        \/ /\ stage = "role" /\ mission = 11
           /\ AdvanceSetup(done \cup {"role"}, owner, distress, hands, [r EXCEPT !.silent = one])
        \/ /\ stage = "role" /\ mission # 11
           /\ AdvanceSetup(done \cup {"role"}, owner, distress, hands, [r EXCEPT !.selected = one])
  /\ UNCHANGED <<token, briefed, picks, attemptNumber, deal>>

\* assign_task
AssignTask(p, one) ==
  /\ stage = "captain_distribution"
  /\ p = captain
  /\ Heard
  /\ one \in eligible
  /\ AdvanceSetup(done, [owner EXCEPT ![active] = one], distress, hands, roles)
  /\ UNCHANGED <<token, briefed, picks, attemptNumber, deal>>

\* editTaskTokens: mission 23 exchanges two tokens, mission 40 moves one to a
\* goal without; always starting from the tokens dealt.
Edited(i, j) == [Dealt EXCEPT ![i] = Dealt[j], ![j] = Dealt[i]]
Editable(i, j) ==
  /\ i # j
  /\ ~Bare(i)
  /\ IF mission = 23 THEN ~Bare(j) ELSE Bare(j)

\* edit_task_tokens, reset_tokens
EditTaskTokens(p, i, j) ==
  /\ stage = "token_edit" /\ p = captain
  /\ Editable(i, j)
  /\ token' = Edited(i, j)
  /\ UNCHANGED <<stage, hands, turn, owner, done, prep, briefed, distress, picks, roles,
                 attemptNumber, deal>>
ResetTokens(p) ==
  /\ stage = "token_edit" /\ p = captain
  /\ token' = Dealt
  /\ UNCHANGED <<stage, hands, turn, owner, done, prep, briefed, distress, picks, roles,
                 attemptNumber, deal>>

\* confirm_tokens, as they lie or with a last edit.
ConfirmTokens(p) ==
  /\ stage = "token_edit" /\ p = captain
  /\ \/ UNCHANGED token
     \/ \E i, j \in Tasks : Editable(i, j) /\ token' = Edited(i, j)
  /\ AdvanceSetup(done \cup {"tokens"}, owner, distress, hands, roles)
  /\ UNCHANGED <<briefed, picks, attemptNumber, deal>>

\* transfer_task, skip_transfer
TransferTask(p, t, q) ==
  /\ stage = "task_transfer"
  /\ owner[t] = p /\ q # p
  /\ AdvanceSetup(done \cup {"transfer"}, [owner EXCEPT ![t] = q], distress, hands, roles)
  /\ UNCHANGED <<token, briefed, picks, attemptNumber, deal>>
SkipTransfer(p) ==
  /\ stage = "task_transfer" /\ p = captain
  /\ AdvanceSetup(done \cup {"transfer"}, owner, distress, hands, roles)
  /\ UNCHANGED <<token, briefed, picks, attemptNumber, deal>>

\* choose_task: the last goal goes to the next seat without a choice.
LastGoalTo(p) == SeatAfter(p)
ChooseTask(p, t) ==
  /\ stage = "task_selection"
  /\ turn = p
  /\ t \in Open(owner)
  /\ LET left == Open(owner) \ {t}
         own  == [u \in DOMAIN owner |-> IF u = t THEN p
                    ELSE IF left = {u} THEN LastGoalTo(p) ELSE owner[u]]
     IN IF Open(own) = {}
        THEN AdvanceSetup(done \cup {"assignment"}, own, distress, hands, roles)
        ELSE /\ owner' = own
             /\ turn' = SeatAfter(p)
             /\ UNCHANGED <<stage, prep, done, distress, hands, roles>>
  /\ UNCHANGED <<token, briefed, picks, attemptNumber, deal>>
-----------------------------------------------------------------------------
Init ==
  /\ mission \in MissionIds
  /\ dealt \in Deals
  /\ hands = dealt
  /\ turn = captain
  /\ stage = "briefing"
  /\ owner = [t \in Tasks |-> None]
  /\ token = Dealt
  /\ done = {} /\ briefed = {}
  /\ eligible = {} /\ active = None /\ answered = {} /\ refused = {}
  /\ distress = [direction |-> None, resolved |-> FALSE, everUsed |-> FALSE, used |-> FALSE]
  /\ picks = [p \in Players |-> None]
  /\ roles = NoRoles
  /\ attemptNumber = 1 /\ attempts = 1

\* What the stages wait for.
Move(p) ==
  \/ p \notin briefed /\ BriefingReady(p)
  \/ \E no \in BOOLEAN : Respond(p, no)
  \/ \E c \in Exchangeable(p) : SelectDistressCard(p, c)
  \/ \E one \in Players, two \in Players \cup {None} : SelectCrew(p, one, two)
  \/ \E one \in Players : AssignTask(p, one)
  \/ ConfirmTokens(p)
  \/ \E t \in Tasks, q \in Players : TransferTask(p, t, q)
  \/ SkipTransfer(p)
  \/ \E t \in Tasks : ChooseTask(p, t)

Step == \E p \in Players : Move(p)

Next ==
  \/ Step
  \/ \E p \in Players :
       \/ \E i, j \in Tasks : EditTaskTokens(p, i, j)
       \/ ResetTokens(p)
  \/ \E way \in {"left", "right"} : RequestDistress(way)
  \/ FirstMove
  \/ Begin

Spec == Init /\ [][Next]_vars
-----------------------------------------------------------------------------
(* Invariants.                                                             *)

Stages == {"briefing", "role", "token_edit", "captain_decision", "captain_distribution",
           "task_selection", "task_transfer", "distress_vote", "distress_cards",
           "playing", "opened"}

\* Every variable has its type.
TypeOK ==
  /\ mission \in MissionIds
  /\ stage \in Stages
  /\ hands \in [Players -> SUBSET Deck] /\ dealt \in [Players -> SUBSET Deck]
  /\ turn \in Players
  /\ owner \in [Tasks -> Players \cup {None}]
  /\ token \in [Tasks -> [kind : TokenKinds, value : Nat]]
  /\ done \subseteq {"role", "tokens", "assignment", "transfer"}
  /\ eligible \subseteq Players /\ active \in Tasks \cup {None}
  /\ answered \subseteq Players /\ refused \subseteq answered /\ briefed \subseteq Players
  /\ distress \in [direction : {None, "left", "right"}, resolved : BOOLEAN,
                   everUsed : BOOLEAN, used : BOOLEAN]
  /\ picks \in [Players -> Deck \cup {None}]
  /\ roles \in [selected : Players \cup {None}, secondary : Players \cup {None},
                silent : Players \cup {None}]
  /\ attemptNumber \in Nat /\ attempts \in Nat

\* Every route through the stages ends in what the tricks take for granted
\* (Init of CrewTricks): all goals are owned, in shares the mission allows;
\* the tokens are the ones dealt, but for one legal edit; the roles the
\* mission knows are given, to seats it allows; the commander leads.
PlayStartsRight ==
  stage = "playing" =>
    /\ DealtEvenly(hands)
    /\ turn = Commander(hands)
    /\ owner \in OwnersOf(mission, captain, TaskCount[mission])
    /\ token \in TokensOf(mission, TaskCount[mission])
    /\ roles.selected \in Selected(mission, hands)
    /\ roles.secondary \in Secondary(mission, roles.selected)
    /\ roles.silent \in Silent(mission, captain)

\* In the distress exchange every member gives one card that is no rocket and
\* gets one, all in the direction agreed; without it hands are as dealt.
HandsPassedOn ==
  /\ ~distress.used => hands = dealt
  /\ distress.used =>
       \A p \in Players :
         LET from == IF distress.direction = "left" THEN SeatBefore(p) ELSE SeatAfter(p)
             given    == dealt[p] \ hands[p]
             received == hands[p] \ dealt[p]
         IN /\ Cardinality(given) = 1 /\ Cardinality(received) = 1
            /\ received \subseteq dealt[from] \ hands[from]

\* A card chosen for the exchange stays in the hand it was chosen from until
\* all cards move, and what was chosen is gone afterwards.
PicksAreHeld ==
  \A p \in Players : picks[p] # None =>
    stage = "distress_cards" /\ p \in answered /\ picks[p] \in hands[p]

\* Nobody plays before the question of the signal is settled: always in
\* mission 46, after a first use, and whenever a direction was set.
SignalIsSettled ==
  /\ stage \in {"playing", "opened"}
  /\ distress.everUsed \/ mission = 46 \/ distress.direction # None
  => distress.resolved

\* The signal costs one attempt, the first time, however often it is used
\* and the mission begun again.
SignalCostsOnce ==
  attemptNumber = attempts + (IF distress.everUsed THEN 1 ELSE 0)

\* What was settled stays settled for the attempt: a role, an owner (but for
\* the one goal passed on), a vote on the signal.
SettledStays ==
  attempts' = attempts =>
    /\ \A f \in {"selected", "secondary", "silent"} :
         roles[f] # None => roles'[f] = roles[f]
    /\ \A t \in DOMAIN owner :
         owner[t] # None => owner'[t] = owner[t] \/ (stage = "task_transfer" /\ owner'[t] # None)
    /\ distress.resolved => distress'.resolved /\ distress'.direction = distress.direction
    /\ done \subseteq done'

\* Every route through the stages (advanceSetup in engine.ts) ends in what the
\* tricks take for granted; cards chosen for the exchange stay in hand until all
\* move one seat the way agreed; play waits for the question of the signal, and
\* the signal costs one attempt, once.
SetupSound ==
  /\ TypeOK /\ PlayStartsRight /\ HandsPassedOn
  /\ PicksAreHeld /\ SignalIsSettled /\ SignalCostsOnce

\* What a stage has settled, later stages of the attempt leave alone: a role, an
\* owner but for the one goal passed on, the vote on the signal.
SetupKept == [][SettledStays]_vars
=============================================================================
