----------------------------- MODULE SetupScreen ------------------------------
(***************************************************************************)
(* The preparation on the screen of one member, over the engine's rules    *)
(* for it (src/src/components/table: MissionSetupModal, PreparationPanel,  *)
(* TokenEditor and the parts of GameTable that open and close them).  The  *)
(* others act as CrewSetup lets them; this member only by what the screen  *)
(* offers.                                                                 *)
(*                                                                         *)
(* A command that names the revision it was given in takes effect on the   *)
(* state shown or not at all, so pressing its button is one step with the  *)
(* engine's.  briefing_ready names none: it is on its way for a while.     *)
(***************************************************************************)
EXTENDS CrewSetup, Sequences, Functions

CONSTANT MaxVotes   \* bound: how often a restart is put to the vote

ScreenAssumption == MaxVotes \in Nat

VARIABLES
  me, isHost,   \* whose screen it is, and whether that is the host's
  vote, votes,  \* whether a restart vote is open, and how many there were
  dismissed,    \* dismissedSetup: the key the dialog was closed under
  tried,        \* autoReadyAttempt: the attempt readiness was sent for; 0 for null
  sent,         \* the attempt named by the briefing_ready on its way; 0 for none
  choice,       \* primary, secondary, firstTask and card of PreparationControls
  selected      \* the goals picked in TokenEditor

local   == <<dismissed, tried, sent, choice, selected>>
scene   == <<me, isHost>>
allVars == <<vars, scene, vote, votes, local>>

NoChoice == [primary |-> None, secondary |-> None, first |-> None, card |-> None]
-----------------------------------------------------------------------------
(* What is shown.                                                          *)

PrepStages == Stages \ {"briefing", "task_selection", "playing", "opened"}
OnBoard    == {"distress_vote", "distress_cards"}   \* prepared beside the hand
IsPreparation == stage \in PrepStages
ICommand      == captain = me
MyTurn        == stage = "task_selection" /\ turn = me
OthersTurn    == stage = "task_selection" /\ turn # me

\* usesCombinedTaskSetup: the goals are shown with the briefing.
Combined == Tasks # {} /\ Assignment(mission) = "draft"

SetupActive == stage \in Stages \ (OnBoard \cup {"playing", "opened"})
SetupTurn ==
  IF stage = "task_selection" THEN IF MyTurn THEN "my-turn" ELSE "waiting"
  ELSE IF stage = "briefing" /\ Combined THEN "waiting" ELSE ""
SetupPhase ==
  IF Combined /\ stage \in {"briefing", "task_selection"} THEN "task-draft"
  ELSE IF IsPreparation THEN "preparation" ELSE stage

\* setupKey: a dialog that was closed stays closed as long as this stays.
SetupKey == <<attempts, SetupPhase, IF IsPreparation THEN stage ELSE "", active, SetupTurn>>
SetupOpen == ~vote /\ SetupActive /\ dismissed # SetupKey

\* The dialog of a vote covers everything, that of the setup all of the board.
PanelShown == IsPreparation /\ ~vote /\ (SetupActive => SetupOpen)
BoardShown == ~vote /\ ~SetupOpen

\* The key of PreparationControls: with it what was chosen starts anew.
\* Mutant: the goal in question is no part of it.
PanelKey_AnyGoal == <<IsPreparation, attempts, stage>>
PanelKey == <<IsPreparation, attempts, stage, active>>

\* A new snapshot is rendered.  The dialog forgets with its unmounting.
Render ==
  /\ choice'   = IF PanelKey' = PanelKey THEN choice ELSE NoChoice
  /\ selected' = IF PanelKey' = PanelKey THEN selected ELSE <<>>
  /\ tried'    = IF SetupActive' THEN tried ELSE 0
  /\ UNCHANGED <<scene, dismissed>>
-----------------------------------------------------------------------------
(* The controls.                                                           *)

Command(type) == [type |-> type, one |-> None, two |-> None, task |-> None,
                  second |-> None, card |-> None, no |-> FALSE]

ResponseStage == stage \in {"role", "distress_vote"} \cup CaptainAsks
                 /\ ~(stage = "role" /\ mission = 11)

RequiredResponders ==
  IF stage \in {"distress_vote"} \cup CaptainAsks THEN Players
  ELSE IF stage = "role" /\ mission # 11
       THEN IF RoleIncludesCommander THEN Players ELSE Players \ {captain}
  ELSE {}
ResponsesComplete == RequiredResponders \subseteq answered
MyDecision == ICommand /\ stage \in {"role"} \cup CaptainAsks /\ ResponsesComplete
OwnTasks   == {t \in Tasks : owner[t] = me}

\* The buttons of PreparationPanel, with what they would send.
Answers ==
  {c \in {[Command("preparation_response") EXCEPT !.no = no] : no \in BOOLEAN} :
     ResponseStage /\ me \in RequiredResponders \ answered}
Decision ==
  {c \in {[Command(IF stage = "captain_distribution" THEN "assign_task" ELSE "select_crew") EXCEPT
             !.one = choice.primary, !.two = IF mission = 50 THEN choice.secondary ELSE None]} :
     MyDecision /\ c.one # None /\ (mission = 50 => c.two \notin {None, c.one})}
Confirmation ==
  {c \in {IF Len(selected) = 2
          THEN [Command("confirm_tokens") EXCEPT !.task = selected[1], !.second = selected[2]]
          ELSE Command("confirm_tokens")} :
     stage = "token_edit" /\ ICommand /\ Len(selected) # 1}
Transfer ==
  {c \in {[Command("transfer_task") EXCEPT !.task = choice.first, !.one = choice.primary],
          Command("skip_transfer")} :
     /\ stage = "task_transfer"
     /\ IF c.type = "skip_transfer" THEN ICommand ELSE c.task \in OwnTasks /\ c.one # None}
Exchange ==
  {c \in {[Command("select_distress_card") EXCEPT !.card = choice.card]} :
     stage = "distress_cards" /\ me \notin answered /\ c.card # None}
\* Of the dialog and the board.
Draft == {[Command("choose_task") EXCEPT !.task = t] : t \in {u \in Open(owner) : MyTurn}}
Signal ==
  {c \in {[Command("request_distress") EXCEPT !.one = way] : way \in {"left", "right"}} :
     isHost /\ stage \in {"briefing", "playing"} /\ distress.direction = None}

Buttons ==
  IF sent # 0 THEN {}
  ELSE (IF PanelShown THEN Answers \cup Decision \cup Confirmation \cup Transfer \cup Exchange ELSE {})
       \cup (IF SetupOpen THEN Draft ELSE {})
       \cup (IF BoardShown THEN Signal ELSE {})

\* What the engine makes of a command of this member.
Does(c) ==
  \/ c.type = "preparation_response" /\ Respond(me, c.no)
  \/ c.type = "select_crew" /\ SelectCrew(me, c.one, c.two)
  \/ c.type = "assign_task" /\ AssignTask(me, c.one)
  \/ /\ c.type = "confirm_tokens" /\ ConfirmTokens(me)
     /\ IF c.task = None THEN token' = token
        ELSE Editable(c.task, c.second) /\ token' = Edited(c.task, c.second)
  \/ c.type = "transfer_task" /\ TransferTask(me, c.task, c.one)
  \/ c.type = "skip_transfer" /\ SkipTransfer(me)
  \/ c.type = "select_distress_card" /\ SelectDistressCard(me, c.card)
  \/ c.type = "choose_task" /\ ChooseTask(me, c.task)
  \/ c.type = "request_distress" /\ RequestDistress(c.one)

\* A button is pressed.
Press == \E c \in Buttons : Does(c) /\ Render /\ UNCHANGED <<sent, vote, votes>>
-----------------------------------------------------------------------------
(* The controls that only change what is chosen.                           *)

Choosable == PanelShown /\ sent = 0
Keep == UNCHANGED <<vars, scene, vote, votes>>
Choose(field, value) ==
  /\ Choosable
  /\ choice' = [choice EXCEPT ![field] = value]
  /\ Keep /\ UNCHANGED <<dismissed, tried, sent, selected>>

PickPrimary ==
  \/ MyDecision /\ \E p \in eligible : Choose("primary", p)
  \/ stage = "task_transfer" /\ OwnTasks # {} /\ \E p \in Players \ {me} : Choose("primary", p)
PickSecondary == MyDecision /\ mission = 50 /\ \E p \in Players \ {choice.primary} : Choose("secondary", p)
PickFirst == stage = "task_transfer" /\ \E t \in OwnTasks : Choose("first", t)
PickCard ==
  stage = "distress_cards" /\ me \notin answered /\ \E c \in Exchangeable(me) : Choose("card", c)

\* TokenEditor: which goal can be clicked, and what a click makes of the pair.
Clickable(t) ==
  \/ mission # 40 \/ t \in Range(selected)
  \/ IF Len(selected) = 1 THEN Bare(t) ELSE ~Bare(t)
AfterClick(t) ==
  IF t \in Range(selected) THEN IF t = selected[1] THEN <<>> ELSE SubSeq(selected, 1, 1)
  ELSE IF Len(selected) = 1 THEN Append(selected, t) ELSE <<t>>
ClickToken ==
  /\ Choosable /\ stage = "token_edit" /\ ICommand
  /\ \/ \E t \in Tasks : Clickable(t) /\ selected' = AfterClick(t)
     \/ selected # <<>> /\ selected' = <<>>
  /\ Keep /\ UNCHANGED <<dismissed, tried, sent, choice>>

\* The tokens as the editor shows them.
Preview ==
  IF selected = <<>> THEN token
  ELSE IF Len(selected) = 2
       THEN [Dealt EXCEPT ![selected[1]] = Dealt[selected[2]], ![selected[2]] = Dealt[selected[1]]]
  ELSE Dealt

\* "To the table", and the button that opens the preparation again.
Dismiss ==
  /\ SetupOpen /\ dismissed' = SetupKey
  /\ Keep /\ UNCHANGED <<tried, sent, choice, selected>>
Reopen ==
  /\ SetupActive /\ ~vote /\ ~SetupOpen /\ dismissed' = None
  /\ Keep /\ UNCHANGED <<tried, sent, choice, selected>>
-----------------------------------------------------------------------------
(* Readiness for the briefing.                                             *)

\* The dialog of the goals sends it once for an attempt; otherwise a button.
ReadyButton == SetupOpen /\ stage = "briefing" /\ ~Combined /\ me \notin briefed /\ sent = 0
AutoReady   == SetupOpen /\ stage = "briefing" /\ Combined /\ me \notin briefed /\ sent = 0
               /\ tried # attempts
SendReady ==
  /\ ReadyButton \/ AutoReady
  /\ tried' = IF AutoReady THEN attempts ELSE tried
  /\ sent' = attempts
  /\ Keep /\ UNCHANGED <<dismissed, choice, selected>>

\* It arrives, whatever the revision.  Mutant: whatever the attempt.
CountsNow_AnyAttempt == ~vote /\ stage = "briefing"
CountsNow == ~vote /\ stage = "briefing" /\ sent = attempts
Arrive ==
  /\ sent # 0 /\ sent' = 0
  /\ IF CountsNow THEN BriefingReady(me) ELSE UNCHANGED vars
  /\ Render /\ UNCHANGED <<vote, votes>>
-----------------------------------------------------------------------------
(* The others.                                                             *)

OthersMove == ~vote /\ (\E p \in Players \ {me} : Move(p)) /\ Render /\ UNCHANGED <<sent, vote, votes>>

\* Tokens are also edited without the screen, through the command of its own.
OthersToo ==
  /\ ~vote
  /\ \/ \E p \in Players : ResetTokens(p) \/ \E i, j \in Tasks : EditTaskTokens(p, i, j)
     \/ ~isHost /\ \E way \in {"left", "right"} : RequestDistress(way)
  /\ Render /\ UNCHANGED <<sent, vote, votes>>

Opening == ~vote /\ FirstMove /\ Render /\ UNCHANGED <<sent, vote, votes>>

\* A vote opens and is rejected; a new attempt begins, by a vote or otherwise.
OpenVote ==
  /\ votes < MaxVotes /\ ~vote /\ vote' = TRUE /\ votes' = votes + 1
  /\ UNCHANGED <<vars, scene, local>>
RejectVote == vote /\ vote' = FALSE /\ UNCHANGED <<vars, scene, votes, local>>
BeginAgain == Begin /\ vote' = FALSE /\ Render /\ UNCHANGED <<sent, votes>>
-----------------------------------------------------------------------------
ScreenInit ==
  /\ Init
  /\ me \in Players /\ isHost \in BOOLEAN
  /\ vote = FALSE /\ votes = 0
  /\ dismissed = None /\ tried = 0 /\ sent = 0
  /\ choice = NoChoice /\ selected = <<>>

ScreenNext ==
  \/ Press \/ PickPrimary \/ PickSecondary \/ PickFirst \/ PickCard \/ ClickToken
  \/ Dismiss \/ Reopen \/ SendReady \/ Arrive
  \/ OthersMove \/ OthersToo \/ Opening \/ OpenVote \/ RejectVote \/ BeginAgain

ScreenSpec == ScreenInit /\ [][ScreenNext]_allVars
-----------------------------------------------------------------------------
\* Every variable of the screen has its type.
ScreenTypeOK ==
  /\ me \in Players /\ {isHost, vote} \subseteq BOOLEAN /\ votes \in 0 .. MaxVotes
  /\ {tried, sent} \subseteq 0 .. attempts
  /\ choice \in [primary : Players \cup {None}, secondary : Players \cup {None},
                 first : Tasks \cup {None}, card : Deck \cup {None}]
  /\ Len(selected) <= 2 /\ Range(selected) \subseteq Tasks

\* No button the screen enables is refused by the engine: what was chosen for
\* one goal, stage or attempt is never sent for another, nobody is waited for
\* too long or too short, and no pair of tokens is offered that cannot be.
NothingRefused == \A c \in Buttons : ENABLED Does(c)

\* The tokens the commander confirms are the tokens the editor showed, however
\* they were edited before.
TokensAsShown ==
  ICommand /\ stage = "token_edit" /\ stage' # stage /\ attempts' = attempts
    => token' = Preview

\* Readiness is counted for the attempt whose briefing was on the screen.
ReadyForThisAttempt ==
  me \in briefed' \ briefed => sent = attempts'

\* A dialog closed before opens by itself for a new stage and for the own turn,
\* and stays closed while the others take theirs (docs/CHARACTERS-AND-TABLE.ko.md:76).
OpensByItself ==
  IF /\ SetupActive' /\ ~vote'
     /\ \/ MyTurn' /\ ~MyTurn
        \/ attempts' # attempts
        \/ IsPreparation' /\ stage' # stage
  THEN SetupOpen'
  ELSE dismissed = SetupKey /\ dismissed' = dismissed /\ OthersTurn /\ OthersTurn'
         => ~SetupOpen'
=============================================================================
