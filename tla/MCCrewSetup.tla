----------------------------- MODULE MCCrewSetup -----------------------------
(* The preparation on small decks: left to itself by three and by five        *)
(* players, with one person among bots, and seen on the screen of one member. *)
(* A behaviour runs one of them, part; the table of three has the variables   *)
(* of CrewSetup, the others have x1, x2, ...                                  *)
EXTENDS CrewSetup, TLC

VARIABLES
  part,
  x1, x2, x3, x4, x5, x6, x7, x8, x9, x10, x11, x12, x13, x14, x15, x16, x17, x18,
  me, isHost, vote, votes, dismissed, tried, sent, choice, selected

table  == <<x1, x2, x3, x4, x5, x6, x7, x8, x9, x10, x11, x12, x13, x14, x15, x16, x17, x18>>
screen == <<me, isHost, vote, votes, dismissed, tried, sent, choice, selected>>
all    == <<part, vars, table, screen>>
-----------------------------------------------------------------------------
\* Two colours and one rocket.  The highest black card is with the commander,
\* a rocket beside it, or with the seat before.
Card(s, ranks) == [suit : {s}, rank : ranks]
RocketFirst == (0 :> Card("black", {2}) \cup Card("rocket", {1}))
               @@ (1 :> Card("black", {1}) \cup Card("pink", {1})) @@ (2 :> Card("pink", {2}))
RocketSecond == (0 :> Card("black", {2}) \cup Card("pink", {1}))
                @@ (1 :> Card("black", {1}) \cup Card("rocket", {1})) @@ (2 :> Card("pink", {2}))
FiveHands == (0 :> Card("black", {1, 2})) @@ (1 :> Card("rocket", {1}) \cup Card("pink", {1}))
             @@ (2 :> Card("black", {3})) @@ (3 :> Card("pink", {2})) @@ (4 :> Card("pink", {3}))
Suits == {"pink", "black"}

\* Goals enough to be told apart: four where tokens are edited or shares have
\* to be levelled, none where the log book has none.
ThreeGoals == 1 :> 3 @@ 5 :> 0 @@ 11 :> 3 @@ 20 :> 2 @@ 23 :> 4 @@ 24 :> 4 @@ 40 :> 4 @@ 46 :> 0 @@ 50 :> 0
BotsGoals  == 1 :> 3 @@ 11 :> 3 @@ 20 :> 2 @@ 24 :> 3 @@ 40 :> 2 @@ 46 :> 0 @@ 50 :> 0
FiveGoals  == 25 :> 2 @@ 36 :> 2

\* Three left to themselves: CrewSetup itself.
ThreeMissions == DOMAIN ThreeGoals
ThreeDeals    == {RocketFirst, RocketSecond}
\* The seats and the deck of five.  Where a module is instantiated, TLC keeps no
\* value of its constant definitions, so each table has its own.
FiveTable == INSTANCE CrewTable WITH
  N <- 5, Colours <- Suits, Black <- "black", Rocket <- "rocket", TopRank <- 3, TopRocket <- 1

\* Five, and a person in seat 0 with bots in the others, the commander among either.
Five == INSTANCE CrewSetup WITH
  N <- 5, Colours <- Suits, Black <- "black", Rocket <- "rocket", TopRank <- 3, TopRocket <- 1,
  MissionIds <- DOMAIN FiveGoals, TaskCount <- FiveGoals, Deals <- {FiveHands}, MaxAttempts <- 1,
  mission <- x1, stage <- x2, hands <- x3, turn <- x4, owner <- x5, token <- x6, done <- x7, eligible <- x8,
  active <- x9, answered <- x10, refused <- x11, briefed <- x12, distress <- x13, picks <- x14, roles <- x15,
  attemptNumber <- x16, dealt <- x17, attempts <- x18
Bots == INSTANCE CrewDemo WITH
  N <- 3, Colours <- Suits, Black <- "black", Rocket <- "rocket", TopRank <- 2, TopRocket <- 1,
  MissionIds <- DOMAIN BotsGoals, TaskCount <- BotsGoals, Deals <- {RocketFirst, RocketSecond}, MaxAttempts <- 2,
  Bots <- {1, 2},
  mission <- x1, stage <- x2, hands <- x3, turn <- x4, owner <- x5, token <- x6, done <- x7, eligible <- x8,
  active <- x9, answered <- x10, refused <- x11, briefed <- x12, distress <- x13, picks <- x14, roles <- x15,
  attemptNumber <- x16, dealt <- x17, attempts <- x18

\* The screen through two attempts with a vote, in the editor of the tokens, in
\* the transfer of five players, and for what has to happen in one attempt.
AgainGoals == 1 :> 2 @@ 11 :> 2
EditGoals  == 23 :> 3 @@ 24 :> 2 @@ 40 :> 3
OnceGoals  == 11 :> 2 @@ 20 :> 2 @@ 50 :> 0
Again == INSTANCE SetupScreen WITH
  N <- 3, Colours <- Suits, Black <- "black", Rocket <- "rocket", TopRank <- 2, TopRocket <- 1,
  MissionIds <- DOMAIN AgainGoals, TaskCount <- AgainGoals, Deals <- {RocketFirst}, MaxAttempts <- 2, MaxVotes <- 1,
  mission <- x1, stage <- x2, hands <- x3, turn <- x4, owner <- x5, token <- x6, done <- x7, eligible <- x8,
  active <- x9, answered <- x10, refused <- x11, briefed <- x12, distress <- x13, picks <- x14, roles <- x15,
  attemptNumber <- x16, dealt <- x17, attempts <- x18
Edit == INSTANCE SetupScreen WITH
  N <- 3, Colours <- Suits, Black <- "black", Rocket <- "rocket", TopRank <- 2, TopRocket <- 1,
  MissionIds <- DOMAIN EditGoals, TaskCount <- EditGoals, Deals <- {RocketFirst}, MaxAttempts <- 1, MaxVotes <- 0,
  mission <- x1, stage <- x2, hands <- x3, turn <- x4, owner <- x5, token <- x6, done <- x7, eligible <- x8,
  active <- x9, answered <- x10, refused <- x11, briefed <- x12, distress <- x13, picks <- x14, roles <- x15,
  attemptNumber <- x16, dealt <- x17, attempts <- x18
Pass == INSTANCE SetupScreen WITH
  N <- 5, Colours <- Suits, Black <- "black", Rocket <- "rocket", TopRank <- 3, TopRocket <- 1,
  MissionIds <- {27}, TaskCount <- 27 :> 2, Deals <- {FiveHands}, MaxAttempts <- 1, MaxVotes <- 0,
  mission <- x1, stage <- x2, hands <- x3, turn <- x4, owner <- x5, token <- x6, done <- x7, eligible <- x8,
  active <- x9, answered <- x10, refused <- x11, briefed <- x12, distress <- x13, picks <- x14, roles <- x15,
  attemptNumber <- x16, dealt <- x17, attempts <- x18
Once == INSTANCE SetupScreen WITH
  N <- 3, Colours <- Suits, Black <- "black", Rocket <- "rocket", TopRank <- 2, TopRocket <- 1,
  MissionIds <- DOMAIN OnceGoals, TaskCount <- OnceGoals, Deals <- {RocketFirst}, MaxAttempts <- 1, MaxVotes <- 0,
  mission <- x1, stage <- x2, hands <- x3, turn <- x4, owner <- x5, token <- x6, done <- x7, eligible <- x8,
  active <- x9, answered <- x10, refused <- x11, briefed <- x12, distress <- x13, picks <- x14, roles <- x15,
  attemptNumber <- x16, dealt <- x17, attempts <- x18

ASSUME PartAssumptions ==
  /\ SetupAssumption /\ Five!SetupAssumption /\ FiveTable!DealtEvenly(FiveHands)
  /\ Bots!SetupAssumption /\ Bots!DemoAssumption
  /\ Again!SetupAssumption /\ Again!ScreenAssumption /\ Edit!SetupAssumption /\ Edit!ScreenAssumption
  /\ Pass!SetupAssumption /\ Pass!ScreenAssumption /\ Once!SetupAssumption /\ Once!ScreenAssumption
-----------------------------------------------------------------------------
ThreeDo(A) == part = "three" /\ A /\ UNCHANGED <<part, table, screen>>
FiveDo(A)  == part = "five"  /\ A /\ UNCHANGED <<part, vars, screen>>
BotsDo(A)  == part = "bots"  /\ A /\ UNCHANGED <<part, vars, screen>>
AgainDo(A) == part = "again" /\ A /\ UNCHANGED <<part, vars>>
EditDo(A)  == part = "edit"  /\ A /\ UNCHANGED <<part, vars>>
PassDo(A)  == part = "pass"  /\ A /\ UNCHANGED <<part, vars>>
\* Here the member leaves the dialog open and chooses without second thoughts.
OnceDo(A)  == /\ part = "once"  /\ A /\ UNCHANGED <<part, vars>>
              /\ dismissed' = None /\ (choice'.secondary # None => choice'.primary \notin {None, choice'.secondary})
              /\ \A f \in DOMAIN choice : choice[f] # None => choice'[f] \in {choice[f], None}

NoTable  == /\ x1 = 0 /\ x2 = 0 /\ x3 = 0 /\ x4 = 0 /\ x5 = 0 /\ x6 = 0 /\ x7 = 0 /\ x8 = 0 /\ x9 = 0
            /\ x10 = 0 /\ x11 = 0 /\ x12 = 0 /\ x13 = 0 /\ x14 = 0 /\ x15 = 0 /\ x16 = 0 /\ x17 = 0 /\ x18 = 0
NoScreen == /\ me = 0 /\ isHost = FALSE /\ vote = FALSE /\ votes = 0 /\ dismissed = None
            /\ tried = 0 /\ sent = 0 /\ choice = None /\ selected = <<>>

PartInit ==
  \/ part = "three" /\ NoTable /\ NoScreen
  \/ part = "five"  /\ Five!Init /\ NoScreen
  \/ part = "bots"  /\ Bots!Init /\ NoScreen
  \/ part = "again" /\ Again!ScreenInit
  \/ part = "edit"  /\ Edit!ScreenInit
  \/ part = "pass"  /\ Pass!ScreenInit /\ me = 0 /\ ~isHost
  \/ part = "once"  /\ Once!ScreenInit /\ me \in {0, 1} /\ ~isHost
\* The table of three stays as it is in the other parts, the same in all.
PrepInit == Init /\ PartInit /\ (part # "three" => mission = 1 /\ dealt = RocketFirst)

PrepNext ==
  \/ ThreeDo(Next) \/ FiveDo(Five!Next) \/ BotsDo(Bots!DemoNext)
  \/ AgainDo(Again!ScreenNext) \/ EditDo(Edit!ScreenNext)
  \/ PassDo(Pass!ScreenNext) \/ OnceDo(Once!ScreenNext)

\* Whatever the commander tries out with the tokens, somebody in the end does
\* what the stage waits for, and play opens or the signal is given.  Among bots
\* only their timer is sure to run.  On the screen the others go on, requests
\* arrive, and the member chooses and presses what there is to press.
PrepFairness ==
  /\ WF_all(ThreeDo(Step)) /\ WF_all(ThreeDo(FirstMove))
  /\ WF_all(FiveDo(Five!Step)) /\ WF_all(FiveDo(Five!FirstMove))
  /\ WF_all(BotsDo(Bots!DemoStep))
  /\ WF_all(OnceDo(Once!OthersMove)) /\ WF_all(OnceDo(Once!Opening)) /\ WF_all(OnceDo(Once!Arrive))
  /\ WF_all(OnceDo(Once!SendReady)) /\ WF_all(OnceDo(Once!Press))
  /\ WF_all(OnceDo(Once!PickPrimary)) /\ WF_all(OnceDo(Once!PickSecondary)) /\ WF_all(OnceDo(Once!PickCard))

PrepSpec == PrepInit /\ [][PrepNext]_all /\ PrepFairness
-----------------------------------------------------------------------------
\* SetupSound and SetupKept are those of CrewSetup, for the three.

\* Among five, where a goal may be passed on, the preparation is sound as well.
\* Whatever is offered is accepted: the engine refuses neither what the demo
\* policy suggests nor a button the screen enables, however stages, goals and
\* attempts change in between; and a table of bots never lacks a suggestion.
OthersSound ==
  /\ part = "five" => Five!SetupSound
  /\ part = "bots" => Bots!SuggestionAccepted /\ Bots!BotsKeepGoing
  /\ part = "again" => Again!ScreenTypeOK /\ Again!NothingRefused
  /\ part = "edit" => Edit!ScreenTypeOK /\ Edit!NothingRefused
  /\ part = "pass" => Pass!ScreenTypeOK /\ Pass!NothingRefused

\* Among five what is settled stays settled, but for the goal passed on.
\* The screen (MissionSetupModal.tsx, TokenEditor.tsx): tokens are confirmed as
\* shown, readiness counts for the briefing that was shown, and a closed dialog
\* opens by itself for what is new, and only for that.
OthersKept == [][/\ part = "five" => Five!SettledStays
                 /\ part = "again" => Again!ReadyForThisAttempt /\ Again!OpensByItself
                 /\ part = "edit" => Edit!TokensAsShown
                 /\ part = "pass" => Pass!OpensByItself]_all

\* What is waited for: the opening of play; among bots, as long as no person has
\* to act.
Awaited ==
  CASE part = "three" -> stage # "opened"
    [] part \in {"five", "once"} -> x2 # "opened"
    [] part = "bots" -> x2 # "playing" /\ ~Bots!WaitsForAPerson
    [] OTHER -> FALSE

\* The preparation ends, also where one member has nothing but the screen: every
\* stage can be answered there; and bots keep it going when it is up to them.
PreparationGoesOn == Awaited ~> ~Awaited
=============================================================================
