---------------------------- MODULE MCCrewTricks ----------------------------
(* Small decks for three players.                                          *)
EXTENDS CrewTricksAudit, TLC

RECURSIVE Deal(_, _)
\* All ways to deal cards to the players from p on, as the hands get sizes.
Deal(cards, p) ==
  LET size == LastTrick + (IF p < Cardinality(Deck) % N THEN 1 ELSE 0)
  IN IF p = N - 1 THEN {p :> cards}
     ELSE UNION {{(p :> h) @@ rest : rest \in Deal(cards \ h, p + 1)} :
                  h \in {x \in SUBSET cards : Cardinality(x) = size}}
AllDeals == Deal(Deck, 0)
\* With hands of equal size the seats differ only in who commands.
FirstCommands == {d \in AllDeals : Commander(d) = 0}

\* Two deals of nine cards: suits spread over the hands, and a table of voids.
TwoDeals ==
  LET Of(s, ranks) == [suit : {s}, rank : ranks]
      Other == CHOOSE s \in Colours : s # Black
      Hands(a, b, c) == (0 :> a \cup Of(Rocket, {1})) @@ (1 :> b) @@ (2 :> c)
  IN {Hands(Of(Other, {1}) \cup Of(Black, {2}),
            Of(Other, {2, 4}) \cup Of(Black, {1}),
            Of(Other, {3}) \cup Of(Black, {3, 4})),
      Hands(Of(Other, {1, 2}), Of(Other, {3, 4}) \cup Of(Black, {1}), Of(Black, {2, 3, 4}))}
\* A few cards of every deal, high and low, alone and together in a hand.
FewGoals == [suit : Colours, rank : {2, 4}] \cup [suit : {Black}, rank : {1}]

\* Missions of several goals, of roles, and those where the rules of
\* communication differ: the first on two deals with three or four goals, the second on
\* every deal, the third on two deals with one goal and members who speak.
GoalMissions == {28, 30, 31}
RoleMissions == {33, 41, 50}
TalkMissions == {11, 12, 18, 29}
Focused == GoalMissions \cup RoleMissions \cup TalkMissions
Every == 1 .. 50

\* The roles do not tell the two colours apart: whoever holds the black one sits
\* no later than who holds the other one.
RoleDeals ==
  {d \in FirstCommands : \E p, q \in Players :
     /\ p <= q /\ [suit |-> Black, rank |-> 1] \in d[p]
     /\ \E s \in Colours \ {Black} : [suit |-> s, rank |-> 1] \in d[q]}

FocusedDeals == [m \in Every |-> IF m \in RoleMissions THEN RoleDeals ELSE TwoDeals]
FocusedGoals ==
  [m \in Every |-> {c \in FewGoals : m \in TalkMissions \cup {31} => c.rank # 2}]
FocusedCounts ==
  [m \in MissionIds |-> IF Ending(m) # "tasks" THEN 0
                        ELSE IF m = 30 THEN 4 ELSE IF m \in GoalMissions THEN 3 ELSE 1]

EveryDeal == [m \in Every |-> AllDeals]
EveryGoal == [m \in Every |-> Deck]
Counts    == [m \in MissionIds |-> IF Ending(m) = "tasks" THEN 1 ELSE 0]

FocusedNext ==
  \/ PlayAny
  \/ AdvanceTrick
  \/ mission \in TalkMissions /\ SpeakAny
FocusedSpec == Init /\ [][FocusedNext]_vars
=============================================================================
