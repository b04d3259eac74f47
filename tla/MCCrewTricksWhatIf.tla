------------------------- MODULE MCCrewTricksWhatIf -------------------------
(* Small decks for three players who play on after a failure.              *)
EXTENDS CrewTricksWhatIf, TLC

RECURSIVE Deal(_, _)
\* All ways to deal cards to the players from p on, as the hands get sizes.
Deal(cards, p) ==
  LET size == LastTrick + (IF p < Cardinality(Deck) % N THEN 1 ELSE 0)
  IN IF p = N - 1 THEN {p :> cards}
     ELSE UNION {{(p :> h) @@ rest : rest \in Deal(cards \ h, p + 1)} :
                  h \in {x \in SUBSET cards : Cardinality(x) = size}}
AllDeals == Deal(Deck, 0)
\* With hands of equal size the seats differ only in who commands.
FirstCommands == {d \in AllDeals : Commander(d) = 0}

EveryDeal == [m \in 1 .. 50 |-> FirstCommands]
EveryGoal == [m \in 1 .. 50 |-> Deck]
Counts == [m \in MissionIds |-> IF Ending(m) = "tasks" THEN 1 ELSE 0]
=============================================================================
