--------------------------- MODULE CrewTricksAudit --------------------------
(***************************************************************************)
(* The verdict of an attempt, compared with the tricks that were really    *)
(* won: the engine decides with running counters and one pass over the     *)
(* goals after every trick, here the condition of each mission is stated   *)
(* once over the whole history (docs/MISSIONS.ko.md).                      *)
(***************************************************************************)
EXTENDS CrewTricks

\* The batches of goals captured, in the order of the tricks won.
BatchesOf(won, goal) ==
  LET Batch(k) == [by |-> won[k].by,
                   goals |-> {t \in DOMAIN goal : goal[t] \in Cards(won[k].plays)}]
      InOrder[scored \in SUBSET DOMAIN won] ==
        LET Nth(i) == CHOOSE k \in scored : Cardinality({j \in scored : j <= k}) = i
        IN [i \in 1 .. Cardinality(scored) |-> Batch(Nth(i))]
  IN InOrder[{k \in DOMAIN won : Batch(k).goals # {}}]
Batches == BatchesOf(history, setup.goal)

Book == INSTANCE TaskOrder WITH
          Owners <- Players,
          TokenLayouts <- UNION {TokensOf(m, TaskCount[m]) : m \in MissionIds},
          token <- setup.token, owner <- setup.owner, taken <- Batches

\* The goals of an attempt are booked as TaskOrder says: captured in batches,
\* good while each goes to its owner and an ordering of all goals exists.
GoalsAreBooked == Book!Spec
-----------------------------------------------------------------------------
Tricks     == DOMAIN history
WonBy(p)   == {k \in Tricks : history[k].by = p}
WonWith(k) == history[k].card
AllPlayed  == Len(history) = LastTrick
NoTopColourWon == \A k \in Tricks : WonWith(k).rank = TopRank => IsRocket(WonWith(k))
Balanced ==
  \A k \in Tricks : \A p, q \in Players :
    Cardinality(WonBy(p) \cap 1 .. k) <= Cardinality(WonBy(q) \cap 1 .. k) + 1
RocketsWon == {k \in Tricks : IsRocket(WonWith(k))}

\* Every goal went to its owner, in an order the tokens allow.
GoalsMet ==
  /\ Goals # {}
  /\ \A t \in Goals : \E k \in WonBy(setup.owner[t]) : setup.goal[t] \in Cards(history[k].plays)
  /\ Book!OrderExists(setup.token, Batches)

\* What the log book asks of each mission.
MissionMet ==
  LET one == WonBy(setup.selected) IN
  CASE mission = 5  -> AllPlayed /\ one = {}
    [] mission = 16 -> AllPlayed /\ NoTopColourWon
    [] mission = 17 -> GoalsMet /\ NoTopColourWon
    [] mission = 29 -> AllPlayed /\ Balanced
    [] mission = 33 -> AllPlayed /\ \E k \in Tricks : one = {k} /\ ~IsRocket(WonWith(k))
    [] mission = 34 -> AllPlayed /\ Balanced /\ {1, LastTrick} \subseteq WonBy(setup.commander)
    [] mission = 41 -> AllPlayed /\ one = {1, LastTrick} /\ \A k \in one : ~IsRocket(WonWith(k))
    [] mission = 50 -> AllPlayed /\ one = 1 .. LeadTricks /\ WonBy(setup.secondary) = {LastTrick}
    [] mission \in {9, 26} ->
         Cardinality({k \in Tricks : ~IsRocket(WonWith(k)) /\ WonWith(k).rank = 1}) >= OnesNeeded
    [] mission = 13 -> Cardinality(RocketsWon) = TopRocket
    [] mission = 44 ->
         /\ Cardinality(RocketsWon) = TopRocket
         /\ \A j, k \in RocketsWon : j < k => WonWith(j).rank < WonWith(k).rank
    [] mission = 46 ->
         \A c \in Deck : c.suit = Black => \E k \in one : c \in Cards(history[k].plays)
    [] mission = 48 ->
         GoalsMet /\ AllPlayed /\ \A t \in Goals : setup.token[t].kind = "omega" =>
                       setup.goal[t] \in Cards(history[LastTrick].plays)
    [] OTHER -> GoalsMet

\* After every trick the engine says success if and only if what the log book
\* asks has been met: never too early, never too late, never missed.
VerdictIsRight ==
  phase # "playing" => (phase = "success" <=> MissionMet)
=============================================================================
