----------------------------- MODULE CrewTricks -----------------------------
(***************************************************************************)
(* One attempt at a mission, from the moment startPlaying opens the first  *)
(* trick to the verdict (src/src/game/engine.ts: legalCards, winner,       *)
(* resolve and the commands communicate, play_card and advance_trick).     *)
(*                                                                         *)
(* What a random generator chooses (the deal, the goals, the cards passed  *)
(* on in mission 12) is any choice.  The variable history, the tricks won  *)
(* so far, is auxiliary: no action reads it, the properties compare the    *)
(* verdict with it.                                                        *)
(***************************************************************************)
EXTENDS CrewTable, Sequences

CONSTANTS
  LeadTricks,  \* tricks of the first role in mission 50: 4
  MissionIds,  \* the missions attempted
  TaskCount,   \* taskCount of each, in shared/missions.json
  Deals,       \* bound: the deals considered in each mission, [Players -> SUBSET Deck]
  GoalPool,    \* bound: the cards drawn as goals in each, Deck in the program
  Speakers     \* bound: the seats that may communicate; all in the program

ASSUME TricksAssumption ==
  /\ N \in Nat /\ N >= 3
  /\ TopRank \in Nat \ {0} /\ TopRocket \in Nat \ {0} /\ LeadTricks \in Nat
  /\ IsFiniteSet(Colours) /\ Black \in Colours /\ Rocket \notin Colours
  /\ MissionIds \subseteq 1 .. 50
  /\ TaskCount \in [MissionIds -> Nat]
  /\ \A m \in MissionIds : GoalPool[m] \subseteq Deck /\ \A d \in Deals[m] : DealtEvenly(d)
  /\ \A m \in MissionIds : Ending(m) # "tasks" => TaskCount[m] = 0
  /\ LastTrick >= (IF 12 \in MissionIds THEN 3 ELSE 1)
  /\ 50 \in MissionIds => LeadTricks < LastTrick
  /\ Speakers \subseteq Players
  /\ None \notin Players

VARIABLES
  setup,         \* what the preparation fixed, see Setups
  phase,         \* State.phase
  hands,         \* State.hands
  trick,         \* State.trick: the plays on the table
  trickNumber,   \* State.trickNumber
  turn,          \* turnPlayerId
  status,        \* status of each goal
  communication, \* players[p].communication
  tricksWon,     \* players[p].tricksWon
  progress,      \* the counters of missionProgress
  history        \* every trick that has been won: [by, card, plays]

vars == <<setup, phase, hands, trick, trickNumber, turn, status,
          communication, tricksWon, progress, history>>

mission == setup.mission
Goals   == DOMAIN setup.goal

Play(p, c)   == [player |-> p, card |-> c]
Plays(s)     == {s[i] : i \in DOMAIN s}
Cards(s)     == {x.card : x \in Plays(s)}
Ones(cards)  == {c \in cards : ~IsRocket(c) /\ c.rank = 1}
-----------------------------------------------------------------------------
(* The goals drawn, and the first trick.                                   *)

\* The goals of mission m, not too many of one colour (goalLimit).
GoalLimit(n) == (n + Cardinality(Colours) - 1) \div Cardinality(Colours)
GoalCards(m) ==
  LET n == TaskCount[m] IN
  {g \in [1 .. n -> {c \in GoalPool[m] : ~IsRocket(c)}] :
     /\ \A i, j \in 1 .. n : i # j => g[i] # g[j]
     /\ \A s \in Colours : Cardinality({i \in 1 .. n : g[i].suit = s}) <= GoalLimit(n)}

\* startPlaying
Init ==
  /\ \E m \in MissionIds :
       /\ hands \in Deals[m]
       /\ LET n == TaskCount[m]
              captain == Commander(hands)
          IN \E goal \in GoalCards(m), owner \in OwnersOf(m, captain, n), token \in TokensOf(m, n),
                one \in Selected(m, hands), silent \in Silent(m, captain) :
             \E two \in Secondary(m, one) :
               setup = [mission |-> m, commander |-> captain, goal |-> goal, owner |-> owner,
                        token |-> token, selected |-> one, secondary |-> two, silent |-> silent]
  /\ phase = "playing"
  /\ trick = <<>> /\ trickNumber = 1
  /\ turn = setup.commander
  /\ status = [t \in Goals |-> "pending"]
  /\ communication = [p \in Players |-> None]
  /\ tricksWon = [p \in Players |-> 0]
  /\ progress = [oneWins |-> 0, rocketsWon |-> <<>>, blackCardsWon |-> 0, transferApplied |-> FALSE]
  /\ history = <<>>
-----------------------------------------------------------------------------
(* Communication.                                                          *)

\* communicationMarkers
Markers(hand, c) ==
  LET family == {x \in hand : x.suit = c.suit}
  IN IF c \notin hand \/ IsRocket(c) THEN {}
     ELSE IF family = {c} THEN {"only"}
     ELSE {mk \in {"highest", "lowest"} :
             \A x \in family : IF mk = "highest" THEN x.rank <= c.rank ELSE x.rank >= c.rank}

\* communicate: once per attempt, also in the middle of a trick.
Communicate(p, c, marker) ==
  /\ phase = "playing"
  /\ communication[p] = None
  /\ trickNumber >= FromTrick(mission)
  /\ setup.silent # p
  /\ marker \in IF HiddenMarker(mission) /\ Markers(hands[p], c) # {} THEN {"hidden"}
                ELSE Markers(hands[p], c)
  /\ communication' = [communication EXCEPT ![p] = [card |-> c, marker |-> marker, played |-> FALSE]]
  /\ UNCHANGED <<setup, phase, hands, trick, trickNumber, turn, status, tricksWon, progress, history>>
-----------------------------------------------------------------------------
(* The end of a trick.                                                     *)

\* winner: the highest rocket, or else the highest card of the suit led.
WinningPlays(plays) ==
  LET rockets  == {x \in Plays(plays) : IsRocket(x.card)}
      led      == {x \in Plays(plays) : x.card.suit = plays[1].card.suit}
      eligible == IF rockets # {} THEN rockets ELSE led
  IN {x \in eligible : \A y \in eligible : y.card.rank <= x.card.rank}

Exhausted(held) == \E p \in Players : held[p] = {}

\* The goals on the table are captured together.
Caught(plays) == {t \in Goals : status[t] = "pending" /\ setup.goal[t] \in Cards(plays)}
GoalsMissed(by, caught) ==
  \/ \E t \in caught : setup.owner[t] # by
  \/ BadTaskOrder(setup.token, {t \in Goals : status[t] = "success"}, caught)

Booked(caught, missed) ==
  [t \in Goals |-> IF t \notin caught THEN status[t]
                   ELSE IF missed THEN "failed" ELSE "success"]

\* missionProgress after the trick won with the play w.
\* Mutant: the lowest rocket is a one as well.
Counted_RocketIsOne(w, plays) ==
  [progress EXCEPT
     !.oneWins = IF mission \in {9, 26} /\ w.card.rank = 1 THEN @ + 1 ELSE @,
     !.rocketsWon = IF mission \in {13, 44} /\ IsRocket(w.card) THEN Append(@, w.card.rank) ELSE @,
     !.blackCardsWon =
       IF mission = 46 /\ w.player = setup.selected
       THEN @ + Cardinality({c \in Cards(plays) : c.suit = Black}) ELSE @]
Counted(w, plays) ==
  LET black == Cardinality({c \in Cards(plays) : c.suit = Black})
  IN [progress EXCEPT
       !.oneWins = IF mission \in {9, 26} /\ ~IsRocket(w.card) /\ w.card.rank = 1 THEN @ + 1 ELSE @,
       !.rocketsWon = IF mission \in {13, 44} /\ IsRocket(w.card) THEN Append(@, w.card.rank) ELSE @,
       !.blackCardsWon = IF mission = 46 /\ w.player = setup.selected THEN @ + black ELSE @]

OnesNeeded == IF mission = 9 THEN 1 ELSE 2
\* Mutant: only the hand of the commander is looked at.
OnesLeft_OneHand(held) == Cardinality(Ones(held[setup.commander]))
OnesLeft(held) == Cardinality(UNION {Ones(held[p]) : p \in Players})

\* The roles of missions 5, 33, 41 and 50; edge is the first or last trick.
RoleBroken(w, last, won) ==
  LET mine == w.player = setup.selected
  IN \/ mission = 5 /\ mine
     \/ mission \in {33, 41} /\ mine /\ IsRocket(w.card)
     \/ mission = 33 /\ mine /\ won[w.player] > 1
     \/ mission = 33 /\ last /\ won[setup.selected] # 1
     \/ mission = 41 /\ mine # (trickNumber = 1 \/ last)
     \/ mission = 50 /\ trickNumber <= LeadTricks /\ ~mine
     \/ mission = 50 /\ trickNumber > LeadTricks /\ last /\ w.player # setup.secondary
     \/ mission = 50 /\ trickNumber > LeadTricks /\ ~last
          /\ w.player \in {setup.selected, setup.secondary}

\* The special condition of the mission does not survive this trick.
ConditionBroken(w, plays, held, won, counted) ==
  LET last   == Exhausted(held)
      rocket == IsRocket(w.card)
  IN \/ RoleBroken(w, last, won)
     \/ mission \in {16, 17} /\ ~rocket /\ w.card.rank = TopRank
     \/ mission \in {29, 34} /\ \E p, q \in Players : won[p] > won[q] + 1
     \/ mission = 34 /\ (trickNumber = 1 \/ last) /\ w.player # setup.commander
     \/ mission \in {9, 26} /\ counted.oneWins + OnesLeft(held) < OnesNeeded
     \/ mission \in {13, 44} /\ Cardinality({c \in Cards(plays) : IsRocket(c)}) > 1
     \/ mission = 44 /\ rocket /\ w.card.rank # Len(progress.rocketsWon) + 1
     \/ mission = 46 /\ w.player # setup.selected /\ \E c \in Cards(plays) : c.suit = Black
     \/ mission = 48 /\ trickNumber # LastTrick
          /\ \E t \in Caught(plays) : setup.token[t].kind = "omega"

\* What ends the mission well.
\* Mutant: one goal is enough.
TasksDone_Some(newStatus) == \E t \in Goals : newStatus[t] = "success"
TasksDone(newStatus) == Goals # {} /\ \A t \in Goals : newStatus[t] = "success"
Accomplished(newStatus, held, counted) ==
  CASE Ending(mission) = "tasks"       -> TasksDone(newStatus)
    [] Ending(mission) = "full_hand"   -> Exhausted(held)
    [] Ending(mission) = "one_wins"    -> counted.oneWins >= OnesNeeded
    [] Ending(mission) = "rockets"     -> {counted.rocketsWon[i] : i \in DOMAIN counted.rocketsWon} = 1 .. TopRocket
    [] Ending(mission) = "black_cards" -> counted.blackCardsWon = TopRank

\* Mission 12: after the first trick everybody passes on a card, all at once,
\* but never the one already communicated.
\* Mutant: any card.
Passable_Any(p, held, said) == held[p]
Passable(p, held, said) ==
  {c \in held[p] : said[p] = None \/ said[p].played \/ said[p].card # c}
\* Mutant: the card of the last seat goes to nobody.
PassedOn_NoWrap(held, out) ==
  [p \in Players |-> (held[p] \ {out[p]}) \cup {out[q] : q \in {q \in Players : q + 1 = p}}]
PassedOn(held, out) ==
  [p \in Players |-> (held[p] \ {out[p]}) \cup {out[q] : q \in {q \in Players : SeatAfter(q) = p}}]
TransferDue == mission = 12 /\ trickNumber = 1 /\ ~progress.transferApplied
Transfer(held, said, counted) ==
  \E out \in [Players -> Deck] :
    /\ \A p \in Players : out[p] \in Passable(p, held, said)
    /\ hands' = PassedOn(held, out)
    /\ progress' = [counted EXCEPT !.transferApplied = TRUE]

\* resolve: the trick is won by w; held are the hands and said the
\* communications once the last card is on the table.
Resolve(w, plays, held, said) ==
  LET caught  == Caught(plays)
      missed  == GoalsMissed(w.player, caught)
      won     == [tricksWon EXCEPT ![w.player] = @ + 1]
      counted == Counted(w, plays)
      broken  == missed \/ ConditionBroken(w, plays, held, won, counted)
  IN /\ status' = Booked(caught, missed)
     /\ tricksWon' = won
     /\ phase' = IF broken THEN "failure"
                 ELSE IF Accomplished(status', held, counted) THEN "success"
                 ELSE IF Exhausted(held) THEN "failure"
                 ELSE "trick_result"
     /\ turn' = w.player
     /\ history' = Append(history, [by |-> w.player, card |-> w.card, plays |-> plays])
     /\ IF TransferDue /\ phase' = "trick_result"
        THEN Transfer(held, said, counted)
        ELSE hands' = held /\ progress' = counted
-----------------------------------------------------------------------------
(* The commands.                                                           *)

\* legalCards: follow the suit led, if you can.
\* Mutants: nothing may be played without it; rockets may always be played.
LegalCards_OnlyMatching(p) ==
  {c \in hands[p] : trick = <<>> \/ c.suit = trick[1].card.suit}
LegalCards_RocketAlways(p) ==
  LET matching == {c \in hands[p] : c.suit = trick[1].card.suit}
  IN IF trick = <<>> \/ matching = {} THEN hands[p]
     ELSE matching \cup {c \in hands[p] : IsRocket(c)}
LegalCards(p) ==
  LET matching == {c \in hands[p] : c.suit = trick[1].card.suit}
  IN IF trick = <<>> \/ matching = {} THEN hands[p] ELSE matching

\* play_card
PlayCard(p, c) ==
  /\ phase = "playing"
  /\ turn = p
  /\ c \in LegalCards(p)
  /\ LET held  == [hands EXCEPT ![p] = @ \ {c}]
         plays == Append(trick, Play(p, c))
         said  == IF communication[p] # None /\ communication[p].card = c
                  THEN [communication EXCEPT ![p].played = TRUE]
                  ELSE communication
     IN /\ trick' = plays
        /\ communication' = said
        /\ IF Len(plays) < N
           THEN /\ hands' = held
                /\ turn' = SeatAfter(p)
                /\ UNCHANGED <<phase, status, tricksWon, progress, history>>
           ELSE \E w \in WinningPlays(plays) : Resolve(w, plays, held, said)
  /\ UNCHANGED <<setup, trickNumber>>

\* advance_trick
\* Mutant: the last trick is not opened.
AdvanceTrick_OneShort ==
  /\ phase = "trick_result"
  /\ trickNumber + 1 < LastTrick
  /\ trick' = <<>>
  /\ trickNumber' = trickNumber + 1
  /\ phase' = "playing"
  /\ UNCHANGED <<setup, hands, turn, status, communication, tricksWon, progress, history>>
AdvanceTrick ==
  /\ phase = "trick_result"
  /\ trick' = <<>>
  /\ trickNumber' = trickNumber + 1
  /\ phase' = "playing"
  /\ UNCHANGED <<setup, hands, turn, status, communication, tricksWon, progress, history>>

PlayAny == \E p \in Players : \E c \in hands[p] : PlayCard(p, c)
SpeakAny ==
  \E p \in Speakers : \E c \in hands[p], mk \in {"highest", "lowest", "only", "hidden"} :
    Communicate(p, c, mk)
Next == PlayAny \/ AdvanceTrick \/ SpeakAny

Spec == Init /\ [][Next]_vars

\* Whoever has the turn plays, and the trick is taken up: by a player, by the
\* timer of a bot or by the timer of the room.
FairSpec == Spec /\ WF_vars(PlayAny) /\ WF_vars(AdvanceTrick)
-----------------------------------------------------------------------------
(* Invariants.                                                             *)

PlayType == [player : Players, card : Deck]
SaidType == [card : Deck, marker : {"highest", "lowest", "only", "hidden"}, played : BOOLEAN]
ProgressType == [oneWins : Nat, rocketsWon : Seq(1 .. TopRocket), blackCardsWon : Nat,
                 transferApplied : BOOLEAN]

\* Every variable has its type.
TypeOK ==
  /\ phase \in {"playing", "trick_result", "success", "failure"}
  /\ hands \in [Players -> SUBSET Deck]
  /\ trick \in Seq(PlayType)
  /\ trickNumber \in Nat \ {0}
  /\ turn \in Players
  /\ status \in [Goals -> {"pending", "success", "failed"}]
  /\ communication \in [Players -> SaidType \cup {None}]
  /\ tricksWon \in [Players -> Nat]
  /\ progress \in ProgressType

\* Cards on the table in a trick that has not been won, and in tricks won.
OnTable == IF phase = "playing" THEN Cards(trick) ELSE {}
CardsWon == UNION {Cards(history[k].plays) : k \in DOMAIN history}

\* No card is lost, held twice or played twice, the exchange of mission 12
\* included: hands, table and tricks won always make up the deck.
CardsConserved ==
  /\ \A p, q \in Players : p # q => hands[p] \cap hands[q] = {}
  /\ (UNION {hands[p] : p \in Players}) \cup OnTable \cup CardsWon = Deck
  /\ \A p \in Players : hands[p] \cap (OnTable \cup CardsWon) = {}
  /\ Len(history) * N + Cardinality(OnTable) = Cardinality(OnTable \cup CardsWon)

\* Some hand is empty exactly after the trick whose number is the number of
\* cards divided by the number of players: isFinalTrick, which counts tricks,
\* and exhausted, which looks at hands, mean the same trick.
ExhaustedIsFinal ==
  /\ trickNumber <= LastTrick
  /\ phase # "playing" => (Exhausted(hands) <=> trickNumber = LastTrick)

\* Until the verdict the player to move has not played to this trick and has
\* a legal card, even at tables where hands are of different sizes.
TurnCanPlay ==
  phase = "playing" =>
    /\ LegalCards(turn) # {}
    /\ \A x \in Plays(trick) : x.player # turn

\* The play goes on from whole states to whole states until the last trick.
PlayGoesOn == TypeOK /\ ExhaustedIsFinal /\ TurnCanPlay

\* A communicated card stays with the member who communicated it until it is
\* played, and then it is marked as played.  What its marker says remains
\* true of the hand, except in mission 12, where cards are passed on.
CommunicationHolds ==
  \A p \in Players : communication[p] # None =>
    LET c == communication[p].card
        mk == communication[p].marker
    IN /\ communication[p].played <=> c \notin hands[p]
       /\ ~communication[p].played /\ mission # 12 =>
            \A x \in hands[p] : x.suit = c.suit =>
              /\ mk \in {"highest", "only"} => x.rank <= c.rank
              /\ mk \in {"lowest", "only"}  => x.rank >= c.rank

\* Whoever did not follow suit had none left of the suit led: outside mission
\* 12 no card of it is held, or played to a later trick, by that player.
NoRevoke ==
  mission # 12 =>
    \A k \in DOMAIN history : LET plays == history[k].plays IN
      \A i \in DOMAIN plays : plays[i].card.suit # plays[1].card.suit =>
        /\ \A c \in hands[plays[i].player] : c.suit # plays[1].card.suit
        /\ \A j \in DOMAIN history : j > k =>
             \A x \in Plays(history[j].plays) :
               x.player = plays[i].player => x.card.suit # plays[1].card.suit

\* The attempt comes to a verdict.
AttemptEnds == <>(phase \in {"success", "failure"})
=============================================================================
