--------------------------- MODULE CrewSetupProofs ---------------------------
(***************************************************************************)
(* Proofs about CrewSetup, for every deck, number of players, mission and  *)
(* number of goals.                                                        *)
(***************************************************************************)
EXTENDS CrewSetup, FunctionTheorems, FiniteSetTheorems, WellFoundedInduction, TLAPS

-----------------------------------------------------------------------------
(* The table: seats, the deck and the deal.                                  *)

\* There are at least three seats.
LEMMA TableFacts ==
  ASSUME SetupAssumption
  PROVE  N \in Nat /\ N >= 3 /\ Players = 0 .. N - 1 /\ IsFiniteSet(Players) /\ Cardinality(Players) = N
<1>1. N \in Nat /\ N >= 3 /\ Players = 0 .. N - 1
  BY DEF SetupAssumption, Players
<1>2. 0 \in Int /\ N - 1 \in Int
  BY <1>1
<1>3. IsFiniteSet(0 .. N - 1) /\ Cardinality(0 .. N - 1) = IF 0 > N - 1 THEN 0 ELSE (N - 1) - 0 + 1
  BY ONLY <1>2, FS_Interval
<1> QED
  BY <1>1, <1>3

\* The deck is finite.
LEMMA DeckFinite == ASSUME SetupAssumption PROVE IsFiniteSet(Deck)
<1>1. /\ IsFiniteSet(Colours) /\ IsFiniteSet({Rocket})
      /\ IsFiniteSet(1 .. TopRank) /\ IsFiniteSet(1 .. TopRocket)
  <2>1. TopRank \in Int /\ TopRocket \in Int /\ IsFiniteSet(Colours)
    BY DEF SetupAssumption
  <2>2. IsFiniteSet(1 .. TopRank) /\ IsFiniteSet(1 .. TopRocket)
    BY ONLY <2>1, FS_Interval
  <2> QED
    BY ONLY <2>1, <2>2, FS_Singleton
<1>2. IsFiniteSet(Colours \X (1 .. TopRank)) /\ IsFiniteSet({Rocket} \X (1 .. TopRocket))
  BY ONLY <1>1, FS_Product
<1> DEFINE Made(S, T) == [x \in S \X T |-> [suit |-> x[1], rank |-> x[2]]]
<1>3. ASSUME NEW S, NEW T, IsFiniteSet(S \X T)
      PROVE  IsFiniteSet([suit : S, rank : T])
  <2>1. Made(S, T) \in [S \X T -> [suit : S, rank : T]]
    OBVIOUS
  <2>2. ASSUME NEW c \in [suit : S, rank : T]
        PROVE  \E x \in S \X T : Made(S, T)[x] = c
    <3>1. <<c.suit, c.rank>> \in S \X T /\ Made(S, T)[<<c.suit, c.rank>>] = c
      OBVIOUS
    <3> QED
      BY <3>1
  <2> HIDE DEF Made
  <2>3. Made(S, T) \in Surjection(S \X T, [suit : S, rank : T])
    BY <2>1, <2>2 DEF Surjection
  <2> QED
    BY ONLY <2>3, <1>3, FS_Surjection
<1> HIDE DEF Made
<1>4. /\ IsFiniteSet([suit : Colours, rank : 1 .. TopRank])
      /\ IsFiniteSet([suit : {Rocket}, rank : 1 .. TopRocket])
  BY ONLY <1>2, <1>3
<1> QED
  BY ONLY <1>4, FS_Union DEF Deck

\* The seats lie round the table: everybody sits between two others.
LEMMA Seats ==
  ASSUME SetupAssumption
  PROVE  /\ \A p \in Players : SeatAfter(p) \in Players /\ SeatAfter(p) # p
         /\ \A p \in Players : SeatBefore(p) \in Players /\ SeatAfter(SeatBefore(p)) = p
         /\ \A p, q \in Players : SeatAfter(p) = SeatAfter(q) => p = q
<1>1. \A p \in Players : SeatAfter(p) \in Players /\ SeatAfter(p) # p
  BY TableFacts DEF SeatAfter
<1>2. \A p, q \in Players : SeatAfter(p) = SeatAfter(q) => p = q
  BY TableFacts DEF SeatAfter
<1>3. ASSUME NEW p \in Players
      PROVE  \E q \in Players : SeatAfter(q) = p
  <2>1. CASE p = 0
    <3>1. N - 1 \in Players /\ SeatAfter(N - 1) = 0
      BY TableFacts DEF SeatAfter
    <3> QED
      BY <2>1, <3>1
  <2>2. CASE p # 0
    <3>1. p - 1 \in Players /\ SeatAfter(p - 1) = p
      BY <2>2, TableFacts DEF SeatAfter
    <3> QED
      BY <3>1
  <2> QED
    BY <2>1, <2>2
<1> QED
  BY <1>1, <1>2, <1>3 DEF SeatBefore

\* The highest rocket is dealt to one member, the commander.
TopCard == [suit |-> Rocket, rank |-> TopRocket]
LEMMA CommanderHolds ==
  ASSUME SetupAssumption, NEW d, DealtEvenly(d)
  PROVE  /\ Commander(d) \in Players /\ TopCard \in d[Commander(d)]
         /\ \A p \in Players : TopCard \in d[p] => p = Commander(d)
<1>1. TopCard \in Deck
  BY DEF SetupAssumption, TopCard, Deck
<1>2. \E p \in Players : TopCard \in d[p]
  BY <1>1 DEF DealtEvenly
<1>3. Commander(d) \in Players /\ TopCard \in d[Commander(d)]
  BY <1>2 DEF Commander, TopCard
<1> QED
  BY <1>3 DEF DealtEvenly

\* The highest black card is in some hand, so the role of mission 46 falls to a seat.
LEMMA BlackNineFalls ==
  ASSUME SetupAssumption, NEW d, DealtEvenly(d)
  PROVE  AfterBlackNine(d) \in Selected(46, d) /\ Selected(46, d) \subseteq Players
<1> DEFINE nine == [suit |-> Black, rank |-> TopRank]
           holders == {q \in Players : nine \in d[q]}
<1>1. nine \in Deck
  BY DEF SetupAssumption, Deck
<1>2. PICK q \in Players : nine \in d[q]
  BY <1>1 DEF DealtEvenly
<1>3. Selected(46, d) = {SeatAfter(p) : p \in holders}
  BY DEF Selected
<1>4. SeatAfter(q) \in Selected(46, d)
  BY <1>2, <1>3
<1>5. Selected(46, d) \subseteq Players
  BY <1>3, Seats
<1> QED
  BY <1>4, <1>5 DEF AfterBlackNine

-----------------------------------------------------------------------------
(* The exchange of cards.                                                    *)

\* Whose card p is given.
From(p) == IF distress.direction = "left" THEN SeatBefore(p) ELSE SeatAfter(p)

\* Everybody is given the card of one other member, and nobody gives to two.
LEMMA Givers ==
  ASSUME SetupAssumption
  PROVE  /\ \A p \in Players : From(p) \in Players /\ From(p) # p
         /\ \A p, q \in Players : From(p) = From(q) => p = q
         /\ \A p \in Players : \E q \in Players : From(q) = p
<1>1. \A p \in Players : SeatBefore(p) # p /\ SeatBefore(SeatAfter(p)) = p
  BY Seats
<1>2. CASE distress.direction = "left"
  BY <1>1, <1>2, Seats DEF From
<1>3. CASE distress.direction # "left"
  BY <1>1, <1>3, Seats DEF From
<1> QED
  BY <1>2, <1>3

\* Each hand loses the card its member gave and gains that of the giver.
LEMMA WhatMoves ==
  ASSUME SetupAssumption, NEW held, DealtEvenly(held),
         NEW out, \A p \in Players : out[p] \in held[p],
         NEW p \in Players
  PROVE  /\ Exchanged(held, out)[p] = (held[p] \ {out[p]}) \cup {out[From(p)]}
         /\ From(p) \in Players /\ out[From(p)] \notin held[p]
         /\ held[p] \ Exchanged(held, out)[p] = {out[p]}
         /\ Exchanged(held, out)[p] \ held[p] = {out[From(p)]}
<1>1. Exchanged(held, out)[p] = (held[p] \ {out[p]}) \cup {out[From(p)]}
  BY DEF Exchanged, From
<1>2. From(p) \in Players /\ From(p) # p
  BY Givers
<1>3. held[From(p)] \cap held[p] = {}
  BY <1>2 DEF DealtEvenly
<1>4. out[p] \in held[p] /\ out[From(p)] \in held[From(p)]
  BY <1>2
<1> QED
  BY <1>1, <1>2, <1>3, <1>4

\* It leaves every card with somebody, all hands as large as they were, and the
\* commander in command.
LEMMA ExchangeKeepsDeal ==
  ASSUME SetupAssumption, NEW held, DealtEvenly(held),
         NEW out, \A p \in Players : out[p] \in held[p] /\ ~IsRocket(out[p])
  PROVE  /\ DealtEvenly(Exchanged(held, out))
         /\ Commander(Exchanged(held, out)) = Commander(held)
<1> DEFINE new == Exchanged(held, out)
<1>0. held \in [Players -> SUBSET Deck]
  BY DEF DealtEvenly
<1>1. \A p \in Players : new[p] = (held[p] \ {out[p]}) \cup {out[From(p)]}
  BY WhatMoves
<1>2. \A p \in Players : From(p) \in Players /\ out[From(p)] \notin held[p] /\ out[From(p)] \in held[From(p)]
  BY WhatMoves
<1>3. new \in [Players -> SUBSET Deck]
  <2>1. \A p \in Players : new[p] \in SUBSET Deck
    BY <1>0, <1>1, <1>2
  <2>2. new = [p \in Players |-> new[p]]
    BY DEF Exchanged
  <2> HIDE DEF new
  <2> QED
    BY <2>1, <2>2
<1> HIDE DEF new
<1>4. ASSUME NEW p \in Players, NEW q \in Players, NEW c, c \in new[p], c \in new[q]
      PROVE  p = q
  <2>1. \A a, b \in Players : c \in held[a] /\ c \in held[b] => a = b
    BY DEF DealtEvenly
  <2>2. \A a, b \in Players : From(a) = From(b) => a = b
    BY Givers
  <2>3. /\ c \in held[p] \ {out[p]} \/ (c = out[From(p)] /\ c \in held[From(p)])
        /\ c \in held[q] \ {out[q]} \/ (c = out[From(q)] /\ c \in held[From(q)])
    BY <1>1, <1>2, <1>4
  <2>4. ASSUME c \in held[p] \ {out[p]}, c = out[From(q)], c \in held[From(q)] PROVE FALSE
    BY <2>1, <2>4, <1>2
  <2>5. ASSUME c \in held[q] \ {out[q]}, c = out[From(p)], c \in held[From(p)] PROVE FALSE
    BY <2>1, <2>5, <1>2
  <2> QED
    BY <2>1, <2>2, <2>3, <2>4, <2>5, <1>2
<1>5. ASSUME NEW c \in Deck
      PROVE  \E p \in Players : c \in new[p]
  <2>1. PICK p \in Players : c \in held[p]
    BY DEF DealtEvenly
  <2>2. CASE c # out[p]
    BY <2>1, <2>2, <1>1
  <2>3. CASE c = out[p]
    <3>1. PICK q \in Players : From(q) = p
      BY Givers
    <3> QED
      BY <2>3, <3>1, <1>1
  <2> QED
    BY <2>2, <2>3
<1>6. ASSUME NEW p \in Players
      PROVE  Cardinality(new[p]) = Cardinality(held[p])
  <2> DEFINE rest == held[p] \ {out[p]}
  <2>1. IsFiniteSet(held[p])
    BY ONLY <1>0, DeckFinite, FS_Subset, SetupAssumption
  <2>2. Cardinality(held[p]) \in Nat /\ IsFiniteSet(rest) /\ Cardinality(rest) = Cardinality(held[p]) - 1
    BY <2>1, FS_RemoveElement, FS_CardinalityType
  <2>3. out[From(p)] \notin rest
    BY <1>2
  <2> HIDE DEF rest
  <2>4. Cardinality(rest \cup {out[From(p)]}) = Cardinality(rest) + 1
    BY <2>2, <2>3, FS_AddElement
  <2>5. new[p] = rest \cup {out[From(p)]}
    BY <1>1 DEF rest
  <2> QED
    BY ONLY <2>2, <2>4, <2>5
<1>7. DealtEvenly(new)
  <2>1. \A p, q \in Players : p # q => new[p] \cap new[q] = {}
    BY <1>4
  <2>2. UNION {new[p] : p \in Players} = Deck
    BY <1>3, <1>5
  <2>3. \A p \in Players :
          Cardinality(new[p]) = LastTrick + (IF p < Cardinality(Deck) % N THEN 1 ELSE 0)
    BY <1>6 DEF DealtEvenly
  <2> QED
    BY ONLY <1>3, <2>1, <2>2, <2>3 DEF DealtEvenly
<1>8. TopCard \in new[Commander(held)]
  <2>1. Commander(held) \in Players /\ TopCard \in held[Commander(held)]
    BY CommanderHolds
  <2>2. TopCard # out[Commander(held)]
    BY <2>1 DEF TopCard, IsRocket
  <2> QED
    BY <2>1, <2>2, <1>1
<1>9. Commander(new) = Commander(held)
  BY <1>7, <1>8, CommanderHolds
<1> QED
  BY <1>7, <1>9 DEF new

-----------------------------------------------------------------------------
(* The inductive invariant, one part for each thing a preparation fixes.     *)

\* The signal: an exchange answers it, and it is open where it is asked.
SignalInv ==
  /\ distress.used => distress.resolved
  /\ stage \in {"briefing", "distress_vote", "distress_cards"} => ~distress.resolved
  /\ SignalIsSettled
  /\ SignalCostsOnce

\* The hands: dealt evenly whatever was exchanged, the highest rocket where it
\* was, and what was picked still held and no rocket.
HandsInv ==
  /\ DealtEvenly(hands) /\ dealt \in Deals
  /\ Commander(hands) = captain
  /\ HandsPassedOn
  /\ \A p \in Players : picks[p] # None =>
       stage = "distress_cards" /\ p \in answered /\ picks[p] \in Exchangeable(p)

TokensInv ==
  /\ token \in TokensOf(mission, TaskCount[mission])
  /\ stage = "token_edit" => mission \in TokenMissions

\* The roles r the mission knows once fin is done; that of mission 46, which
\* falls to a seat when play starts, apart.
RolesFit(r, fin) ==
  /\ r.silent \in IF mission = 11 /\ "role" \in fin THEN Players \ {captain} ELSE {None}
  /\ mission # 46 => r.selected \in IF mission \in {5, 33, 41, 50} /\ "role" \in fin THEN Players ELSE {None}
  /\ r.secondary \in IF mission = 50 /\ "role" \in fin THEN Players \ {r.selected} ELSE {None}
RolesInv ==
  /\ RolesFit(roles, done)
  /\ stage = "role" => mission \in RoleMissions /\ "role" \notin done /\ eligible = EligibleAt("role", owner)
  /\ stage = "playing" /\ mission \in RoleMissions => "role" \in done
  /\ mission = 46 =>
       roles.selected \in IF stage \in {"playing", "opened"} THEN Selected(46, hands) ELSE {None}

\* In the draft n goals are out after q whole rounds and some more from the
\* commander on, up to the seat whose turn it is.
TurnOf(p) == (p - captain + N) % N
Share(own, p) == Cardinality({t \in DOMAIN own : own[t] = p})
RoundAt(own, seat) ==
  \E q \in Nat :
    /\ Cardinality(DOMAIN own) - Cardinality(Open(own)) = q * N + TurnOf(seat)
    /\ \A p \in Players : Share(own, p) = q + (IF TurnOf(p) < TurnOf(seat) THEN 1 ELSE 0)

NoOwners == [t \in Tasks |-> None]
\* The owners own once fin is done: all shared out as the mission allows, or one
\* of them on the way.
OwnersFit(own, fin) ==
  /\ "assignment" \in fin => Open(own) = {}
  /\ "transfer" \in fin => N = 5 /\ FivePlayerTransfer(mission)
  /\ Open(own) = {} =>
       /\ own \in OwnersOf(mission, captain, TaskCount[mission])
       /\ "transfer" \notin fin => Shared(mission, captain, own)
Untouched(own) == Assignment(mission) # "distribution" /\ Open(own) # {} => own = NoOwners
OwnersInv ==
  /\ OwnersFit(owner, done)
  /\ stage # "task_selection" => Untouched(owner)
  /\ stage \in CaptainAsks \cup {"task_selection"} => "assignment" \notin done /\ Open(owner) # {}
  /\ stage = "task_selection" => Assignment(mission) = "draft" /\ RoundAt(owner, turn)
  /\ stage = "captain_decision" => Assignment(mission) = "decision" /\ eligible = Players \ {captain}
  /\ stage = "captain_distribution" =>
       /\ Assignment(mission) = "distribution" /\ eligible = DistributionTargets(owner)
       /\ active \in Open(owner)
  /\ stage = "task_transfer" => N = 5 /\ FivePlayerTransfer(mission) /\ "transfer" \notin done
  /\ stage \in {"task_transfer", "distress_vote", "distress_cards", "playing", "opened"} =>
       "assignment" \in done
  /\ stage = "playing" => turn = captain

SetupInv == TypeOK /\ SignalInv /\ HandsInv /\ TokensInv /\ RolesInv /\ OwnersInv

-----------------------------------------------------------------------------
(* Type correctness.                                                         *)

RolesType    == [selected : Players \cup {None}, secondary : Players \cup {None},
                 silent : Players \cup {None}]
DistressType == [direction : {None, "left", "right"}, resolved : BOOLEAN,
                 everUsed : BOOLEAN, used : BOOLEAN]
Steps        == {"role", "tokens", "assignment", "transfer"}
Sharing      == {"captain_decision", "captain_distribution", "task_selection"}
Settled      == {"task_transfer", "distress_vote", "playing"}

\* How advanceSetup chooses the next stage, read backwards.
LEMMA NextStageIs ==
  ASSUME NEW fin, NEW own, NEW dis, NEW s, s = NextStage(fin, own, dis)
  PROVE  /\ s \in {"role", "token_edit"} \cup Sharing \cup Settled
         /\ s = "role" => mission \in RoleMissions /\ "role" \notin fin
         /\ s = "token_edit" => mission \in TokenMissions
         /\ s \in Sharing => "assignment" \notin fin /\ Open(own) # {}
         /\ s = "captain_decision" => Assignment(mission) = "decision"
         /\ s = "captain_distribution" => Assignment(mission) = "distribution"
         /\ s = "task_selection" => Assignment(mission) = "draft"
         /\ s = "task_transfer" => N = 5 /\ FivePlayerTransfer(mission) /\ "transfer" \notin fin
         /\ s = "distress_vote" => DistressDue(dis)
         /\ s = "playing" => ~DistressDue(dis)
         /\ s \in Settled => /\ "assignment" \in fin \/ Open(own) = {}
                             /\ mission \in RoleMissions => "role" \in fin
<1>1. Assignment(mission) \in {"decision", "distribution", "draft"}
  BY DEF Assignment
<1>2. CASE mission \in RoleMissions /\ "role" \notin fin
  <2>1. s = "role"
    BY <1>2 DEF NextStage
  <2> QED
    BY <1>2, <2>1 DEF Sharing, Settled
<1> DEFINE roleDue   == mission \in RoleMissions /\ "role" \notin fin
           tokensDue == mission \in TokenMissions /\ "tokens" \notin fin
           sharesDue == "assignment" \notin fin /\ Open(own) # {}
           passDue   == N = 5 /\ FivePlayerTransfer(mission) /\ "transfer" \notin fin
<1>3. CASE ~roleDue /\ tokensDue
  <2>1. s = "token_edit"
    BY <1>3 DEF NextStage
  <2> QED
    BY <1>3, <2>1 DEF Sharing, Settled
<1>4. CASE ~roleDue /\ ~tokensDue /\ sharesDue
  <2>1. /\ Assignment(mission) = "decision" => s = "captain_decision"
        /\ Assignment(mission) = "distribution" => s = "captain_distribution"
        /\ Assignment(mission) = "draft" => s = "task_selection"
    BY <1>4 DEF NextStage
  <2> QED
    BY <1>1, <1>4, <2>1 DEF Sharing, Settled
<1>5. CASE ~roleDue /\ ~tokensDue /\ ~sharesDue
  <2>1. s = IF passDue THEN "task_transfer" ELSE IF DistressDue(dis) THEN "distress_vote" ELSE "playing"
    BY <1>5 DEF NextStage
  <2> QED
    BY <1>5, <2>1 DEF Sharing, Settled
<1> QED
  BY <1>2, <1>3, <1>4, <1>5

\* A set of goals that is not empty has a first one.
LEMMA FirstGoal ==
  ASSUME NEW S, S \subseteq Nat, S # {}
  PROVE  (CHOOSE t \in S : \A u \in S : t <= u) \in S
<1>1. \E R : IsWellFoundedOn(R, Nat) /\ \A u, t \in Nat : u < t => <<u, t>> \in R
  <2>1. IsWellFoundedOn(OpToRel(<, Nat), Nat)
    BY NatLessThanWellFounded
  <2>2. \A u, t \in Nat : u < t => <<u, t>> \in OpToRel(<, Nat)
    BY DEF OpToRel
  <2> QED
    BY Zenon, <2>1, <2>2
<1>2. PICK R : IsWellFoundedOn(R, Nat) /\ \A u, t \in Nat : u < t => <<u, t>> \in R
  BY <1>1
<1>3. PICK t \in S : \A u \in S : ~(<<u, t>> \in R)
  <2>1. IsWellFoundedOn(R, Nat)
    BY <1>2
  <2> QED
    BY ONLY <2>1, WFMin, S \subseteq Nat, S # {}
<1>4. ASSUME NEW u \in S
      PROVE  t <= u
  <2>1. u \in Nat /\ t \in Nat
    BY S \subseteq Nat
  <2>2. ~(u < t)
    BY <1>2, <1>3, <2>1
  <2> QED
    BY ONLY <2>1, <2>2
<1> QED
  BY <1>4

\* Who may be named at a stage is a member, and so is everybody that is.
LEMMA EligibleSeats ==
  ASSUME NEW s, NEW own
  PROVE  EligibleAt(s, own) \subseteq Players
BY DEF EligibleAt, DistributionTargets

\* What a stage and its answers change.
StageType ==
  /\ stage \in Stages
  /\ hands \in [Players -> SUBSET Deck]
  /\ turn \in Players
  /\ owner \in [Tasks -> Players \cup {None}]
  /\ done \subseteq Steps
  /\ eligible \subseteq Players /\ active \in Tasks \cup {None}
  /\ answered \subseteq Players /\ refused \subseteq answered
  /\ distress \in DistressType
  /\ roles \in RolesType
\* What it leaves alone.
OtherType ==
  /\ mission \in MissionIds
  /\ dealt \in [Players -> SUBSET Deck]
  /\ token \in [Tasks -> [kind : TokenKinds, value : Nat]]
  /\ briefed \subseteq Players
  /\ picks \in [Players -> Deck \cup {None}]
  /\ attemptNumber \in Nat /\ attempts \in Nat

\* Together they are all variables.
LEMMA TypeParts == TypeOK <=> StageType /\ OtherType
BY DEF TypeOK, StageType, OtherType, RolesType, DistressType, Steps

\* How many goals a mission has.
LEMMA GoalCount ==
  ASSUME SetupAssumption, mission \in MissionIds
  PROVE  TaskCount[mission] \in Nat /\ Tasks = 1 .. TaskCount[mission] /\ mission \in 1 .. 50
BY DEF SetupAssumption, Tasks

\* A stage opens with everything in its type.
LEMMA AdvanceType ==
  ASSUME SetupAssumption, mission \in MissionIds, DealtEvenly(dealt), UNCHANGED <<mission, dealt>>,
         NEW fin \in SUBSET Steps, NEW own \in [Tasks -> Players \cup {None}],
         NEW dis \in DistressType, NEW held, DealtEvenly(held), NEW r \in RolesType,
         AdvanceSetup(fin, own, dis, held, r)
  PROVE  StageType'
<1> DEFINE s == NextStage(fin, own, dis)
<1>1. Tasks' = Tasks /\ Tasks \subseteq Nat
  BY GoalCount DEF Tasks
<1>2. Prepare(s, own)
  BY DEF AdvanceSetup
<1>3. s \in {"role", "token_edit"} \cup Sharing \cup Settled /\ (s \in Sharing => Open(own) # {})
  BY NextStageIs
<1> HIDE DEF s
<1>4. stage' \in Stages /\ turn' \in Players /\ eligible' \subseteq Players /\ answered' = {} /\ refused' = {}
  <2>1. captain \in Players
    BY CommanderHolds DEF captain
  <2>2. s \in Stages
    BY <1>3 DEF Stages, Sharing, Settled
  <2> QED
    BY <1>2, <2>1, <2>2, EligibleSeats DEF Prepare
<1>5. active' \in Tasks \cup {None}
  <2>1. s = "captain_distribution" => Open(own) # {}
    BY <1>3 DEF Sharing
  <2>2. Open(own) \subseteq Tasks
    BY DEF Open
  <2>3. s = "captain_distribution" => (CHOOSE t \in Open(own) : \A u \in Open(own) : t <= u) \in Open(own)
    BY <1>1, <2>1, <2>2, FirstGoal
  <2> QED
    BY <1>2, <2>2, <2>3 DEF Prepare
<1>6. owner' \in [Tasks -> Players \cup {None}] /\ done' \subseteq Steps
  BY DEF AdvanceSetup, Steps
<1>7. hands' \in [Players -> SUBSET Deck]
  BY DEF AdvanceSetup, DealtEvenly
<1>8. distress' \in DistressType
  BY DEF AdvanceSetup, DistressType
<1>9. roles' \in RolesType
  <2>1. AfterBlackNine(held) \in Players
    BY BlackNineFalls
  <2> QED
    BY <2>1 DEF AdvanceSetup, RolesType
<1> QED
  BY <1>1, <1>4, <1>5, <1>6, <1>7, <1>8, <1>9 DEF StageType, Players

\* Every deal considered is an even one.
LEMMA DealtIsEven == ASSUME SetupAssumption, dealt \in Deals PROVE DealtEvenly(dealt)
BY DEF SetupAssumption

\* The tokens dealt, and those edited, are tokens.
LEMMA TokenType ==
  ASSUME SetupAssumption, mission \in MissionIds
  PROVE  /\ Dealt \in [Tasks -> [kind : TokenKinds, value : Nat]]
         /\ \A i, j \in Tasks : Edited(i, j) \in [Tasks -> [kind : TokenKinds, value : Nat]]
<1>1. /\ AbsoluteCount(mission) \in Nat /\ RelativeCount(mission) \in Nat
      /\ TaskCount[mission] \in Nat /\ Tasks = 1 .. TaskCount[mission]
  BY GoalCount DEF AbsoluteCount, RelativeCount
<1>2. ASSUME NEW i \in Tasks
      PROVE  Dealt[i] \in [kind : TokenKinds, value : Nat]
  BY <1>1 DEF Dealt, TokensDealt, Token, TokenKinds
<1>3. Dealt = [i \in Tasks |-> Dealt[i]]
  BY <1>1 DEF Dealt, TokensDealt
<1>4. Dealt \in [Tasks -> [kind : TokenKinds, value : Nat]]
  BY ONLY <1>2, <1>3
<1> QED
  BY <1>4 DEF Edited

\* The first briefing has every variable in its type.
LEMMA InitType == SetupAssumption /\ Init => TypeOK
<1> SUFFICES ASSUME SetupAssumption, Init PROVE TypeOK
  OBVIOUS
<1>1. captain \in Players /\ DealtEvenly(dealt)
  BY CommanderHolds, DealtIsEven DEF Init, captain
<1>2. token \in [Tasks -> [kind : TokenKinds, value : Nat]]
  BY TokenType DEF Init
<1>3. distress \in DistressType /\ roles \in RolesType
  BY DEF Init, NoRoles, DistressType, RolesType
<1>4. stage \in Stages
  BY DEF Init, Stages
<1> QED
  BY <1>1, <1>2, <1>3, <1>4 DEF Init, TypeOK, DealtEvenly, DistressType, RolesType

\* Every step of the preparation keeps the types.
LEMMA NextType == SetupAssumption /\ TypeOK /\ HandsInv /\ [Next]_vars => TypeOK'
<1> SUFFICES ASSUME SetupAssumption, TypeOK, HandsInv, [Next]_vars PROVE TypeOK'
  OBVIOUS
<1>0. /\ StageType /\ OtherType
      /\ DealtEvenly(hands) /\ DealtEvenly(dealt)
  BY TypeParts, DealtIsEven DEF HandsInv
<1>2. ASSUME Begin PROVE TypeOK'
  <2>1. PICK d \in Deals : dealt' = d /\ hands' = d /\ turn' = Commander(d)
    BY <1>2 DEF Begin
  <2>2. DealtEvenly(d) /\ Commander(d) \in Players
    BY CommanderHolds DEF SetupAssumption
  <2>3. mission' = mission /\ mission \in MissionIds /\ Tasks' = Tasks
    BY <1>0, <1>2 DEF Begin, OtherType, Tasks
  <2>4. token' \in [Tasks -> [kind : TokenKinds, value : Nat]]
    BY <1>2, <2>3, TokenType DEF Begin
  <2>5. distress' \in DistressType /\ roles' \in RolesType
    BY <1>0, <1>2 DEF Begin, StageType, NoRoles, DistressType, RolesType
  <2>6. stage' \in Stages
    BY <1>2 DEF Begin, Stages
  <2>7. StageType'
    BY <1>2, <2>1, <2>2, <2>3, <2>5, <2>6 DEF Begin, StageType, DealtEvenly, Players
  <2>8. OtherType'
    BY <1>0, <1>2, <2>1, <2>2, <2>3, <2>4 DEF Begin, OtherType, DealtEvenly, FreshPicks, Players
  <2> QED
    BY <2>7, <2>8, TypeParts, PTL
<1>3. ASSUME NEW fin \in SUBSET Steps, NEW own \in [Tasks -> Players \cup {None}],
             NEW dis \in DistressType, NEW held, DealtEvenly(held), NEW r \in RolesType,
             AdvanceSetup(fin, own, dis, held, r), UNCHANGED deal, OtherType'
      PROVE  TypeOK'
  <2>1. mission \in MissionIds /\ UNCHANGED <<mission, dealt>>
    BY <1>0, <1>3 DEF OtherType, deal
  <2>2. StageType'
    BY ONLY <1>3, <2>1, <1>0, AdvanceType, SetupAssumption
  <2> QED
    BY <1>3, <2>2, TypeParts, PTL
<1>4. ASSUME UNCHANGED <<token, briefed, picks, attemptNumber, deal>>
      PROVE  OtherType'
  BY <1>0, <1>4 DEF OtherType, deal, Tasks, Players
<1>5. /\ done \in SUBSET Steps /\ owner \in [Tasks -> Players \cup {None}]
      /\ distress \in DistressType /\ roles \in RolesType
  BY <1>0 DEF StageType
<1>6. ASSUME UNCHANGED <<stage, hands, turn, owner, done, prep, distress, roles, mission>>
      PROVE  StageType'
  BY <1>0, <1>6 DEF StageType, prep, Tasks, Players
<1>7. ASSUME NEW p \in Players, p \notin briefed, BriefingReady(p) PROVE TypeOK'
  <2>1. OtherType'
    BY <1>0, <1>7 DEF BriefingReady, deal, OtherType, Tasks, Players
  <2>2. CASE briefed' = Players
    <3>1. AdvanceSetup(done, owner, distress, hands, roles) /\ UNCHANGED deal
      BY <1>7, <2>2 DEF BriefingReady
    <3> QED
      BY <1>0, <1>3, <1>5, <2>1, <3>1
  <2>3. CASE briefed' # Players
    <3>1. StageType'
      BY <1>7, <2>3, <1>6 DEF BriefingReady, deal
    <3> QED
      BY <2>1, <3>1, TypeParts, PTL
  <2> QED
    BY <2>2, <2>3
<1>8. ASSUME NEW p \in Players, NEW no \in BOOLEAN, Respond(p, no) PROVE TypeOK'
  <2> DEFINE said == answered \cup {p}
             nays == IF no /\ stage = "distress_vote" THEN refused \cup {p} ELSE refused
             all  == stage = "distress_vote" /\ said = Players
  <2>1. OtherType' /\ UNCHANGED deal
    BY <1>4, <1>8 DEF Respond
  <2>2. \/ /\ answered' = said /\ refused' = nays
           /\ UNCHANGED <<stage, turn, eligible, active, owner, done, distress, hands, roles>>
        \/ /\ Prepare("distress_cards", owner)
           /\ UNCHANGED <<owner, done, distress, hands, roles>>
        \/ AdvanceSetup(done, owner, [distress EXCEPT !.resolved = TRUE], hands, roles)
    BY <1>8 DEF Respond
  <2>3. CASE /\ answered' = said /\ refused' = nays
             /\ UNCHANGED <<stage, turn, eligible, active, owner, done, distress, hands, roles>>
    <3>1. StageType'
      BY <1>0, <2>1, <2>3 DEF StageType, deal, Tasks, Players
    <3> QED
      BY <2>1, <3>1, TypeParts, PTL
  <2>4. CASE Prepare("distress_cards", owner) /\ UNCHANGED <<owner, done, distress, hands, roles>>
    <3>1. captain \in Players /\ EligibleAt("distress_cards", owner) \subseteq Players
      BY <1>0, CommanderHolds, EligibleSeats DEF captain
    <3>2. StageType'
      BY <1>0, <2>1, <2>4, <3>1 DEF Prepare, StageType, Stages, deal, Tasks, Players
    <3> QED
      BY <2>1, <3>2, TypeParts, PTL
  <2>5. CASE AdvanceSetup(done, owner, [distress EXCEPT !.resolved = TRUE], hands, roles)
    <3>1. [distress EXCEPT !.resolved = TRUE] \in DistressType
      BY <1>5 DEF DistressType
    <3> QED
      BY <1>0, <1>3, <1>5, <2>1, <2>5, <3>1
  <2> QED
    BY <2>2, <2>3, <2>4, <2>5
<1>9. ASSUME NEW p \in Players, NEW c \in Exchangeable(p), SelectDistressCard(p, c) PROVE TypeOK'
  <2> DEFINE out == [picks EXCEPT ![p] = c]
  <2>1. c \in hands[p] /\ c \in Deck
    BY <1>0 DEF Exchangeable, StageType
  <2>2. UNCHANGED <<token, briefed, deal>> /\ Tasks' = Tasks /\ Players' = Players
    BY <1>9 DEF SelectDistressCard, deal, Tasks, Players
  <2>3. out \in [Players -> Deck \cup {None}]
    BY <1>0, <2>1 DEF OtherType
  <2>4. CASE \E q \in Players : out[q] = None
    <3>1. /\ picks' = out /\ answered' = answered \cup {p}
          /\ UNCHANGED <<stage, turn, eligible, active, refused, owner, done, distress,
                            hands, roles, attemptNumber>>
      BY <1>9, <2>4 DEF SelectDistressCard
    <3>2. StageType'
      BY <1>0, <2>2, <3>1 DEF StageType
    <3>3. OtherType'
      BY <1>0, <2>2, <2>3, <3>1 DEF OtherType, deal
    <3> QED
      BY <3>2, <3>3, TypeParts, PTL
  <2>5. CASE ~\E q \in Players : out[q] = None
    <3>1. /\ picks' = [q \in Players |-> None]
          /\ attemptNumber' = IF FirstUse THEN attemptNumber + 1 ELSE attemptNumber
          /\ AdvanceSetup(done, owner, [distress EXCEPT !.resolved = TRUE, !.everUsed = TRUE, !.used = TRUE],
                          Exchanged(hands, out), roles)
      BY <1>9, <2>5 DEF SelectDistressCard
    <3>2. OtherType'
      BY <1>0, <2>2, <3>1 DEF OtherType, deal
    <3>3. [distress EXCEPT !.resolved = TRUE, !.everUsed = TRUE, !.used = TRUE] \in DistressType
      BY <1>5 DEF DistressType
    <3>4. \A q \in Players : out[q] \in hands[q] /\ ~IsRocket(out[q])
      BY <1>0, <2>5, <2>1 DEF HandsInv, Exchangeable, OtherType
    <3>5. DealtEvenly(Exchanged(hands, out))
      BY ONLY <1>0, <3>4, ExchangeKeepsDeal, SetupAssumption
    <3> QED
      BY <1>3, <1>5, <2>2, <3>1, <3>2, <3>3, <3>5
  <2> QED
    BY <2>4, <2>5
<1>10. ASSUME NEW p \in Players, NEW one \in Players, NEW two \in Players \cup {None}, SelectCrew(p, one, two)
       PROVE  TypeOK'
  <2> DEFINE r == [roles EXCEPT !.secondary = IF mission = 50 THEN two ELSE @]
  <2>1. OtherType' /\ UNCHANGED deal
    BY <1>4, <1>10 DEF SelectCrew
  <2>2. /\ r \in RolesType
        /\ [r EXCEPT !.silent = one] \in RolesType /\ [r EXCEPT !.selected = one] \in RolesType
        /\ [t \in Tasks |-> one] \in [Tasks -> Players \cup {None}]
        /\ done \cup {"assignment"} \in SUBSET Steps /\ done \cup {"role"} \in SUBSET Steps
    BY <1>5 DEF RolesType, Steps
  <2>3. \/ AdvanceSetup(done \cup {"assignment"}, [t \in Tasks |-> one], distress, hands, r)
        \/ AdvanceSetup(done \cup {"role"}, owner, distress, hands, [r EXCEPT !.silent = one])
        \/ AdvanceSetup(done \cup {"role"}, owner, distress, hands, [r EXCEPT !.selected = one])
    BY <1>10 DEF SelectCrew
  <2> HIDE DEF r
  <2> QED
    BY <1>0, <1>3, <1>5, <2>1, <2>2, <2>3
<1>11. ASSUME NEW p \in Players, NEW one \in Players, AssignTask(p, one) PROVE TypeOK'
  <2>1. /\ OtherType' /\ UNCHANGED deal
        /\ AdvanceSetup(done, [owner EXCEPT ![active] = one], distress, hands, roles)
    BY <1>4, <1>11 DEF AssignTask
  <2>2. [owner EXCEPT ![active] = one] \in [Tasks -> Players \cup {None}]
    BY <1>5
  <2> QED
    BY <1>0, <1>3, <1>5, <2>1, <2>2
<1>12. ASSUME NEW p \in Players, ConfirmTokens(p) PROVE TypeOK'
  <2>1. /\ UNCHANGED <<briefed, picks, attemptNumber, deal>> /\ Tasks' = Tasks /\ Players' = Players
        /\ AdvanceSetup(done \cup {"tokens"}, owner, distress, hands, roles)
    BY <1>12 DEF ConfirmTokens, deal, Tasks, Players
  <2>2. token' \in [Tasks -> [kind : TokenKinds, value : Nat]]
    BY <1>0, <1>12, TokenType DEF ConfirmTokens, OtherType
  <2>3. OtherType'
    BY <1>0, <2>1, <2>2 DEF OtherType, deal
  <2>4. done \cup {"tokens"} \in SUBSET Steps
    BY <1>5 DEF Steps
  <2> QED
    BY <1>0, <1>3, <1>5, <2>1, <2>3, <2>4
<1>13. ASSUME NEW p \in Players, NEW t \in Tasks, NEW q \in Players, TransferTask(p, t, q) PROVE TypeOK'
  <2>1. /\ OtherType' /\ UNCHANGED deal
        /\ AdvanceSetup(done \cup {"transfer"}, [owner EXCEPT ![t] = q], distress, hands, roles)
    BY <1>4, <1>13 DEF TransferTask
  <2>2. [owner EXCEPT ![t] = q] \in [Tasks -> Players \cup {None}] /\ done \cup {"transfer"} \in SUBSET Steps
    BY <1>5 DEF Steps
  <2> QED
    BY <1>0, <1>3, <1>5, <2>1, <2>2
<1>14. ASSUME NEW p \in Players, SkipTransfer(p) PROVE TypeOK'
  <2>1. /\ OtherType' /\ UNCHANGED deal
        /\ AdvanceSetup(done \cup {"transfer"}, owner, distress, hands, roles)
    BY <1>4, <1>14 DEF SkipTransfer
  <2>2. done \cup {"transfer"} \in SUBSET Steps
    BY <1>5 DEF Steps
  <2> QED
    BY <1>0, <1>3, <1>5, <2>1, <2>2
<1>15. ASSUME NEW p \in Players, NEW t \in Tasks, ChooseTask(p, t) PROVE TypeOK'
  <2> DEFINE left == Open(owner) \ {t}
             own  == [u \in DOMAIN owner |-> IF u = t THEN p
                        ELSE IF left = {u} THEN LastGoalTo(p) ELSE owner[u]]
  <2>1. OtherType' /\ UNCHANGED deal
    BY <1>4, <1>15 DEF ChooseTask
  <2>2. /\ own \in [Tasks -> Players \cup {None}]
        /\ SeatAfter(p) \in Players /\ done \cup {"assignment"} \in SUBSET Steps
    BY <1>5, Seats DEF LastGoalTo, Steps
  <2>3. \/ AdvanceSetup(done \cup {"assignment"}, own, distress, hands, roles)
        \/ /\ owner' = own /\ turn' = SeatAfter(p)
           /\ UNCHANGED <<stage, prep, done, distress, hands, roles>>
    BY <1>15 DEF ChooseTask
  <2> HIDE DEF own
  <2>4. CASE AdvanceSetup(done \cup {"assignment"}, own, distress, hands, roles)
    BY <1>0, <1>3, <1>5, <2>1, <2>2, <2>4
  <2>5. CASE /\ owner' = own /\ turn' = SeatAfter(p)
             /\ UNCHANGED <<stage, prep, done, distress, hands, roles>>
    <3>1. StageType'
      BY <1>0, <2>1, <2>2, <2>5 DEF StageType, prep, deal, Tasks, Players
    <3> QED
      BY <2>1, <3>1, TypeParts, PTL
  <2> QED
    BY <2>3, <2>4, <2>5
<1>16. ASSUME NEW p \in Players, \/ \E i, j \in Tasks : EditTaskTokens(p, i, j)
                                 \/ ResetTokens(p)
       PROVE  TypeOK'
  <2>1. /\ UNCHANGED <<stage, hands, turn, owner, done, prep, briefed, distress, picks, roles,
                       attemptNumber, deal>>
        /\ token' = Dealt \/ \E i, j \in Tasks : token' = Edited(i, j)
    BY <1>16 DEF EditTaskTokens, ResetTokens
  <2>2. token' \in [Tasks -> [kind : TokenKinds, value : Nat]]
    BY <1>0, <2>1, TokenType DEF OtherType
  <2>3. OtherType'
    BY <1>0, <2>1, <2>2 DEF OtherType, deal, Tasks, Players
  <2>4. StageType'
    BY <1>6, <2>1 DEF deal
  <2> QED
    BY <2>3, <2>4, TypeParts, PTL
<1>17. ASSUME NEW way \in {"left", "right"}, RequestDistress(way) PROVE TypeOK'
  <2>1. OtherType' /\ UNCHANGED <<deal, hands, owner, done, roles>>
    BY <1>4, <1>17 DEF RequestDistress
  <2>2. distress' \in DistressType
    BY <1>5, <1>17 DEF RequestDistress, DistressType
  <2>3. captain \in Players /\ EligibleAt("distress_vote", owner) \subseteq Players
    BY <1>0, CommanderHolds, EligibleSeats DEF captain
  <2>4. \/ UNCHANGED <<stage, turn, prep>>
        \/ Prepare("distress_vote", owner)
    BY <1>17 DEF RequestDistress
  <2>5. StageType'
    <3>1. CASE UNCHANGED <<stage, turn, prep>>
      BY <1>0, <2>1, <2>2, <3>1 DEF StageType, prep, deal, Tasks, Players
    <3>2. CASE Prepare("distress_vote", owner)
      BY <1>0, <2>1, <2>2, <2>3, <3>2 DEF Prepare, StageType, Stages, deal, Tasks, Players
    <3> QED
      BY <2>4, <3>1, <3>2
  <2> QED
    BY <2>1, <2>5, TypeParts, PTL
<1>18. ASSUME FirstMove \/ UNCHANGED vars PROVE TypeOK'
  <2>1. UNCHANGED <<hands, turn, owner, token, done, prep, briefed, distress, picks, roles,
                    attemptNumber, deal>>
    BY <1>18 DEF FirstMove, vars
  <2>2. OtherType'
    BY <1>4, <2>1
  <2>3. stage' \in Stages
    BY <1>0, <1>18 DEF FirstMove, vars, StageType, Stages
  <2>4. StageType'
    BY <1>0, <2>1, <2>3 DEF StageType, prep, deal, Tasks, Players
  <2> QED
    BY <2>2, <2>4, TypeParts, PTL
<1> QED
  BY <1>2, <1>7, <1>8, <1>9, <1>10, <1>11, <1>12, <1>13, <1>14, <1>15, <1>16, <1>17, <1>18
  DEF Next, Step, Move

-----------------------------------------------------------------------------
(* The signal.                                                               *)

\* The signal when a stage has opened: the vote sets a direction where none was
\* agreed, and nothing else.
LEMMA AdvanceSignal ==
  ASSUME NEW fin, NEW own, NEW dis \in DistressType, NEW held, NEW r,
         AdvanceSetup(fin, own, dis, held, r)
  PROVE  /\ distress' \in DistressType
         /\ distress'.resolved = dis.resolved
         /\ distress'.used = dis.used /\ distress'.everUsed = dis.everUsed
         /\ dis.resolved \/ dis.direction # None => distress'.direction = dis.direction
         /\ stage' \in {"role", "token_edit"} \cup Sharing \cup Settled
         /\ stage' = "distress_vote" => ~dis.resolved
         /\ stage' = "playing" => ~DistressDue(dis) /\ distress' = dis
<1> DEFINE s == NextStage(fin, own, dis)
<1>1. /\ s \in {"role", "token_edit"} \cup Sharing \cup Settled
      /\ s = "distress_vote" => DistressDue(dis)
      /\ s = "playing" => ~DistressDue(dis)
  BY NextStageIs
<1> HIDE DEF s
<1>2. /\ stage' = s
      /\ distress' = IF s = "distress_vote" /\ dis.direction = None
                     THEN [dis EXCEPT !.direction = "left"] ELSE dis
  BY DEF AdvanceSetup, Prepare, s
<1> QED
  BY <1>1, <1>2 DEF DistressDue, DistressType

\* The first briefing is before any signal.
LEMMA InitSignal == Init => SignalInv
BY DEF Init, SignalInv, SignalIsSettled, SignalCostsOnce

\* Every step keeps the signal in order.
LEMMA NextSignal == TypeOK /\ SignalInv /\ [Next]_vars => SignalInv'
<1> SUFFICES ASSUME TypeOK, SignalInv, [Next]_vars PROVE SignalInv'
  OBVIOUS
<1>1. /\ distress \in DistressType /\ attemptNumber \in Nat /\ attempts \in Nat
      /\ distress.used => distress.resolved
      /\ attemptNumber = attempts + (IF distress.everUsed THEN 1 ELSE 0)
  BY DEF TypeOK, DistressType, SignalInv, SignalCostsOnce
<1>2. ASSUME Begin PROVE SignalInv'
  <2>1. /\ stage' = "briefing" /\ attemptNumber' = attemptNumber + 1 /\ attempts' = attempts + 1
        /\ distress' = [distress EXCEPT !.direction = None, !.resolved = FALSE, !.used = FALSE]
    BY <1>2 DEF Begin
  <2>2. ~distress'.resolved /\ ~distress'.used /\ distress'.everUsed = distress.everUsed
    BY <1>1, <2>1 DEF DistressType
  <2> QED
    BY <1>1, <2>1, <2>2 DEF SignalInv, SignalIsSettled, SignalCostsOnce
<1>3. ASSUME NEW fin, NEW own, NEW dis \in DistressType, NEW held, NEW r,
             AdvanceSetup(fin, own, dis, held, r), UNCHANGED deal,
             dis.used => dis.resolved,
             attemptNumber' = attempts + (IF dis.everUsed THEN 1 ELSE 0)
      PROVE  SignalInv'
  <2>1. /\ distress'.resolved = dis.resolved /\ distress'.used = dis.used /\ distress'.everUsed = dis.everUsed
        /\ stage' \in {"role", "token_edit"} \cup Sharing \cup Settled
        /\ stage' = "distress_vote" => ~dis.resolved
        /\ stage' = "playing" => ~DistressDue(dis) /\ distress' = dis
    BY ONLY <1>3, AdvanceSignal
  <2>2. stage' \notin {"briefing", "distress_cards", "opened"}
    BY <2>1 DEF Sharing, Settled
  <2> QED
    BY <1>3, <2>1, <2>2 DEF deal, SignalInv, SignalIsSettled, SignalCostsOnce, DistressDue
<1>4. ASSUME NEW fin, NEW own, NEW held, NEW r, AdvanceSetup(fin, own, distress, held, r),
             UNCHANGED <<attemptNumber, deal>>
      PROVE  SignalInv'
  BY <1>1, <1>3, <1>4
<1>5. ASSUME UNCHANGED <<distress, attemptNumber, deal>>, stage' = stage
      PROVE  SignalInv'
  BY <1>5 DEF SignalInv, SignalIsSettled, SignalCostsOnce, deal
<1>6. ASSUME NEW p \in Players, BriefingReady(p) PROVE SignalInv'
  <2>1. \/ AdvanceSetup(done, owner, distress, hands, roles)
        \/ UNCHANGED <<stage, distress>>
    BY <1>6 DEF BriefingReady
  <2> QED
    BY <1>4, <1>5, <1>6, <2>1 DEF BriefingReady
<1>7. ASSUME NEW p \in Players, NEW no \in BOOLEAN, Respond(p, no) PROVE SignalInv'
  <2>1. \/ UNCHANGED <<stage, distress>>
        \/ stage = "distress_vote" /\ stage' = "distress_cards" /\ UNCHANGED distress
        \/ AdvanceSetup(done, owner, [distress EXCEPT !.resolved = TRUE], hands, roles)
    BY <1>7 DEF Respond, Prepare
  <2>2. UNCHANGED <<attemptNumber, deal>>
    BY <1>7 DEF Respond
  <2>3. CASE stage = "distress_vote" /\ stage' = "distress_cards" /\ UNCHANGED distress
    BY <2>2, <2>3 DEF SignalInv, SignalIsSettled, SignalCostsOnce, deal
  <2>4. CASE AdvanceSetup(done, owner, [distress EXCEPT !.resolved = TRUE], hands, roles)
    <3> DEFINE dis == [distress EXCEPT !.resolved = TRUE]
    <3>1. dis \in DistressType /\ dis.resolved /\ dis.everUsed = distress.everUsed
      BY <1>1 DEF DistressType
    <3> HIDE DEF dis
    <3> QED
      BY <1>1, <1>3, <2>2, <2>4, <3>1 DEF dis
  <2> QED
    BY <1>5, <2>1, <2>2, <2>3, <2>4
<1>8. ASSUME NEW p \in Players, NEW c \in Exchangeable(p), SelectDistressCard(p, c) PROVE SignalInv'
  <2> DEFINE dis == [distress EXCEPT !.resolved = TRUE, !.everUsed = TRUE, !.used = TRUE]
             out == [picks EXCEPT ![p] = c]
  <2>1. UNCHANGED deal /\ \/ UNCHANGED <<stage, distress, attemptNumber>>
                          \/ /\ attemptNumber' = IF FirstUse THEN attemptNumber + 1 ELSE attemptNumber
                             /\ AdvanceSetup(done, owner, dis, Exchanged(hands, out), roles)
    BY <1>8 DEF SelectDistressCard
  <2>2. dis \in DistressType /\ dis.resolved /\ dis.everUsed
    BY <1>1 DEF DistressType
  <2> HIDE DEF dis
  <2>3. CASE /\ attemptNumber' = IF FirstUse THEN attemptNumber + 1 ELSE attemptNumber
             /\ AdvanceSetup(done, owner, dis, Exchanged(hands, out), roles)
    <3>1. attemptNumber' = attempts + (IF dis.everUsed THEN 1 ELSE 0)
      BY <1>1, <2>2, <2>3 DEF FirstUse
    <3> QED
      BY <1>3, <2>1, <2>2, <2>3, <3>1
  <2> QED
    BY <1>5, <2>1, <2>3
<1>9. ASSUME NEW p \in Players, NEW one \in Players, NEW two \in Players \cup {None}, SelectCrew(p, one, two)
      PROVE  SignalInv'
  BY <1>4, <1>9 DEF SelectCrew
<1>10. ASSUME NEW p \in Players, NEW one \in Players, AssignTask(p, one) PROVE SignalInv'
  BY <1>4, <1>10 DEF AssignTask
<1>11. ASSUME NEW p \in Players, ConfirmTokens(p) PROVE SignalInv'
  BY <1>4, <1>11 DEF ConfirmTokens
<1>12. ASSUME NEW p \in Players, NEW t \in Tasks, NEW q \in Players, TransferTask(p, t, q) PROVE SignalInv'
  BY <1>4, <1>12 DEF TransferTask
<1>13. ASSUME NEW p \in Players, SkipTransfer(p) PROVE SignalInv'
  BY <1>4, <1>13 DEF SkipTransfer
<1>14. ASSUME NEW p \in Players, NEW t \in Tasks, ChooseTask(p, t) PROVE SignalInv'
  BY <1>4, <1>5, <1>14 DEF ChooseTask
<1>15. ASSUME NEW p \in Players, \/ \E i, j \in Tasks : EditTaskTokens(p, i, j)
                                 \/ ResetTokens(p)
       PROVE  SignalInv'
  BY <1>5, <1>15 DEF EditTaskTokens, ResetTokens
<1>16. ASSUME NEW way \in {"left", "right"}, RequestDistress(way) PROVE SignalInv'
  <2>1. /\ distress' = [distress EXCEPT !.direction = way] /\ ~distress.resolved
        /\ UNCHANGED <<attemptNumber, deal>>
    BY <1>16 DEF RequestDistress, SignalOpen
  <2>2. ~distress'.resolved /\ distress'.used = distress.used /\ distress'.everUsed = distress.everUsed
    BY <1>1, <2>1 DEF DistressType
  <2>3. stage' \in {"briefing", "distress_vote"}
    BY <1>16 DEF RequestDistress, Prepare
  <2> QED
    BY <1>1, <2>1, <2>2, <2>3 DEF SignalInv, SignalIsSettled, SignalCostsOnce, deal
<1>17. ASSUME FirstMove \/ UNCHANGED vars PROVE SignalInv'
  <2>1. /\ UNCHANGED <<distress, attemptNumber, deal>>
        /\ UNCHANGED stage \/ (stage = "playing" /\ stage' = "opened")
    BY <1>17 DEF FirstMove, vars
  <2> QED
    BY <2>1 DEF SignalInv, SignalIsSettled, SignalCostsOnce, deal
<1> QED
  BY <1>2, <1>6, <1>7, <1>8, <1>9, <1>10, <1>11, <1>12, <1>13, <1>14, <1>15, <1>16, <1>17
  DEF Next, Step, Move

-----------------------------------------------------------------------------
(* The hands.                                                                *)

\* The first briefing has the hands as dealt.
LEMMA InitHands == SetupAssumption /\ Init => HandsInv
<1> SUFFICES ASSUME SetupAssumption, Init PROVE HandsInv
  OBVIOUS
<1>1. DealtEvenly(hands) /\ dealt \in Deals /\ hands = dealt /\ Commander(hands) = captain
  BY DealtIsEven DEF Init, captain
<1>2. HandsPassedOn /\ \A p \in Players : picks[p] = None
  BY <1>1 DEF Init, HandsPassedOn
<1> QED
  BY <1>1, <1>2 DEF HandsInv

\* Every step keeps the hands in order.
LEMMA NextHands ==
  SetupAssumption /\ TypeOK /\ SignalInv /\ HandsInv /\ [Next]_vars => HandsInv'
<1> SUFFICES ASSUME SetupAssumption, TypeOK, SignalInv, HandsInv, [Next]_vars PROVE HandsInv'
  OBVIOUS
<1>1. /\ distress \in DistressType /\ picks \in [Players -> Deck \cup {None}]
      /\ distress.used => distress.resolved
      /\ None \notin Players /\ None \notin Deck
  BY DEF TypeOK, DistressType, SignalInv, SetupAssumption
<1>2. /\ DealtEvenly(hands) /\ dealt \in Deals /\ Commander(hands) = captain /\ HandsPassedOn
      /\ \A p \in Players : picks[p] # None =>
           stage = "distress_cards" /\ p \in answered /\ picks[p] \in Exchangeable(p)
  BY DEF HandsInv
<1>3. ASSUME UNCHANGED <<hands, dealt>>, distress'.used = distress.used,
             distress.used => distress'.direction = distress.direction
      PROVE  /\ DealtEvenly(hands') /\ dealt' \in Deals /\ Commander(hands') = captain'
             /\ HandsPassedOn' /\ \A p \in Players : Exchangeable(p)' = Exchangeable(p)
  <2>1. DealtEvenly(hands') /\ dealt' \in Deals /\ Commander(hands') = captain'
    BY <1>2, <1>3 DEF captain
  <2>2. HandsPassedOn'
    BY <1>2, <1>3 DEF HandsPassedOn
  <2> QED
    BY <1>3, <2>1, <2>2 DEF Exchangeable
<1>4. ASSUME UNCHANGED <<hands, dealt, picks, stage, answered>>, distress'.used = distress.used,
             distress.used => distress'.direction = distress.direction
      PROVE  HandsInv'
  BY <1>2, <1>3, <1>4 DEF HandsInv
<1>5. ASSUME UNCHANGED <<hands, dealt, picks>>, stage # "distress_cards", distress'.used = distress.used,
             distress.used => distress'.direction = distress.direction
      PROVE  HandsInv'
  BY <1>2, <1>3, <1>5 DEF HandsInv
<1>6. ASSUME NEW fin, NEW own, NEW dis \in DistressType, NEW r, AdvanceSetup(fin, own, dis, hands, r),
             UNCHANGED <<picks, deal>>, stage # "distress_cards",
             dis.used = distress.used, dis.direction = distress.direction, dis.used => dis.resolved
      PROVE  HandsInv'
  <2>1. /\ distress'.used = dis.used
        /\ dis.resolved => distress'.direction = dis.direction
    BY ONLY <1>6, AdvanceSignal
  <2>2. UNCHANGED <<hands, dealt>>
    BY <1>6 DEF AdvanceSetup, deal
  <2> QED
    BY <1>5, <1>6, <2>1, <2>2
<1>7. ASSUME NEW fin, NEW own, NEW r, AdvanceSetup(fin, own, distress, hands, r),
             UNCHANGED <<picks, deal>>, stage # "distress_cards"
      PROVE  HandsInv'
  BY <1>1, <1>6, <1>7
<1>8. ASSUME Begin PROVE HandsInv'
  <2>1. PICK d \in Deals : dealt' = d /\ hands' = d
    BY <1>8 DEF Begin
  <2>2. DealtEvenly(d)
    BY DEF SetupAssumption
  <2>3. /\ distress' = [distress EXCEPT !.direction = None, !.resolved = FALSE, !.used = FALSE]
        /\ picks' = FreshPicks
    BY <1>8 DEF Begin
  <2>4. ~distress'.used /\ \A p \in Players : picks'[p] = None
    BY <1>1, <2>3 DEF DistressType, FreshPicks
  <2> QED
    BY <2>1, <2>2, <2>4 DEF HandsInv, HandsPassedOn, captain
<1>9. ASSUME NEW p \in Players, BriefingReady(p) PROVE HandsInv'
  <2>1. UNCHANGED <<picks, deal>> /\ stage = "briefing"
    BY <1>9 DEF BriefingReady
  <2>2. \/ AdvanceSetup(done, owner, distress, hands, roles)
        \/ UNCHANGED <<distress, hands>>
    BY <1>9 DEF BriefingReady
  <2> QED
    BY <1>5, <1>7, <2>1, <2>2 DEF deal
<1>10. ASSUME NEW p \in Players, NEW no \in BOOLEAN, Respond(p, no) PROVE HandsInv'
  <2>1. UNCHANGED <<picks, deal>> /\ stage # "distress_cards"
    BY <1>10 DEF Respond, CaptainAsks
  <2>2. \/ UNCHANGED <<distress, hands>>
        \/ AdvanceSetup(done, owner, [distress EXCEPT !.resolved = TRUE], hands, roles)
    BY <1>10 DEF Respond
  <2> DEFINE dis == [distress EXCEPT !.resolved = TRUE]
  <2>3. dis \in DistressType /\ dis.used = distress.used /\ dis.direction = distress.direction /\ dis.resolved
    BY <1>1 DEF DistressType
  <2> HIDE DEF dis
  <2>4. CASE AdvanceSetup(done, owner, [distress EXCEPT !.resolved = TRUE], hands, roles)
    BY <1>6, <2>1, <2>3, <2>4 DEF dis
  <2> QED
    BY <1>5, <2>1, <2>2, <2>4 DEF deal
<1>11. ASSUME NEW p \in Players, NEW c \in Exchangeable(p), SelectDistressCard(p, c) PROVE HandsInv'
  <2> DEFINE dis == [distress EXCEPT !.resolved = TRUE, !.everUsed = TRUE, !.used = TRUE]
             out == [picks EXCEPT ![p] = c]
  <2>1. stage = "distress_cards" /\ UNCHANGED <<deal, dealt>> /\ c \in Deck /\ c # None
    BY <1>1, <1>2, <1>11 DEF SelectDistressCard, Exchangeable, deal, TypeOK
  <2>2. CASE \E q \in Players : out[q] = None
    <3>1. /\ picks' = out /\ answered' = answered \cup {p} /\ UNCHANGED <<stage, distress, hands>>
      BY <1>11, <2>2 DEF SelectDistressCard
    <3>2. ASSUME NEW q \in Players, picks'[q] # None
          PROVE  q \in answered' /\ picks'[q] \in Exchangeable(q)
      BY <1>1, <1>2, <3>1, <3>2
    <3>3. /\ DealtEvenly(hands') /\ dealt' \in Deals /\ Commander(hands') = captain'
          /\ HandsPassedOn' /\ \A q \in Players : Exchangeable(q)' = Exchangeable(q)
      BY <1>3, <2>1, <3>1
    <3> QED
      BY <2>1, <3>1, <3>2, <3>3 DEF HandsInv
  <2>3. CASE ~\E q \in Players : out[q] = None
    <3>1. /\ picks' = [q \in Players |-> None]
          /\ AdvanceSetup(done, owner, dis, Exchanged(hands, out), roles)
      BY <1>11, <2>3 DEF SelectDistressCard
    <3>2. dis \in DistressType /\ dis.resolved /\ dis.used /\ dis.direction = distress.direction
      BY <1>1 DEF DistressType
    <3>3. ~distress.used
      BY <1>1, <2>1 DEF SignalInv
    <3>4. hands = dealt
      BY <1>2, <3>3 DEF HandsPassedOn
    <3>5. \A q \in Players : out[q] \in hands[q] /\ ~IsRocket(out[q])
      BY <1>1, <1>2, <2>3, <2>1 DEF Exchangeable
    <3> HIDE DEF out, dis
    <3>6. distress'.used /\ distress'.direction = distress.direction
      BY ONLY <3>1, <3>2, AdvanceSignal
    <3>7. hands' = Exchanged(hands, out)
      BY <3>1 DEF AdvanceSetup
    <3>8. DealtEvenly(hands') /\ Commander(hands') = captain
      BY <1>2, <3>5, <3>7, ExchangeKeepsDeal
    <3>9. HandsPassedOn'
      <4>1. ASSUME NEW q \in Players
            PROVE  /\ Cardinality(dealt[q] \ hands'[q]) = 1 /\ Cardinality(hands'[q] \ dealt[q]) = 1
                   /\ hands'[q] \ dealt[q] \subseteq dealt[From(q)] \ hands'[From(q)]
        <5>1. /\ From(q) \in Players
              /\ hands[q] \ hands'[q] = {out[q]} /\ hands'[q] \ hands[q] = {out[From(q)]}
          BY <1>2, <3>5, <3>7, WhatMoves
        <5>2. hands[From(q)] \ hands'[From(q)] = {out[From(q)]}
          BY <1>2, <3>5, <3>7, <5>1, WhatMoves
        <5>3. Cardinality({out[q]}) = 1 /\ Cardinality({out[From(q)]}) = 1
          BY FS_Singleton
        <5> QED
          BY <3>4, <5>1, <5>2, <5>3
      <4> QED
        BY <2>1, <3>6, <4>1 DEF HandsPassedOn, From
    <3> QED
      BY <1>2, <2>1, <3>1, <3>8, <3>9 DEF HandsInv, captain
  <2> QED
    BY <2>2, <2>3
<1>12. ASSUME NEW p \in Players, NEW one \in Players, NEW two \in Players \cup {None}, SelectCrew(p, one, two)
       PROVE  HandsInv'
  BY <1>7, <1>12 DEF SelectCrew
<1>13. ASSUME NEW p \in Players, NEW one \in Players, AssignTask(p, one) PROVE HandsInv'
  BY <1>7, <1>13 DEF AssignTask
<1>14. ASSUME NEW p \in Players, ConfirmTokens(p) PROVE HandsInv'
  BY <1>7, <1>14 DEF ConfirmTokens
<1>15. ASSUME NEW p \in Players, NEW t \in Tasks, NEW q \in Players, TransferTask(p, t, q) PROVE HandsInv'
  BY <1>7, <1>15 DEF TransferTask
<1>16. ASSUME NEW p \in Players, SkipTransfer(p) PROVE HandsInv'
  BY <1>7, <1>16 DEF SkipTransfer
<1>17. ASSUME NEW p \in Players, NEW t \in Tasks, ChooseTask(p, t) PROVE HandsInv'
  BY <1>5, <1>7, <1>17 DEF ChooseTask, deal
<1>18. ASSUME NEW p \in Players, \/ \E i, j \in Tasks : EditTaskTokens(p, i, j)
                                 \/ ResetTokens(p)
       PROVE  HandsInv'
  BY <1>5, <1>18 DEF EditTaskTokens, ResetTokens, deal
<1>19. ASSUME NEW way \in {"left", "right"}, RequestDistress(way) PROVE HandsInv'
  <2>1. /\ distress' = [distress EXCEPT !.direction = way] /\ ~distress.resolved
        /\ stage # "distress_cards" /\ UNCHANGED <<hands, dealt, picks>>
    BY <1>19 DEF RequestDistress, SignalOpen, deal
  <2>2. distress'.used = distress.used /\ ~distress.used
    BY <1>1, <2>1 DEF DistressType
  <2> QED
    BY <1>5, <2>1, <2>2
<1>20. ASSUME FirstMove \/ UNCHANGED vars PROVE HandsInv'
  BY <1>4, <1>5, <1>20 DEF FirstMove, vars, prep, deal
<1> QED
  BY <1>8, <1>9, <1>10, <1>11, <1>12, <1>13, <1>14, <1>15, <1>16, <1>17, <1>18, <1>19, <1>20
  DEF Next, Step, Move

-----------------------------------------------------------------------------
(* The tokens.                                                               *)

\* An edit the commander may make leaves tokens the mission allows.
LEMMA EditIsLegal ==
  ASSUME mission \in TokenMissions, NEW i \in Tasks, NEW j \in Tasks, Editable(i, j)
  PROVE  Edited(i, j) \in TokensOf(mission, TaskCount[mission])
<1>1. /\ Edited(i, j) = [Dealt EXCEPT ![i] = Dealt[j], ![j] = Dealt[i]]
      /\ Dealt = TokensDealt(mission, TaskCount[mission])
      /\ <<i, j>> \in (1 .. TaskCount[mission]) \X (1 .. TaskCount[mission])
  BY DEF Edited, Dealt, Tasks
<1>2. \/ mission = 23 /\ ~(Dealt[i].kind = "none") /\ ~(Dealt[j].kind = "none")
      \/ mission = 40 /\ ~(Dealt[i].kind = "none") /\ Dealt[j].kind = "none"
  BY DEF Editable, Bare, TokenMissions
<1> DEFINE f == TokensDealt(mission, TaskCount[mission])
           Legal(a, b) == \/ mission = 23 /\ ~(f[a].kind = "none") /\ ~(f[b].kind = "none")
                          \/ mission = 40 /\ ~(f[a].kind = "none") /\ f[b].kind = "none"
           pairs == {y \in (1 .. TaskCount[mission]) \X (1 .. TaskCount[mission]) : Legal(y[1], y[2])}
           edits == {[f EXCEPT ![x[1]] = f[x[2]], ![x[2]] = f[x[1]]] : x \in pairs}
<1>3. <<i, j>> \in pairs
  BY <1>1, <1>2
<1>4. Edited(i, j) \in edits
  <2>1. [f EXCEPT ![<<i, j>>[1]] = f[<<i, j>>[2]], ![<<i, j>>[2]] = f[<<i, j>>[1]]] \in edits
    BY <1>3
  <2> QED
    BY <1>1, <2>1
<1>5. TokensOf(mission, TaskCount[mission]) = {f} \cup edits
  BY DEF TokensOf
<1> QED
  BY <1>4, <1>5

\* It has the tokens as dealt.
LEMMA InitTokens == Init => TokensInv
BY DEF Init, TokensInv, TokensOf, Dealt

\* Every step keeps the tokens the mission allows.
LEMMA NextTokens == TokensInv /\ [Next]_vars => TokensInv'
<1> SUFFICES ASSUME TokensInv, [Next]_vars PROVE TokensInv'
  OBVIOUS
<1>1. ASSUME UNCHANGED <<mission, token>>, stage' = "token_edit" => mission \in TokenMissions
      PROVE  TokensInv'
  BY <1>1 DEF TokensInv
<1>2. ASSUME NEW fin, NEW own, NEW dis, NEW held, NEW r, AdvanceSetup(fin, own, dis, held, r)
      PROVE  stage' = "token_edit" => mission \in TokenMissions
  <2> DEFINE s == NextStage(fin, own, dis)
  <2>1. s = "token_edit" => mission \in TokenMissions
    BY NextStageIs
  <2> HIDE DEF s
  <2>2. stage' = s
    BY <1>2 DEF AdvanceSetup, Prepare, s
  <2> QED
    BY <2>1, <2>2
<1>3. stage = "token_edit" => mission \in TokenMissions
  BY DEF TokensInv
<1>4. ASSUME Begin PROVE TokensInv'
  BY <1>4 DEF Begin, TokensInv, TokensOf, Dealt
<1>5. ASSUME NEW p \in Players, BriefingReady(p) PROVE TokensInv'
  BY <1>1, <1>2, <1>3, <1>5 DEF BriefingReady, deal
<1>6. ASSUME NEW p \in Players, NEW no \in BOOLEAN, Respond(p, no) PROVE TokensInv'
  <2>1. stage' = "token_edit" => mission \in TokenMissions
    BY <1>2, <1>3, <1>6 DEF Respond, Prepare
  <2> QED
    BY <1>1, <1>6, <2>1 DEF Respond, deal
<1>7. ASSUME NEW p \in Players, NEW c \in Exchangeable(p), SelectDistressCard(p, c) PROVE TokensInv'
  <2>1. stage' = "token_edit" => mission \in TokenMissions
    BY <1>2, <1>3, <1>7 DEF SelectDistressCard
  <2> QED
    BY <1>1, <1>7, <2>1 DEF SelectDistressCard, deal
<1>8. ASSUME NEW p \in Players, NEW one \in Players, NEW two \in Players \cup {None}, SelectCrew(p, one, two)
      PROVE  TokensInv'
  BY <1>1, <1>2, <1>8 DEF SelectCrew, deal
<1>9. ASSUME NEW p \in Players, NEW one \in Players, AssignTask(p, one) PROVE TokensInv'
  BY <1>1, <1>2, <1>9 DEF AssignTask, deal
<1>10. ASSUME NEW p \in Players, ConfirmTokens(p) PROVE TokensInv'
  <2>1. mission \in TokenMissions /\ UNCHANGED mission
    BY <1>3, <1>10 DEF ConfirmTokens, deal
  <2>2. token' \in TokensOf(mission, TaskCount[mission])
    BY <1>10, <2>1, EditIsLegal DEF ConfirmTokens, TokensInv
  <2> QED
    BY <2>1, <2>2 DEF TokensInv
<1>11. ASSUME NEW p \in Players, NEW t \in Tasks, NEW q \in Players, TransferTask(p, t, q) PROVE TokensInv'
  BY <1>1, <1>2, <1>11 DEF TransferTask, deal
<1>12. ASSUME NEW p \in Players, SkipTransfer(p) PROVE TokensInv'
  BY <1>1, <1>2, <1>12 DEF SkipTransfer, deal
<1>13. ASSUME NEW p \in Players, NEW t \in Tasks, ChooseTask(p, t) PROVE TokensInv'
  <2>1. stage' = "token_edit" => mission \in TokenMissions
    BY <1>2, <1>3, <1>13 DEF ChooseTask
  <2> QED
    BY <1>1, <1>13, <2>1 DEF ChooseTask, deal
<1>14. ASSUME NEW p \in Players, \/ \E i, j \in Tasks : EditTaskTokens(p, i, j)
                                 \/ ResetTokens(p)
       PROVE  TokensInv'
  <2>1. mission \in TokenMissions /\ UNCHANGED mission
    BY <1>3, <1>14 DEF EditTaskTokens, ResetTokens, deal
  <2>2. token' \in TokensOf(mission, TaskCount[mission])
    <3>1. Dealt \in TokensOf(mission, TaskCount[mission])
      BY DEF Dealt, TokensOf
    <3> QED
      BY <1>14, <2>1, <3>1, EditIsLegal DEF EditTaskTokens, ResetTokens
  <2> QED
    BY <2>1, <2>2 DEF TokensInv
<1>15. ASSUME NEW way \in {"left", "right"}, RequestDistress(way) PROVE TokensInv'
  BY <1>1, <1>3, <1>15 DEF RequestDistress, Prepare, deal
<1>16. ASSUME FirstMove \/ UNCHANGED vars PROVE TokensInv'
  BY <1>1, <1>3, <1>16 DEF FirstMove, vars, deal
<1> QED
  BY <1>4, <1>5, <1>6, <1>7, <1>8, <1>9, <1>10, <1>11, <1>12, <1>13, <1>14, <1>15, <1>16
  DEF Next, Step, Move

-----------------------------------------------------------------------------
(* The roles.                                                                *)

\* The first briefing knows no roles.
LEMMA InitRoles == Init => RolesInv
BY DEF Init, NoRoles, RolesInv, RolesFit

\* Every step keeps the roles the mission knows with the members it allows.
LEMMA NextRoles ==
  SetupAssumption /\ TypeOK /\ SignalInv /\ HandsInv /\ RolesInv /\ OwnersInv /\ [Next]_vars => RolesInv'
<1> SUFFICES ASSUME SetupAssumption, TypeOK, SignalInv, HandsInv, RolesInv, OwnersInv, [Next]_vars
             PROVE  RolesInv'
  OBVIOUS
<1>1. /\ roles \in RolesType /\ done \subseteq Steps /\ None \notin Players
      /\ DealtEvenly(hands) /\ DealtEvenly(dealt)
  BY DealtIsEven DEF TypeOK, RolesType, Steps, SetupAssumption, HandsInv
<1>2. /\ RolesFit(roles, done)
      /\ stage = "role" =>
           mission \in RoleMissions /\ "role" \notin done /\ eligible = EligibleAt("role", owner)
      /\ stage = "playing" /\ mission \in RoleMissions => "role" \in done
      /\ mission = 46 =>
           roles.selected \in IF stage \in {"playing", "opened"} THEN Selected(46, hands) ELSE {None}
  BY DEF RolesInv
<1>3. ASSUME UNCHANGED <<roles, done, mission, dealt, hands>>, stage' # "role", stage' # "playing",
             stage' = "opened" => stage = "playing",
             stage' # "opened" => stage # "playing" \/ mission # 46, stage # "opened"
      PROVE  RolesInv'
  BY <1>2, <1>3 DEF RolesInv, RolesFit, captain
<1>4. ASSUME UNCHANGED <<roles, done, mission, dealt, hands, stage, eligible>>
      PROVE  RolesInv'
  BY <1>2, <1>4 DEF RolesInv, RolesFit, EligibleAt, captain, RoleIncludesCommander
\* A stage opens with the roles r, once fin is done.
<1>5. ASSUME NEW fin \in SUBSET Steps, NEW own, NEW dis, NEW held, DealtEvenly(held), NEW r \in RolesType,
             AdvanceSetup(fin, own, dis, held, r), UNCHANGED deal,
             RolesFit(r, fin), mission = 46 => r.selected = None
      PROVE  RolesInv'
  <2> DEFINE s == NextStage(fin, own, dis)
  <2>1. /\ s \in {"role", "token_edit"} \cup Sharing \cup Settled
        /\ s = "role" => mission \in RoleMissions /\ "role" \notin fin
        /\ s = "playing" => (mission \in RoleMissions => "role" \in fin)
    BY NextStageIs DEF Settled
  <2> HIDE DEF s
  <2>2. /\ stage' = s /\ eligible' = EligibleAt(s, own) /\ hands' = held
        /\ "role" \in done' <=> "role" \in fin
        /\ roles' = IF s = "playing" /\ mission = 46 THEN [r EXCEPT !.selected = AfterBlackNine(held)] ELSE r
    BY <1>5 DEF AdvanceSetup, Prepare, s
  <2>3. s # "opened" /\ UNCHANGED <<mission, dealt>>
    BY <1>5, <2>1 DEF Sharing, Settled, deal
  <2>4. /\ roles'.silent = r.silent /\ roles'.secondary = r.secondary
        /\ mission # 46 => roles'.selected = r.selected
        /\ mission = 46 => roles'.selected \in IF s = "playing" THEN Selected(46, held) ELSE {None}
    BY <1>5, <2>2, BlackNineFalls DEF RolesType
  <2>5. RolesFit(roles', done')
    BY <1>5, <2>2, <2>4 DEF RolesFit
  <2>6. RolesFit(roles, done)'
    BY <2>3, <2>5 DEF RolesFit, captain
  <2>7. s = "role" => eligible' = EligibleAt("role", owner)'
    BY <2>2, <2>3 DEF EligibleAt, RoleIncludesCommander, captain
  <2> QED
    BY <2>1, <2>2, <2>3, <2>4, <2>6, <2>7 DEF RolesInv
\* None is given when it opens.
<1>6. ASSUME NEW fin \in SUBSET Steps, NEW own, NEW dis, NEW held, DealtEvenly(held),
             AdvanceSetup(fin, own, dis, held, roles), UNCHANGED deal,
             "role" \in fin <=> "role" \in done, stage \notin {"playing", "opened"}
      PROVE  RolesInv'
  <2>1. RolesFit(roles, fin)
    BY <1>2, <1>6 DEF RolesFit
  <2> QED
    BY <1>1, <1>2, <1>5, <1>6, <2>1
<1>7. ASSUME Begin PROVE RolesInv'
  BY <1>7 DEF Begin, NoRoles, RolesInv, RolesFit
<1>8. ASSUME NEW p \in Players, BriefingReady(p) PROVE RolesInv'
  <2>1. UNCHANGED deal /\ stage = "briefing"
    BY <1>8 DEF BriefingReady
  <2>2. \/ AdvanceSetup(done, owner, distress, hands, roles)
        \/ UNCHANGED <<stage, eligible, done, hands, roles>>
    BY <1>8 DEF BriefingReady, prep
  <2> QED
    BY <1>1, <1>4, <1>6, <2>1, <2>2 DEF deal
<1>9. ASSUME NEW p \in Players, NEW no \in BOOLEAN, Respond(p, no) PROVE RolesInv'
  <2>1. UNCHANGED deal /\ stage \notin {"playing", "opened"}
    BY <1>9 DEF Respond, CaptainAsks
  <2>2. \/ UNCHANGED <<stage, eligible, done, hands, roles>>
        \/ stage' = "distress_cards" /\ UNCHANGED <<done, hands, roles>>
        \/ AdvanceSetup(done, owner, [distress EXCEPT !.resolved = TRUE], hands, roles)
    BY <1>9 DEF Respond, Prepare
  <2> QED
    BY <1>1, <1>3, <1>4, <1>6, <2>1, <2>2 DEF deal
<1>10. ASSUME NEW p \in Players, NEW c \in Exchangeable(p), SelectDistressCard(p, c) PROVE RolesInv'
  <2> DEFINE out == [picks EXCEPT ![p] = c]
             dis == [distress EXCEPT !.resolved = TRUE, !.everUsed = TRUE, !.used = TRUE]
  <2>1. UNCHANGED deal /\ stage = "distress_cards"
    BY <1>10 DEF SelectDistressCard
  <2>2. \/ UNCHANGED <<stage, eligible, done, hands, roles>>
        \/ /\ \A q \in Players : out[q] # None
           /\ AdvanceSetup(done, owner, dis, Exchanged(hands, out), roles)
    BY <1>10 DEF SelectDistressCard
  <2>3. CASE /\ \A q \in Players : out[q] # None
             /\ AdvanceSetup(done, owner, dis, Exchanged(hands, out), roles)
    <3>1. \A q \in Players : out[q] \in hands[q] /\ ~IsRocket(out[q])
      BY <2>3 DEF HandsInv, Exchangeable, TypeOK
    <3> HIDE DEF out, dis
    <3>2. DealtEvenly(Exchanged(hands, out))
      BY <1>1, <3>1, ExchangeKeepsDeal
    <3> QED
      BY <1>1, <1>6, <2>1, <2>3, <3>2
  <2> QED
    BY <1>4, <2>1, <2>2, <2>3 DEF deal
<1>11. ASSUME NEW p \in Players, NEW one \in Players, NEW two \in Players \cup {None}, SelectCrew(p, one, two)
       PROVE  RolesInv'
  <2> DEFINE r == [roles EXCEPT !.secondary = IF mission = 50 THEN two ELSE @]
  <2>1. /\ UNCHANGED deal /\ stage \in {"role", "captain_decision"} /\ one \in eligible
        /\ mission = 50 => two \in eligible \ {one}
    BY <1>11 DEF SelectCrew
  <2>2. r \in RolesType /\ r.selected = roles.selected /\ r.silent = roles.silent
        /\ r.secondary = IF mission = 50 THEN two ELSE roles.secondary
    BY <1>1 DEF RolesType
  <2>3. \/ /\ stage = "captain_decision"
           /\ AdvanceSetup(done \cup {"assignment"}, [t \in Tasks |-> one], distress, hands, r)
        \/ /\ stage = "role" /\ mission = 11
           /\ AdvanceSetup(done \cup {"role"}, owner, distress, hands, [r EXCEPT !.silent = one])
        \/ /\ stage = "role" /\ mission # 11
           /\ AdvanceSetup(done \cup {"role"}, owner, distress, hands, [r EXCEPT !.selected = one])
    BY <1>11 DEF SelectCrew
  <2>4. stage = "role" => /\ mission \in RoleMissions /\ "role" \notin done
                          /\ eligible = IF mission # 11 THEN Players ELSE Players \ {captain}
    BY <1>2 DEF EligibleAt, RoleIncludesCommander
  <2> HIDE DEF r
  <2>5. CASE stage = "captain_decision"
    <3>1. mission # 50 /\ mission \notin RoleMissions
      BY <2>5 DEF OwnersInv, Assignment, RoleMissions
    <3>2. r = roles
      BY <1>1, <2>2, <3>1 DEF RolesType, r
    <3>3. AdvanceSetup(done \cup {"assignment"}, [t \in Tasks |-> one], distress, hands, roles)
      BY <2>3, <2>5, <3>2
    <3>4. done \cup {"assignment"} \in SUBSET Steps
      BY <1>1 DEF Steps
    <3> QED
      BY <1>1, <1>6, <2>1, <2>5, <3>3, <3>4
  <2>6. CASE stage = "role" /\ mission = 11
    <3> DEFINE new == [r EXCEPT !.silent = one]
    <3>1. /\ new \in RolesType /\ new.silent = one /\ new.selected = roles.selected
          /\ new.secondary = roles.secondary
      BY <2>2, <2>6 DEF RolesType
    <3>2. AdvanceSetup(done \cup {"role"}, owner, distress, hands, new)
      BY <2>3, <2>6
    <3> HIDE DEF new
    <3>3. RolesFit(new, done \cup {"role"})
      BY <1>2, <2>1, <2>4, <2>6, <3>1 DEF RolesFit
    <3>4. done \cup {"role"} \in SUBSET Steps
      BY <1>1 DEF Steps
    <3> QED
      BY <1>1, <1>5, <2>1, <2>6, <3>1, <3>2, <3>3, <3>4
  <2>7. CASE stage = "role" /\ mission # 11
    <3> DEFINE new == [r EXCEPT !.selected = one]
    <3>1. /\ new \in RolesType /\ new.silent = roles.silent /\ new.selected = one
          /\ new.secondary = IF mission = 50 THEN two ELSE roles.secondary
      BY <2>2 DEF RolesType
    <3>2. AdvanceSetup(done \cup {"role"}, owner, distress, hands, new)
      BY <2>3, <2>7
    <3> HIDE DEF new
    <3>3. RolesFit(new, done \cup {"role"})
      BY <1>2, <2>1, <2>4, <2>7, <3>1 DEF RolesFit, RoleMissions
    <3>4. done \cup {"role"} \in SUBSET Steps /\ mission # 46
      BY <1>1, <2>4, <2>7 DEF Steps, RoleMissions
    <3> QED
      BY <1>1, <1>5, <2>1, <3>1, <3>2, <3>3, <3>4
  <2> QED
    BY <2>1, <2>5, <2>6, <2>7
<1>12. ASSUME NEW p \in Players, NEW one \in Players, AssignTask(p, one) PROVE RolesInv'
  BY <1>1, <1>6, <1>12 DEF AssignTask
<1>13. ASSUME NEW p \in Players, ConfirmTokens(p) PROVE RolesInv'
  <2>1. done \cup {"tokens"} \in SUBSET Steps
    BY <1>1 DEF Steps
  <2> QED
    BY <1>1, <1>6, <1>13, <2>1 DEF ConfirmTokens
<1>14. ASSUME NEW p \in Players, NEW t \in Tasks, NEW q \in Players, TransferTask(p, t, q) PROVE RolesInv'
  <2>1. done \cup {"transfer"} \in SUBSET Steps
    BY <1>1 DEF Steps
  <2> QED
    BY <1>1, <1>6, <1>14, <2>1 DEF TransferTask
<1>15. ASSUME NEW p \in Players, SkipTransfer(p) PROVE RolesInv'
  <2>1. done \cup {"transfer"} \in SUBSET Steps
    BY <1>1 DEF Steps
  <2> QED
    BY <1>1, <1>6, <1>15, <2>1 DEF SkipTransfer
<1>16. ASSUME NEW p \in Players, NEW t \in Tasks, ChooseTask(p, t) PROVE RolesInv'
  <2>1. done \cup {"assignment"} \in SUBSET Steps
    BY <1>1 DEF Steps
  <2> QED
    BY <1>1, <1>4, <1>6, <1>16, <2>1 DEF ChooseTask, prep, deal
<1>17. ASSUME NEW p \in Players, \/ \E i, j \in Tasks : EditTaskTokens(p, i, j)
                                 \/ ResetTokens(p)
       PROVE  RolesInv'
  BY <1>4, <1>17 DEF EditTaskTokens, ResetTokens, prep, deal
<1>18. ASSUME NEW way \in {"left", "right"}, RequestDistress(way) PROVE RolesInv'
  <2>1. /\ ~distress.resolved /\ stage \in {"briefing", "playing"}
        /\ UNCHANGED <<roles, done, mission, dealt, hands>>
        /\ stage = "playing" => stage' = "distress_vote"
        /\ stage = "briefing" => UNCHANGED <<stage, eligible>>
    BY <1>18 DEF RequestDistress, SignalOpen, Prepare, deal, prep
  <2>2. stage = "playing" => mission # 46
    BY <2>1 DEF SignalInv, SignalIsSettled
  <2> QED
    BY <1>3, <1>4, <2>1, <2>2
<1>19. ASSUME FirstMove \/ UNCHANGED vars PROVE RolesInv'
  BY <1>3, <1>4, <1>19 DEF FirstMove, vars, prep, deal
<1> QED
  BY <1>7, <1>8, <1>9, <1>10, <1>11, <1>12, <1>13, <1>14, <1>15, <1>16, <1>17, <1>18, <1>19
  DEF Next, Step, Move

-----------------------------------------------------------------------------
(* Rounds of the table.                                                      *)

\* A multiple of k and less than k more.
LEMMA Quotient ==
  ASSUME NEW k \in Nat, k > 0, NEW q \in Int, NEW x \in 0 .. k - 1
  PROVE  (k * q + x) \div k = q /\ (k * q + x) % k = x
OBVIOUS

\* The turns are counted from the commander on.
LEMMA Turns ==
  ASSUME SetupAssumption, captain \in Players
  PROVE  /\ \A p \in Players : TurnOf(p) = IF p < captain THEN p - captain + N ELSE p - captain
         /\ \A p \in Players : TurnOf(p) \in 0 .. N - 1
         /\ TurnOf(captain) = 0
         /\ \A p \in Players : TurnOf(SeatAfter(p)) = IF TurnOf(p) + 1 < N THEN TurnOf(p) + 1 ELSE 0
         /\ \A p, q \in Players : TurnOf(p) = TurnOf(q) => p = q
<1> DEFINE c == captain
<1> HIDE DEF c
<1>0. N \in Nat /\ N >= 3 /\ Players = 0 .. N - 1 /\ c \in 0 .. N - 1
  BY TableFacts DEF c
<1>1. ASSUME NEW p \in Players
      PROVE  TurnOf(p) = IF p < c THEN p - c + N ELSE p - c
  <2>1. TurnOf(p) = (p - c + N) % N
    BY DEF TurnOf, c
  <2>2. CASE p < c
    <3>1. p - c + N \in 0 .. N - 1 /\ p - c + N = N * 0 + (p - c + N)
      BY <1>0, <2>2
    <3>2. (N * 0 + (p - c + N)) % N = p - c + N
      BY ONLY <1>0, <3>1, Quotient
    <3> QED
      BY <2>1, <2>2, <3>1, <3>2
  <2>3. CASE ~(p < c)
    <3>1. p - c \in 0 .. N - 1 /\ p - c + N = N * 1 + (p - c)
      BY <1>0, <2>3
    <3>2. (N * 1 + (p - c)) % N = p - c
      BY ONLY <1>0, <3>1, Quotient
    <3> QED
      BY <2>1, <2>3, <3>1, <3>2
  <2> QED
    BY <2>2, <2>3
<1>2. \A p \in Players : TurnOf(p) \in 0 .. N - 1
  BY <1>0, <1>1
<1>3. TurnOf(c) = 0
  BY <1>0, <1>1
<1>4. ASSUME NEW p \in Players
      PROVE  TurnOf(SeatAfter(p)) = IF TurnOf(p) + 1 < N THEN TurnOf(p) + 1 ELSE 0
  <2>1. SeatAfter(p) \in Players /\ SeatAfter(p) = IF p + 1 < N THEN p + 1 ELSE 0
    BY Seats DEF SeatAfter
  <2>2. /\ TurnOf(p) = IF p < c THEN p - c + N ELSE p - c
        /\ TurnOf(SeatAfter(p)) = IF SeatAfter(p) < c THEN SeatAfter(p) - c + N ELSE SeatAfter(p) - c
    BY <1>1, <2>1
  <2> QED
    BY ONLY <1>0, <2>1, <2>2, p \in Players
<1>5. ASSUME NEW p \in Players, NEW q \in Players, TurnOf(p) = TurnOf(q)
      PROVE  p = q
  <2>1. /\ TurnOf(p) = IF p < c THEN p - c + N ELSE p - c
        /\ TurnOf(q) = IF q < c THEN q - c + N ELSE q - c
    BY <1>1
  <2>2. /\ N \in Int /\ c \in Int /\ p \in Int /\ q \in Int
        /\ 0 <= p /\ p <= N - 1 /\ 0 <= q /\ q <= N - 1
    BY <1>0
  <2>3. (IF p < c THEN p - c + N ELSE p - c) = (IF q < c THEN q - c + N ELSE q - c)
    BY <1>5, <2>1
  <2>4. CASE p < c /\ q < c
    BY ONLY <2>2, <2>3, <2>4
  <2>5. CASE ~(p < c) /\ ~(q < c)
    BY ONLY <2>2, <2>3, <2>5
  <2>6. CASE p < c /\ ~(q < c)
    BY ONLY <2>2, <2>3, <2>6
  <2>7. CASE ~(p < c) /\ q < c
    BY ONLY <2>2, <2>3, <2>7
  <2> QED
    BY <2>4, <2>5, <2>6, <2>7
<1> QED
  BY <1>1, <1>2, <1>3, <1>4, <1>5 DEF c

\* A goal of own given to p: p has one more, the others have what they had.
LEMMA OneMore ==
  ASSUME SetupAssumption, mission \in MissionIds,
         NEW own \in [Tasks -> Players \cup {None}], NEW t \in Open(own), NEW p \in Players
  PROVE  LET new == [own EXCEPT ![t] = p]
         IN /\ new \in [Tasks -> Players \cup {None}]
            /\ t \in Tasks /\ Open(new) = Open(own) \ {t}
            /\ Cardinality(Open(own)) \in Nat /\ Cardinality(Open(new)) = Cardinality(Open(own)) - 1
            /\ \A q \in Players : /\ Share(own, q) \in Nat
                                  /\ Share(new, q) = Share(own, q) + (IF p = q THEN 1 ELSE 0)
<1> DEFINE new == [own EXCEPT ![t] = p]
<1>1. /\ None \notin Players /\ t \in Tasks /\ own[t] = None
      /\ new \in [Tasks -> Players \cup {None}]
      /\ \A u \in Tasks : new[u] = IF u = t THEN p ELSE own[u]
  BY DEF SetupAssumption, Open
<1>2. IsFiniteSet(Tasks)
  <2>1. 1 \in Int /\ TaskCount[mission] \in Int /\ Tasks = 1 .. TaskCount[mission]
    BY GoalCount
  <2> QED
    BY ONLY <2>1, FS_Interval
<1> HIDE DEF new
<1>3. /\ DOMAIN own = Tasks /\ DOMAIN new = Tasks
      /\ Open(own) \subseteq Tasks /\ Open(new) = Open(own) \ {t} /\ t \in Open(own)
  BY <1>1 DEF Open
<1>4. IsFiniteSet(Open(own))
  BY ONLY <1>2, <1>3, FS_Subset
<1>5. Cardinality(Open(own)) \in Nat /\ Cardinality(Open(new)) = Cardinality(Open(own)) - 1
  BY ONLY <1>3, <1>4, FS_CardinalityType, FS_RemoveElement
<1>6. ASSUME NEW q \in Players
      PROVE  /\ Share(own, q) \in Nat
             /\ Share(new, q) = Share(own, q) + (IF p = q THEN 1 ELSE 0)
  <2> DEFINE S == {u \in DOMAIN own : own[u] = q}
             R == {u \in DOMAIN new : new[u] = q}
  <2>1. S \subseteq Tasks /\ t \notin S /\ R = IF p = q THEN S \cup {t} ELSE S
    BY <1>1, <1>3
  <2> HIDE DEF S, R
  <2>2. IsFiniteSet(S)
    BY ONLY <1>2, <2>1, FS_Subset
  <2>3. Cardinality(S) \in Nat /\ Cardinality(S \cup {t}) = Cardinality(S) + 1
    BY ONLY <2>1, <2>2, FS_CardinalityType, FS_AddElement
  <2>4. Share(own, q) = Cardinality(S) /\ Share(new, q) = Cardinality(R)
    BY DEF Share, S, R
  <2> QED
    BY <2>1, <2>3, <2>4
<1> QED
  BY <1>1, <1>3, <1>5, <1>6 DEF new

\* Nobody has a goal before the first is given.
LEMMA NobodyHasOne ==
  ASSUME SetupAssumption, mission \in MissionIds, captain \in Players
  PROVE  RoundAt(NoOwners, captain)
<1>1. IsFiniteSet(Tasks)
  <2>1. 1 \in Int /\ TaskCount[mission] \in Int /\ Tasks = 1 .. TaskCount[mission]
    BY GoalCount
  <2> QED
    BY ONLY <2>1, FS_Interval
<1>2. DOMAIN NoOwners = Tasks /\ Open(NoOwners) = Tasks
  BY DEF NoOwners, Open
<1>3. Cardinality(Tasks) \in Nat
  BY ONLY <1>1, FS_CardinalityType
<1>4. ASSUME NEW p \in Players PROVE Share(NoOwners, p) = 0
  <2>1. {t \in DOMAIN NoOwners : NoOwners[t] = p} = {}
    BY DEF NoOwners, SetupAssumption
  <2>2. Cardinality({}) = 0
    BY FS_EmptySet
  <2> QED
    BY <2>1, <2>2 DEF Share
<1>5. TurnOf(captain) = 0 /\ N \in Nat /\ \A p \in Players : TurnOf(p) \in 0 .. N - 1
  BY Turns, TableFacts
<1>6. /\ Cardinality(DOMAIN NoOwners) - Cardinality(Open(NoOwners)) = 0 * N + TurnOf(captain)
      /\ \A p \in Players : Share(NoOwners, p) = 0 + (IF TurnOf(p) < TurnOf(captain) THEN 1 ELSE 0)
  BY <1>2, <1>3, <1>4, <1>5
<1> QED
  BY <1>6 DEF RoundAt

\* The member whose turn it is takes a goal, and the turn goes on.
LEMMA RoundGoesOn ==
  ASSUME SetupAssumption, mission \in MissionIds, captain \in Players,
         NEW own \in [Tasks -> Players \cup {None}], NEW t \in Open(own), NEW p \in Players, RoundAt(own, p)
  PROVE  RoundAt([own EXCEPT ![t] = p], SeatAfter(p))
<1> DEFINE new == [own EXCEPT ![t] = p]
<1>1. /\ Cardinality(Open(own)) \in Nat /\ Cardinality(Open(new)) = Cardinality(Open(own)) - 1
      /\ \A q \in Players : /\ Share(own, q) \in Nat
                            /\ Share(new, q) = Share(own, q) + (IF p = q THEN 1 ELSE 0)
  BY OneMore
<1>2. Cardinality(Tasks) \in Nat
  <2>1. 1 \in Int /\ TaskCount[mission] \in Int /\ Tasks = 1 .. TaskCount[mission]
    BY GoalCount
  <2>2. IsFiniteSet(Tasks)
    BY ONLY <2>1, FS_Interval
  <2> QED
    BY ONLY <2>2, FS_CardinalityType
<1>3. DOMAIN new = Tasks /\ DOMAIN own = Tasks
  OBVIOUS
<1> HIDE DEF new
<1>4. PICK q \in Nat :
        /\ Cardinality(Tasks) - Cardinality(Open(own)) = q * N + TurnOf(p)
        /\ \A x \in Players : Share(own, x) = q + (IF TurnOf(x) < TurnOf(p) THEN 1 ELSE 0)
  BY <1>3 DEF RoundAt
<1>5. /\ N \in Nat /\ N >= 3
      /\ \A x \in Players : TurnOf(x) \in 0 .. N - 1
      /\ TurnOf(SeatAfter(p)) = IF TurnOf(p) + 1 < N THEN TurnOf(p) + 1 ELSE 0
      /\ \A x \in Players : TurnOf(x) = TurnOf(p) => x = p
  BY Turns, TableFacts
<1>6. q * N \in Nat
  BY <1>5
<1>7. Cardinality(Tasks) - Cardinality(Open(new)) = q * N + TurnOf(p) + 1
  BY <1>1, <1>2, <1>4, <1>5, <1>6
<1>8. CASE TurnOf(p) + 1 < N
  <2>1. Cardinality(Tasks) - Cardinality(Open(new)) = q * N + TurnOf(SeatAfter(p))
    BY <1>5, <1>6, <1>7, <1>8
  <2>2. ASSUME NEW x \in Players
        PROVE  Share(new, x) = q + (IF TurnOf(x) < TurnOf(SeatAfter(p)) THEN 1 ELSE 0)
    BY <1>1, <1>4, <1>5, <1>8
  <2> QED
    BY <1>3, <2>1, <2>2 DEF RoundAt, new
<1>9. CASE ~(TurnOf(p) + 1 < N)
  <2>1. TurnOf(p) = N - 1 /\ (q + 1) * N = q * N + N /\ q + 1 \in Nat
    BY <1>5, <1>9
  <2>2. Cardinality(Tasks) - Cardinality(Open(new)) = (q + 1) * N + TurnOf(SeatAfter(p))
    BY <1>5, <1>6, <1>7, <1>9, <2>1
  <2>3. ASSUME NEW x \in Players
        PROVE  Share(new, x) = (q + 1) + (IF TurnOf(x) < TurnOf(SeatAfter(p)) THEN 1 ELSE 0)
    BY <1>1, <1>4, <1>5, <1>9, <2>1
  <2> QED
    BY <1>3, <2>1, <2>2, <2>3 DEF RoundAt, new
<1> QED
  BY <1>8, <1>9

\* When the last goal is gone, the draft has shared them as it should.
LEMMA RoundsShare ==
  ASSUME SetupAssumption, mission \in MissionIds, captain \in Players, Assignment(mission) = "draft",
         NEW own \in [Tasks -> Players \cup {None}], NEW seat \in Players,
         RoundAt(own, seat), Open(own) = {}
  PROVE  Shared(mission, captain, own)
<1> DEFINE n == Cardinality(DOMAIN own)
<1>1. Cardinality(Open(own)) = 0
  BY FS_EmptySet
<1>2. n \in Nat
  <2>1. 1 \in Int /\ TaskCount[mission] \in Int /\ DOMAIN own = 1 .. TaskCount[mission]
    BY GoalCount
  <2>2. IsFiniteSet(DOMAIN own)
    BY ONLY <2>1, FS_Interval
  <2> QED
    BY ONLY <2>2, FS_CardinalityType
<1> HIDE DEF n
<1>3. PICK q \in Nat :
        /\ n - Cardinality(Open(own)) = q * N + TurnOf(seat)
        /\ \A x \in Players : Share(own, x) = q + (IF TurnOf(x) < TurnOf(seat) THEN 1 ELSE 0)
  BY DEF RoundAt, n
<1>4. N \in Nat /\ N >= 3 /\ \A x \in Players : TurnOf(x) \in 0 .. N - 1
  BY Turns, TableFacts
<1>5. q * N \in Nat /\ q * N = N * q /\ n = N * q + TurnOf(seat)
  BY <1>1, <1>2, <1>3, <1>4
<1>6. ASSUME NEW p \in Players
      PROVE  Share(own, p) = (n + N - 1 - TurnOf(p)) \div N
  <2> DEFINE rest == TurnOf(seat) + N - 1 - TurnOf(p)
  <2>1. CASE TurnOf(p) < TurnOf(seat)
    <3>1. rest - N \in 0 .. N - 1 /\ N * (q + 1) = N * q + N /\ q + 1 \in Int
      BY <1>4, <2>1
    <3>2. n + N - 1 - TurnOf(p) = N * (q + 1) + (rest - N)
      BY <1>4, <1>5, <3>1
    <3> HIDE DEF rest
    <3>3. (N * (q + 1) + (rest - N)) \div N = q + 1
      BY ONLY <1>4, <3>1, Quotient
    <3> QED
      BY <1>3, <2>1, <3>2, <3>3
  <2>2. CASE ~(TurnOf(p) < TurnOf(seat))
    <3>1. rest \in 0 .. N - 1 /\ q \in Int
      BY <1>4, <2>2
    <3>2. n + N - 1 - TurnOf(p) = N * q + rest
      BY <1>4, <1>5, <3>1
    <3> HIDE DEF rest
    <3>3. (N * q + rest) \div N = q
      BY ONLY <1>4, <3>1, Quotient
    <3> QED
      BY <1>3, <2>2, <3>2, <3>3
  <2> QED
    BY <2>1, <2>2
<1> QED
  BY <1>6 DEF Shared, Share, TurnOf, n

-----------------------------------------------------------------------------
(* The owners.                                                               *)

\* Owners shared out as the mission allows are owners it allows, also when one
\* of five has passed a goal on.
LEMMA SharedIsAllowed ==
  ASSUME SetupAssumption, mission \in MissionIds,
         NEW own \in [Tasks -> Players \cup {None}], Open(own) = {}, Shared(mission, captain, own)
  PROVE  /\ own \in [Tasks -> Players]
         /\ own \in OwnersOf(mission, captain, TaskCount[mission])
         /\ N = 5 /\ FivePlayerTransfer(mission) =>
              \A t \in Tasks, q \in Players :
                [own EXCEPT ![t] = q] \in OwnersOf(mission, captain, TaskCount[mission])
<1> DEFINE n == TaskCount[mission]
           drafted == {o \in [1 .. n -> Players] : Shared(mission, captain, o)}
           passed == {[o EXCEPT ![t] = p] : o \in drafted, t \in 1 .. n, p \in Players}
<1>1. own \in [Tasks -> Players]
  BY DEF Open
<1>2. Tasks = 1 .. n
  BY DEF Tasks
<1>3. own \in drafted
  BY <1>1, <1>2
<1> HIDE DEF drafted
<1>4. OwnersOf(mission, captain, TaskCount[mission])
        = IF N = 5 /\ FivePlayerTransfer(mission) THEN drafted \cup passed ELSE drafted
  BY DEF OwnersOf, drafted
<1>5. ASSUME NEW t \in Tasks, NEW q \in Players
      PROVE  [own EXCEPT ![t] = q] \in passed
  <2>1. \E o \in drafted, u \in 1 .. n, p \in Players : [own EXCEPT ![t] = q] = [o EXCEPT ![u] = p]
    BY <1>2, <1>3
  <2> QED
    BY <2>1
<1> HIDE DEF passed
<1> QED
  BY <1>1, <1>3, <1>4, <1>5

\* A mission without goals has shared them out.
LEMMA FreshOwners ==
  SetupAssumption /\ mission \in MissionIds /\ captain \in Players => OwnersFit(NoOwners, {})
<1> SUFFICES ASSUME SetupAssumption, mission \in MissionIds, captain \in Players
             PROVE  OwnersFit(NoOwners, {})
  OBVIOUS
<1>1. NoOwners \in [Tasks -> Players \cup {None}] /\ Open(NoOwners) = Tasks
  BY DEF NoOwners, Open
<1>2. ASSUME Open(NoOwners) = {} PROVE Shared(mission, captain, NoOwners)
  <2>1. Assignment(mission) \in {"decision", "distribution", "draft"}
    BY DEF Assignment
  <2>2. CASE Assignment(mission) = "draft"
    BY <1>1, <1>2, <2>2, NobodyHasOne, RoundsShare
  <2>3. CASE Assignment(mission) = "decision"
    <3>1. SeatAfter(captain) \in Players \ {captain}
      BY Seats
    <3>2. \A t \in DOMAIN NoOwners : NoOwners[t] = SeatAfter(captain)
      BY <1>1, <1>2
    <3> QED
      BY <2>3, <3>1, <3>2 DEF Shared
  <2>4. CASE Assignment(mission) = "distribution"
    <3>1. \A p \in Players : {t \in DOMAIN NoOwners : NoOwners[t] = p} = {}
      BY <1>1, <1>2
    <3>2. Cardinality({}) = 0
      BY FS_EmptySet
    <3> HIDE DEF NoOwners
    <3>3. \A p, q \in Players : Cardinality({t \in DOMAIN NoOwners : NoOwners[t] = p})
                                  <= Cardinality({t \in DOMAIN NoOwners : NoOwners[t] = q}) + 1
      BY <3>1, <3>2
    <3> QED
      BY <2>4, <3>3 DEF Shared
  <2> QED
    BY <2>1, <2>2, <2>3, <2>4
<1> QED
  BY <1>1, <1>2, SharedIsAllowed DEF OwnersFit

\* The last goal of a distribution goes to a member with whom the shares end
\* within one of each other.
LEMMA LastIsLevel ==
  ASSUME SetupAssumption, mission \in MissionIds, Assignment(mission) = "distribution",
         NEW own \in [Tasks -> Players \cup {None}], NEW t \in Open(own),
         NEW p \in DistributionTargets(own), Open([own EXCEPT ![t] = p]) = {}
  PROVE  Shared(mission, captain, [own EXCEPT ![t] = p])
<1> DEFINE new == [own EXCEPT ![t] = p]
           n == Cardinality(DOMAIN own)
<1>0. p \in Players
  BY DEF DistributionTargets
<1>1. /\ Cardinality(Open(own)) \in Nat /\ Cardinality(Open(new)) = Cardinality(Open(own)) - 1
      /\ \A q \in Players : /\ Share(own, q) \in Nat
                            /\ Share(new, q) = Share(own, q) + (IF p = q THEN 1 ELSE 0)
  BY <1>0, OneMore
<1>2. n \in Nat
  <2>1. 1 \in Int /\ TaskCount[mission] \in Int /\ DOMAIN own = 1 .. TaskCount[mission]
    BY GoalCount
  <2>2. IsFiniteSet(DOMAIN own)
    BY ONLY <2>1, FS_Interval
  <2> QED
    BY ONLY <2>2, FS_CardinalityType
<1>3. Cardinality(Open(own)) = 1
  <2>1. Cardinality(Open(new)) = 0
    BY FS_EmptySet
  <2> QED
    BY <1>1, <2>1
<1>4. \A q \in Players : Share(new, q) = ShareWith(own, p, q)
  BY <1>1 DEF ShareWith, Share
<1> HIDE DEF new, n
<1>5. /\ \A q \in Players : Share(new, q) <= MostShare(own)
      /\ Cardinality(Lacking(own, p)) <= 0
  BY <1>3, <1>4 DEF DistributionTargets
<1>6. LeastShare(own) \in Nat /\ MostShare(own) <= LeastShare(own) + 1 /\ MostShare(own) \in Int
  <2>1. N \in Nat /\ N > 0
    BY TableFacts
  <2>2. n \div N \in Nat /\ (n + N - 1) \div N <= n \div N + 1 /\ (n + N - 1) \div N \in Int
    BY ONLY <1>2, <2>1
  <2> QED
    BY <2>2 DEF LeastShare, MostShare, n
<1>7. Lacking(own, p) = {}
  <2>1. IsFiniteSet(Players \X (1 .. LeastShare(own)))
    <3>1. 1 \in Int /\ LeastShare(own) \in Int /\ IsFiniteSet(Players)
      BY <1>6, TableFacts
    <3>2. IsFiniteSet(1 .. LeastShare(own))
      BY ONLY <3>1, FS_Interval
    <3> QED
      BY ONLY <3>1, <3>2, FS_Product
  <2>2. Lacking(own, p) \subseteq Players \X (1 .. LeastShare(own))
    BY DEF Lacking
  <2>3. IsFiniteSet(Lacking(own, p))
    BY ONLY <2>1, <2>2, FS_Subset
  <2>4. Cardinality(Lacking(own, p)) \in Nat
    BY ONLY <2>3, FS_CardinalityType
  <2>5. Cardinality(Lacking(own, p)) = 0
    BY ONLY <1>5, <2>4
  <2> QED
    BY ONLY <2>3, <2>5, FS_EmptySet
<1>8. ASSUME NEW q \in Players
      PROVE  LeastShare(own) <= Share(new, q) /\ Share(new, q) \in Nat
  <2>1. Share(new, q) \in Nat
    BY <1>1
  <2>2. ASSUME LeastShare(own) > Share(new, q) PROVE FALSE
    <3>1. LeastShare(own) \in 1 .. LeastShare(own)
      BY <1>6, <2>1, <2>2
    <3>2. <<q, LeastShare(own)>> \in Lacking(own, p)
      BY <1>4, <2>2, <3>1 DEF Lacking
    <3> QED
      BY <1>7, <3>2
  <2> QED
    BY <1>6, <2>1, <2>2
<1>9. \A a, b \in Players : Share(new, a) <= Share(new, b) + 1
  BY <1>5, <1>6, <1>8
<1> QED
  BY <1>9 DEF Shared, Share, new

\* A stage opens with the owners own, once fin is done.
LEMMA AdvanceOwners ==
  ASSUME SetupAssumption, mission \in MissionIds, captain \in Players, UNCHANGED <<mission, dealt>>,
         NEW fin, NEW own \in [Tasks -> Players \cup {None}], NEW dis, NEW held, NEW r,
         AdvanceSetup(fin, own, dis, held, r), OwnersFit(own, fin), Untouched(own)
  PROVE  OwnersInv'
<1> DEFINE s == NextStage(fin, own, dis)
<1>1. /\ s \in {"role", "token_edit"} \cup Sharing \cup Settled
      /\ s \in Sharing => "assignment" \notin fin /\ Open(own) # {}
      /\ s = "captain_decision" => Assignment(mission) = "decision"
      /\ s = "captain_distribution" => Assignment(mission) = "distribution"
      /\ s = "task_selection" => Assignment(mission) = "draft"
      /\ s = "task_transfer" => N = 5 /\ FivePlayerTransfer(mission) /\ "transfer" \notin fin
      /\ s \in Settled => "assignment" \in fin \/ Open(own) = {}
  BY NextStageIs
<1> HIDE DEF s
<1>2. /\ stage' = s /\ turn' = captain /\ eligible' = EligibleAt(s, own)
      /\ active' = IF s = "captain_distribution"
                   THEN CHOOSE t \in Open(own) : \A u \in Open(own) : t <= u ELSE None
      /\ owner' = own
      /\ done' = IF s \in Settled THEN fin \cup {"assignment"} ELSE fin
  BY DEF AdvanceSetup, Prepare, Settled, s
<1>3. captain' = captain /\ Tasks' = Tasks /\ mission' = mission
  BY DEF captain, Tasks
<1>4. OwnersFit(own, done')
  BY <1>1, <1>2 DEF OwnersFit
<1>5. OwnersFit(owner, done)'
  BY <1>2, <1>3, <1>4 DEF OwnersFit
<1>6. Untouched(owner)'
  BY <1>2, <1>3 DEF Untouched, NoOwners
<1>7. s = "task_selection" => RoundAt(owner, turn)'
  <2>1. ASSUME s = "task_selection" PROVE own = NoOwners
    BY <1>1, <2>1 DEF Untouched, Sharing
  <2>2. ASSUME s = "task_selection" PROVE RoundAt(own, captain)
    BY <2>1, <2>2, NobodyHasOne
  <2> QED
    BY <1>2, <1>3, <2>2 DEF RoundAt, TurnOf
<1>8. s = "captain_distribution" => active' \in Open(own)
  <2>1. Open(own) \subseteq Nat
    BY GoalCount DEF Open
  <2> QED
    BY <1>1, <1>2, <2>1, FirstGoal DEF Sharing
<1>9. /\ s = "captain_decision" => eligible' = Players \ {captain}
      /\ s = "captain_distribution" => eligible' = DistributionTargets(own)
  BY <1>2 DEF EligibleAt
<1>10. s \in CaptainAsks \cup {"task_selection"} => s \in Sharing /\ s \notin Settled
  BY DEF CaptainAsks, Sharing, Settled
<1>11. s \in {"task_transfer", "distress_vote", "distress_cards", "playing", "opened"} => s \in Settled
  BY <1>1 DEF Sharing, Settled
<1>12. s = "task_transfer" => "transfer" \notin done'
  BY <1>1, <1>2
<1> QED
  BY <1>1, <1>2, <1>3, <1>5, <1>6, <1>7, <1>8, <1>9, <1>10, <1>11, <1>12 DEF OwnersInv

\* The first briefing has all goals open.
LEMMA InitOwners == SetupAssumption /\ Init => OwnersInv
<1> SUFFICES ASSUME SetupAssumption, Init PROVE OwnersInv
  OBVIOUS
<1>1. captain \in Players /\ mission \in MissionIds
  BY CommanderHolds, DealtIsEven DEF Init, captain
<1>2. OwnersFit(owner, done)
  BY <1>1, FreshOwners DEF Init, NoOwners
<1> QED
  BY <1>2 DEF Init, OwnersInv, Untouched, NoOwners, CaptainAsks

\* Every step keeps the goals with owners the mission allows, or on their way.
LEMMA NextOwners ==
  SetupAssumption /\ TypeOK /\ HandsInv /\ OwnersInv /\ [Next]_vars => OwnersInv'
<1> SUFFICES ASSUME SetupAssumption, TypeOK, HandsInv, OwnersInv, [Next]_vars
             PROVE  OwnersInv'
  OBVIOUS
<1>1. /\ mission \in MissionIds /\ owner \in [Tasks -> Players \cup {None}] /\ done \subseteq Steps
      /\ captain \in Players /\ None \notin Players
  BY DealtIsEven, CommanderHolds DEF TypeOK, Steps, HandsInv, captain, SetupAssumption
<1>2. /\ OwnersFit(owner, done)
      /\ stage # "task_selection" => Untouched(owner)
  BY DEF OwnersInv
\* A stage opens with the owners own, once fin is done.
<1>3. ASSUME NEW fin, NEW own \in [Tasks -> Players \cup {None}], NEW dis, NEW held, NEW r,
             AdvanceSetup(fin, own, dis, held, r), UNCHANGED deal, OwnersFit(own, fin), Untouched(own)
      PROVE  OwnersInv'
  <2>1. UNCHANGED <<mission, dealt>>
    BY <1>3 DEF deal
  <2> QED
    BY ONLY <1>1, <1>3, <2>1, SetupAssumption, AdvanceOwners
\* It opens with the owners as they are.
<1>4. ASSUME NEW fin, NEW dis, NEW held, NEW r, AdvanceSetup(fin, owner, dis, held, r), UNCHANGED deal,
             "assignment" \in fin <=> "assignment" \in done, "transfer" \in fin <=> "transfer" \in done,
             stage # "task_selection"
      PROVE  OwnersInv'
  <2>1. OwnersFit(owner, fin)
    BY <1>2, <1>4 DEF OwnersFit
  <2> QED
    BY <1>1, <1>2, <1>3, <1>4, <2>1
<1>5. ASSUME UNCHANGED <<owner, done, mission, dealt, stage, turn, eligible, active>> PROVE OwnersInv'
  BY <1>5 DEF OwnersInv, OwnersFit, Untouched, NoOwners, RoundAt, TurnOf, captain, Tasks
\* After the assignment only a transfer is left.
<1>6. ASSUME UNCHANGED <<owner, done, mission, dealt>>, "assignment" \in done, stage # "task_selection",
             stage' \in {"distress_vote", "distress_cards", "opened"}
      PROVE  OwnersInv'
  BY <1>6 DEF OwnersInv, OwnersFit, Untouched, NoOwners, captain, Tasks, CaptainAsks
<1>7. ASSUME Begin PROVE OwnersInv'
  <2>1. PICK d \in Deals : dealt' = d
    BY <1>7 DEF Begin
  <2>2. (captain \in Players)'
    BY <2>1, CommanderHolds DEF captain, SetupAssumption
  <2>3. OwnersFit(NoOwners, {})'
    <3>1. (mission \in MissionIds)'
      BY <1>1, <1>7 DEF Begin
    <3> QED
      BY <2>2, <3>1, FreshOwners, PTL
  <2>4. owner' = NoOwners' /\ done' = {} /\ stage' = "briefing"
    BY <1>7 DEF Begin, NoOwners, Tasks
  <2>5. OwnersFit(owner, done)' /\ Untouched(owner)'
    BY <2>3, <2>4 DEF OwnersFit, Untouched
  <2> QED
    BY <2>4, <2>5 DEF OwnersInv, CaptainAsks
<1>8. ASSUME NEW p \in Players, BriefingReady(p) PROVE OwnersInv'
  <2>1. UNCHANGED deal /\ stage = "briefing"
    BY <1>8 DEF BriefingReady
  <2>2. \/ AdvanceSetup(done, owner, distress, hands, roles)
        \/ UNCHANGED <<owner, done, stage, turn, eligible, active>>
    BY <1>8 DEF BriefingReady, prep
  <2> QED
    BY <1>4, <1>5, <2>1, <2>2 DEF deal
<1>9. ASSUME NEW p \in Players, NEW no \in BOOLEAN, Respond(p, no) PROVE OwnersInv'
  <2>1. UNCHANGED deal /\ stage # "task_selection"
    BY <1>9 DEF Respond, CaptainAsks
  <2>2. \/ UNCHANGED <<owner, done, stage, turn, eligible, active>>
        \/ stage = "distress_vote" /\ stage' = "distress_cards" /\ UNCHANGED <<owner, done>>
        \/ AdvanceSetup(done, owner, [distress EXCEPT !.resolved = TRUE], hands, roles)
    BY <1>9 DEF Respond, Prepare
  <2>3. stage = "distress_vote" => "assignment" \in done
    BY DEF OwnersInv
  <2> QED
    BY <1>4, <1>5, <1>6, <2>1, <2>2, <2>3 DEF deal
<1>10. ASSUME NEW p \in Players, NEW c \in Exchangeable(p), SelectDistressCard(p, c) PROVE OwnersInv'
  <2> DEFINE dis == [distress EXCEPT !.resolved = TRUE, !.everUsed = TRUE, !.used = TRUE]
             out == [picks EXCEPT ![p] = c]
  <2>1. UNCHANGED deal /\ stage = "distress_cards"
    BY <1>10 DEF SelectDistressCard
  <2>2. \/ UNCHANGED <<owner, done, stage, turn, eligible, active>>
        \/ AdvanceSetup(done, owner, dis, Exchanged(hands, out), roles)
    BY <1>10 DEF SelectDistressCard
  <2> HIDE DEF dis, out
  <2> QED
    BY <1>4, <1>5, <2>1, <2>2 DEF deal
<1>11. ASSUME NEW p \in Players, NEW one \in Players, NEW two \in Players \cup {None}, SelectCrew(p, one, two)
       PROVE  OwnersInv'
  <2> DEFINE r == [roles EXCEPT !.secondary = IF mission = 50 THEN two ELSE @]
             all == [t \in Tasks |-> one]
  <2>1. UNCHANGED deal /\ stage \in {"role", "captain_decision"} /\ one \in eligible
    BY <1>11 DEF SelectCrew
  <2>2. \/ /\ stage = "captain_decision"
           /\ AdvanceSetup(done \cup {"assignment"}, all, distress, hands, r)
        \/ /\ stage = "role"
           /\ \/ AdvanceSetup(done \cup {"role"}, owner, distress, hands, [r EXCEPT !.silent = one])
              \/ AdvanceSetup(done \cup {"role"}, owner, distress, hands, [r EXCEPT !.selected = one])
    BY <1>11 DEF SelectCrew
  <2> HIDE DEF r
  <2>3. CASE stage = "role"
    BY <1>4, <2>1, <2>2, <2>3
  <2>4. CASE stage = "captain_decision"
    <3>1. Assignment(mission) = "decision" /\ one \in Players \ {captain}
      BY <2>1, <2>4 DEF OwnersInv
    <3>2. all \in [Tasks -> Players \cup {None}] /\ Open(all) = {} /\ \A t \in DOMAIN all : all[t] = one
      BY <1>1 DEF Open
    <3> HIDE DEF all
    <3>3. Shared(mission, captain, all)
      BY <3>1, <3>2 DEF Shared
    <3>4. all \in OwnersOf(mission, captain, TaskCount[mission])
      BY <1>1, <3>2, <3>3, SharedIsAllowed
    <3>5. "transfer" \in done => N = 5 /\ FivePlayerTransfer(mission)
      BY <1>2 DEF OwnersFit
    <3>6. OwnersFit(all, done \cup {"assignment"}) /\ Untouched(all)
      BY <3>2, <3>3, <3>4, <3>5 DEF OwnersFit, Untouched
    <3> QED
      BY <1>3, <2>1, <2>2, <2>4, <3>2, <3>6
  <2> QED
    BY <2>1, <2>3, <2>4
<1>12. ASSUME NEW p \in Players, NEW one \in Players, AssignTask(p, one) PROVE OwnersInv'
  <2> DEFINE own == [owner EXCEPT ![active] = one]
  <2>1. UNCHANGED deal /\ AdvanceSetup(done, own, distress, hands, roles)
    BY <1>12 DEF AssignTask
  <2>2. /\ Assignment(mission) = "distribution" /\ "assignment" \notin done
        /\ active \in Open(owner) /\ one \in DistributionTargets(owner)
    BY <1>12 DEF AssignTask, OwnersInv, CaptainAsks
  <2>3. own \in [Tasks -> Players \cup {None}]
    BY <1>1
  <2>4. Open(own) = {} => Shared(mission, captain, own)
    BY <1>1, <2>2, LastIsLevel
  <2> HIDE DEF own
  <2>5. Open(own) = {} => own \in OwnersOf(mission, captain, TaskCount[mission])
    BY <1>1, <2>3, <2>4, SharedIsAllowed
  <2>6. OwnersFit(own, done) /\ Untouched(own)
    BY <1>2, <2>2, <2>4, <2>5 DEF OwnersFit, Untouched
  <2> QED
    BY <1>3, <2>1, <2>3, <2>6
<1>13. ASSUME NEW p \in Players, ConfirmTokens(p) PROVE OwnersInv'
  BY <1>4, <1>13 DEF ConfirmTokens
<1>14. stage = "task_transfer" =>
         /\ N = 5 /\ FivePlayerTransfer(mission) /\ Open(owner) = {}
         /\ Shared(mission, captain, owner) /\ owner \in OwnersOf(mission, captain, TaskCount[mission])
  BY <1>2 DEF OwnersInv, OwnersFit
<1>15. ASSUME NEW p \in Players, NEW t \in Tasks, NEW q \in Players, TransferTask(p, t, q) PROVE OwnersInv'
  <2> DEFINE own == [owner EXCEPT ![t] = q]
  <2>1. /\ UNCHANGED deal /\ stage = "task_transfer"
        /\ AdvanceSetup(done \cup {"transfer"}, own, distress, hands, roles)
    BY <1>15 DEF TransferTask
  <2>2. own \in [Tasks -> Players \cup {None}] /\ Open(own) = {}
    BY <1>1, <1>14, <2>1 DEF Open
  <2>3. own \in OwnersOf(mission, captain, TaskCount[mission])
    BY <1>1, <1>14, <2>1, SharedIsAllowed
  <2> HIDE DEF own
  <2>4. OwnersFit(own, done \cup {"transfer"}) /\ Untouched(own)
    BY <1>14, <2>1, <2>2, <2>3 DEF OwnersFit, Untouched
  <2> QED
    BY <1>3, <2>1, <2>2, <2>4
<1>16. ASSUME NEW p \in Players, SkipTransfer(p) PROVE OwnersInv'
  <2>1. /\ UNCHANGED deal /\ stage = "task_transfer"
        /\ AdvanceSetup(done \cup {"transfer"}, owner, distress, hands, roles)
    BY <1>16 DEF SkipTransfer
  <2>2. OwnersFit(owner, done \cup {"transfer"}) /\ Untouched(owner)
    BY <1>14, <2>1 DEF OwnersFit, Untouched
  <2> QED
    BY <1>1, <1>3, <2>1, <2>2
<1>17. ASSUME NEW p \in Players, NEW t \in Tasks, ChooseTask(p, t) PROVE OwnersInv'
  <2> DEFINE left == Open(owner) \ {t}
             own  == [u \in DOMAIN owner |-> IF u = t THEN p
                        ELSE IF left = {u} THEN LastGoalTo(p) ELSE owner[u]]
             one  == [owner EXCEPT ![t] = p]
  <2>1. UNCHANGED deal /\ stage = "task_selection" /\ turn = p /\ t \in Open(owner)
    BY <1>17 DEF ChooseTask
  <2>2. IF Open(own) = {} THEN AdvanceSetup(done \cup {"assignment"}, own, distress, hands, roles)
        ELSE owner' = own /\ turn' = SeatAfter(p) /\ UNCHANGED <<stage, prep, done, distress, hands, roles>>
    BY <1>17 DEF ChooseTask
  <2>3. Assignment(mission) = "draft" /\ RoundAt(owner, p) /\ "assignment" \notin done
    BY <2>1 DEF OwnersInv
  <2>4. /\ one \in [Tasks -> Players \cup {None}] /\ Open(one) = left /\ SeatAfter(p) \in Players
        /\ RoundAt(one, SeatAfter(p))
    BY <1>1, <2>1, <2>3, OneMore, RoundGoesOn, Seats
\* Either the turn goes on, or the last goal goes to the next seat.
  <2>5. /\ own \in [Tasks -> Players \cup {None}]
        /\ \E seat \in Players : RoundAt(own, seat)
        /\ Open(own) # {} => own = one
    <3>1. CASE \E u \in left : left = {u}
      <4>1. PICK u \in left : left = {u}
        BY <3>1
      <4> DEFINE two == [one EXCEPT ![u] = SeatAfter(p)]
      <4>2. u \in Tasks /\ u # t
        BY <1>1, <4>1 DEF Open
      <4>3. own = two
        BY <1>1, <2>4, <4>1, <4>2 DEF LastGoalTo
      <4>4. two \in [Tasks -> Players \cup {None}] /\ Open(two) = Open(one) \ {u}
        BY <1>1, <2>4, <4>1, OneMore
      <4>5. RoundAt(two, SeatAfter(SeatAfter(p))) /\ SeatAfter(SeatAfter(p)) \in Players
        BY <1>1, <2>4, <4>1, RoundGoesOn, Seats
      <4> HIDE DEF own, one, two, left
      <4> QED
        BY <2>4, <4>1, <4>3, <4>4, <4>5
    <3>2. CASE ~\E u \in left : left = {u}
      <4>1. \A u \in Tasks : left # {u}
        BY <3>2
      <4>2. own = one
        BY <1>1, <4>1
      <4> HIDE DEF own, one, left
      <4> QED
        BY <2>4, <4>2
    <3> QED
      BY <3>1, <3>2
  <2> HIDE DEF own, one, left
  <2>6. CASE Open(own) = {}
    <3>1. Shared(mission, captain, own)
      BY <1>1, <2>3, <2>5, <2>6, RoundsShare
    <3>2. own \in OwnersOf(mission, captain, TaskCount[mission])
      BY <1>1, <2>5, <2>6, <3>1, SharedIsAllowed
    <3>3. OwnersFit(own, done \cup {"assignment"}) /\ Untouched(own)
      BY <1>2, <2>6, <3>1, <3>2 DEF OwnersFit, Untouched
    <3> QED
      BY <1>3, <2>1, <2>2, <2>5, <2>6, <3>3
  <2>7. CASE Open(own) # {}
    <3>1. owner' = own /\ turn' = SeatAfter(p) /\ UNCHANGED <<stage, prep, done>>
      BY <2>2, <2>7
    <3>2. RoundAt(own, SeatAfter(p)) /\ OwnersFit(own, done)
      BY <1>2, <2>3, <2>4, <2>5, <2>7 DEF OwnersFit
    <3>3. UNCHANGED <<mission, captain, Tasks>>
      BY <2>1 DEF deal, captain, Tasks
    <3>4. RoundAt(owner, turn)' /\ OwnersFit(owner, done)'
      BY <3>1, <3>2, <3>3 DEF RoundAt, TurnOf, OwnersFit
    <3> QED
      BY <2>1, <2>3, <2>7, <3>1, <3>3, <3>4 DEF OwnersInv, CaptainAsks
  <2> QED
    BY <2>6, <2>7
<1>18. ASSUME NEW p \in Players, \/ \E i, j \in Tasks : EditTaskTokens(p, i, j)
                                 \/ ResetTokens(p)
       PROVE  OwnersInv'
  BY <1>5, <1>18 DEF EditTaskTokens, ResetTokens, prep, deal
<1>19. ASSUME NEW way \in {"left", "right"}, RequestDistress(way) PROVE OwnersInv'
  <2>1. UNCHANGED <<owner, done, deal>> /\ \/ UNCHANGED <<stage, turn, prep>>
                                           \/ stage = "playing" /\ stage' = "distress_vote"
    BY <1>19 DEF RequestDistress, Prepare
  <2>2. stage = "playing" => "assignment" \in done
    BY DEF OwnersInv
  <2> QED
    BY <1>5, <1>6, <2>1, <2>2 DEF prep, deal
<1>20. ASSUME FirstMove \/ UNCHANGED vars PROVE OwnersInv'
  <2>1. stage = "playing" => "assignment" \in done
    BY DEF OwnersInv
  <2> QED
    BY <1>5, <1>6, <1>20, <2>1 DEF FirstMove, vars, prep, deal
<1> QED
  BY <1>7, <1>8, <1>9, <1>10, <1>11, <1>12, <1>13, <1>15, <1>16, <1>17, <1>18, <1>19, <1>20
  DEF Next, Step, Move

-----------------------------------------------------------------------------
(* The preparation is sound.                                                 *)

\* The first briefing satisfies the inductive invariant.
LEMMA InitSetup == SetupAssumption /\ Init => SetupInv
BY InitType, InitSignal, InitHands, InitTokens, InitRoles, InitOwners DEF SetupInv

\* Every step keeps it.
LEMMA NextSetup == SetupAssumption /\ SetupInv /\ [Next]_vars => SetupInv'
BY NextType, NextSignal, NextHands, NextTokens, NextRoles, NextOwners DEF SetupInv

\* What play starts with follows from what the stages have kept.
LEMMA SetupIsSound == SetupAssumption /\ SetupInv => SetupSound
<1> SUFFICES ASSUME SetupAssumption, SetupInv PROVE SetupSound
  OBVIOUS
<1>1. ASSUME stage = "playing" PROVE PlayStartsRight
  <2>1. DealtEvenly(hands) /\ turn = Commander(hands)
    BY <1>1 DEF SetupInv, HandsInv, OwnersInv
  <2>2. /\ owner \in OwnersOf(mission, captain, TaskCount[mission])
        /\ token \in TokensOf(mission, TaskCount[mission])
    BY <1>1 DEF SetupInv, OwnersInv, OwnersFit, TokensInv
  <2>3. mission \in RoleMissions => "role" \in done
    BY <1>1 DEF SetupInv, RolesInv
  <2>4. roles.selected \in Selected(mission, hands)
    <3>1. CASE mission = 46
      BY <1>1, <3>1 DEF SetupInv, RolesInv
    <3>2. CASE mission # 46
      <4>1. roles.selected \in IF mission \in {5, 33, 41, 50} THEN Players ELSE {None}
        BY <2>3, <3>2 DEF SetupInv, RolesInv, RolesFit, RoleMissions
      <4> QED
        BY <3>2, <4>1 DEF Selected
    <3> QED
      BY <3>1, <3>2
  <2>5. roles.secondary \in Secondary(mission, roles.selected) /\ roles.silent \in Silent(mission, captain)
    BY <2>3 DEF SetupInv, RolesInv, RolesFit, RoleMissions, Secondary, Silent
  <2> QED
    BY <2>1, <2>2, <2>4, <2>5 DEF PlayStartsRight
<1>2. PicksAreHeld
  BY DEF SetupInv, HandsInv, PicksAreHeld, Exchangeable
<1> QED
  BY <1>1, <1>2 DEF SetupInv, SetupSound, SignalInv, HandsInv, PlayStartsRight

\* Every route through the stages (advanceSetup, engine.ts) ends in what the
\* tricks take for granted: even hands and the commander to lead, goals owned in
\* shares the mission allows, tokens as dealt but for one legal edit, roles with
\* members that may have them.  Cards picked for the distress exchange stay in
\* hand until all move one seat the way agreed; play waits for the question of
\* the signal, and the signal costs one attempt, once.
THEOREM PreparationIsSound == ASSUME SetupAssumption PROVE Spec => []SetupSound
<1>1. Init => SetupInv
  BY InitSetup
<1>2. SetupInv /\ [Next]_vars => SetupInv'
  BY NextSetup
<1>3. SetupInv => SetupSound
  BY SetupIsSound
<1> QED
  BY <1>1, <1>2, <1>3, PTL DEF Spec

\* No step takes back what a stage of the attempt has settled.
LEMMA StepSettles == SetupAssumption /\ SetupInv /\ [Next]_vars => [SettledStays]_vars
<1> SUFFICES ASSUME SetupAssumption, SetupInv, Next PROVE SettledStays
  BY DEF vars
<1>1. /\ mission \in MissionIds /\ roles \in RolesType /\ distress \in DistressType /\ attempts \in Nat
      /\ owner \in [Tasks -> Players \cup {None}] /\ None \notin Players
      /\ mission = 46 =>
           roles.selected \in IF stage \in {"playing", "opened"} THEN Selected(46, hands) ELSE {None}
  BY DEF SetupInv, TypeOK, RolesType, DistressType, RolesInv, SetupAssumption
<1> DEFINE Given(r)  == \A f \in {"selected", "secondary", "silent"} : roles[f] # None => r[f] = roles[f]
           Taken(o)  == \A t \in DOMAIN owner : owner[t] # None =>
                          o[t] = owner[t] \/ (stage = "task_transfer" /\ o[t] # None)
           Voted(d)  == distress.resolved => d.resolved /\ d.direction = distress.direction
<1>2. ASSUME Given(roles'), Taken(owner'), Voted(distress'), done \subseteq done'
      PROVE  SettledStays
  BY <1>2 DEF SettledStays
<1> HIDE DEF Given, Taken, Voted
<1>3. Given(roles) /\ Taken(owner) /\ Voted(distress)
  BY DEF Given, Taken, Voted
\* A stage opens with what was given and taken.
<1>4. ASSUME NEW fin, NEW own, NEW dis \in DistressType, NEW held, NEW r \in RolesType,
             AdvanceSetup(fin, own, dis, held, r), done \subseteq fin, Given(r), Taken(own), Voted(dis),
             mission = 46 => r.selected = None
      PROVE  SettledStays
  <2>1. owner' = own /\ done \subseteq done'
    BY <1>4 DEF AdvanceSetup
  <2>2. Voted(distress')
    <3>1. /\ distress'.resolved = dis.resolved
          /\ dis.resolved \/ dis.direction # None => distress'.direction = dis.direction
      BY ONLY <1>4, AdvanceSignal
    <3> QED
      BY <1>4, <3>1 DEF Voted
  <2>3. Given(roles')
    <3>1. /\ roles'.secondary = r.secondary /\ roles'.silent = r.silent
          /\ mission # 46 => roles'.selected = r.selected
      BY <1>4 DEF AdvanceSetup, RolesType
    <3>2. roles.selected # None => roles'.selected = roles.selected
      BY <1>4, <3>1 DEF Given
    <3> QED
      BY <1>4, <3>1, <3>2 DEF Given
  <2> QED
    BY <1>2, <1>4, <2>1, <2>2, <2>3
<1>5. ASSUME NEW fin, NEW own, NEW held, AdvanceSetup(fin, own, distress, held, roles),
             done \subseteq fin, Taken(own), stage \notin {"playing", "opened"}
      PROVE  SettledStays
  BY <1>1, <1>3, <1>4, <1>5
<1>6. ASSUME UNCHANGED <<roles, owner, distress>>, done \subseteq done' PROVE SettledStays
  BY <1>2, <1>3, <1>6
<1>7. ASSUME Begin PROVE SettledStays
  BY <1>1, <1>7 DEF Begin, SettledStays
<1>8. ASSUME NEW p \in Players, BriefingReady(p) PROVE SettledStays
  BY <1>3, <1>5, <1>6, <1>8 DEF BriefingReady
<1>9. ASSUME NEW p \in Players, NEW no \in BOOLEAN, Respond(p, no) PROVE SettledStays
  <2> DEFINE dis == [distress EXCEPT !.resolved = TRUE]
  <2>1. \/ UNCHANGED <<roles, owner, distress, done>>
        \/ stage = "distress_vote" /\ AdvanceSetup(done, owner, dis, hands, roles)
    BY <1>9 DEF Respond
  <2>2. dis \in DistressType /\ dis.resolved /\ dis.direction = distress.direction
    BY <1>1 DEF DistressType
  <2> HIDE DEF dis
  <2>3. Voted(dis)
    BY <2>2 DEF Voted
  <2> QED
    BY <1>1, <1>3, <1>4, <1>6, <2>1, <2>2, <2>3
<1>10. ASSUME NEW p \in Players, NEW c \in Exchangeable(p), SelectDistressCard(p, c) PROVE SettledStays
  <2> DEFINE dis == [distress EXCEPT !.resolved = TRUE, !.everUsed = TRUE, !.used = TRUE]
             out == [picks EXCEPT ![p] = c]
  <2>1. /\ stage = "distress_cards"
        /\ \/ UNCHANGED <<roles, owner, distress, done>>
           \/ AdvanceSetup(done, owner, dis, Exchanged(hands, out), roles)
    BY <1>10 DEF SelectDistressCard
  <2>2. dis \in DistressType /\ dis.resolved /\ dis.direction = distress.direction
    BY <1>1 DEF DistressType
  <2> HIDE DEF dis, out
  <2>3. Voted(dis)
    BY <2>2 DEF Voted
  <2> QED
    BY <1>1, <1>3, <1>4, <1>6, <2>1, <2>2, <2>3
<1>11. ASSUME NEW p \in Players, NEW one \in Players, NEW two \in Players \cup {None}, SelectCrew(p, one, two)
       PROVE  SettledStays
  <2> DEFINE r == [roles EXCEPT !.secondary = IF mission = 50 THEN two ELSE @]
             all == [t \in Tasks |-> one]
  <2>1. \/ /\ stage = "captain_decision"
           /\ AdvanceSetup(done \cup {"assignment"}, all, distress, hands, r)
        \/ /\ stage = "role" /\ mission = 11
           /\ AdvanceSetup(done \cup {"role"}, owner, distress, hands, [r EXCEPT !.silent = one])
        \/ /\ stage = "role" /\ mission # 11
           /\ AdvanceSetup(done \cup {"role"}, owner, distress, hands, [r EXCEPT !.selected = one])
    BY <1>11 DEF SelectCrew
  <2>2. r \in RolesType /\ r.selected = roles.selected /\ r.silent = roles.silent
        /\ r.secondary = IF mission = 50 THEN two ELSE roles.secondary
    BY <1>1 DEF RolesType
  <2> HIDE DEF r
  <2>3. CASE stage = "captain_decision"
    <3>1. Assignment(mission) = "decision" /\ Open(owner) # {} /\ Untouched(owner)
      BY <2>3 DEF SetupInv, OwnersInv, CaptainAsks
    <3>2. owner = NoOwners /\ mission # 50
      BY <3>1 DEF Untouched, Assignment
    <3>3. Taken(all)
      BY <3>2 DEF Taken, NoOwners
    <3>4. r = roles
      BY <1>1, <2>2, <3>2 DEF RolesType
    <3> QED
      BY <1>5, <2>1, <2>3, <3>3, <3>4
  <2>4. CASE stage = "role"
    <3>1. /\ mission \in RoleMissions
          /\ roles.selected = None
          /\ mission = 11 => roles.silent = None
          /\ mission = 50 => roles.secondary = None
      BY <2>4 DEF SetupInv, RolesInv, RolesFit, RoleMissions
    <3>2. CASE mission = 11
      <4> DEFINE new == [r EXCEPT !.silent = one]
      <4>1. new \in RolesType /\ new.selected = roles.selected /\ new.secondary = roles.secondary
        BY <2>2, <3>2 DEF RolesType
      <4>2. AdvanceSetup(done \cup {"role"}, owner, distress, hands, new)
        BY <2>1, <2>4, <3>2
      <4> HIDE DEF new
      <4>3. Given(new)
        BY <3>1, <3>2, <4>1 DEF Given
      <4> QED
        BY <1>1, <1>3, <1>4, <3>2, <4>1, <4>2, <4>3
    <3>3. CASE mission # 11
      <4> DEFINE new == [r EXCEPT !.selected = one]
      <4>1. /\ new \in RolesType /\ new.silent = roles.silent
            /\ new.secondary = IF mission = 50 THEN two ELSE roles.secondary
        BY <2>2 DEF RolesType
      <4>2. AdvanceSetup(done \cup {"role"}, owner, distress, hands, new)
        BY <2>1, <2>4, <3>3
      <4> HIDE DEF new
      <4>3. Given(new) /\ mission # 46
        BY <3>1, <4>1 DEF Given, RoleMissions
      <4> QED
        BY <1>1, <1>3, <1>4, <4>1, <4>2, <4>3
    <3> QED
      BY <3>2, <3>3
  <2> QED
    BY <2>1, <2>3, <2>4
<1>12. ASSUME NEW p \in Players, NEW one \in Players, AssignTask(p, one) PROVE SettledStays
  <2>1. /\ stage = "captain_distribution"
        /\ AdvanceSetup(done, [owner EXCEPT ![active] = one], distress, hands, roles)
    BY <1>12 DEF AssignTask
  <2>2. active \in Open(owner)
    BY <2>1 DEF SetupInv, OwnersInv
  <2>3. Taken([owner EXCEPT ![active] = one])
    BY <2>2 DEF Taken, Open
  <2> QED
    BY <1>5, <2>1, <2>3
<1>13. ASSUME NEW p \in Players, ConfirmTokens(p) PROVE SettledStays
  <2>1. stage = "token_edit" /\ AdvanceSetup(done \cup {"tokens"}, owner, distress, hands, roles)
    BY <1>13 DEF ConfirmTokens
  <2> QED
    BY <1>3, <1>5, <2>1
<1>14. ASSUME NEW p \in Players, NEW t \in Tasks, NEW q \in Players, TransferTask(p, t, q) PROVE SettledStays
  <2>1. /\ stage = "task_transfer"
        /\ AdvanceSetup(done \cup {"transfer"}, [owner EXCEPT ![t] = q], distress, hands, roles)
    BY <1>14 DEF TransferTask
  <2>2. Taken([owner EXCEPT ![t] = q])
    BY <1>1, <2>1 DEF Taken
  <2> QED
    BY <1>5, <2>1, <2>2
<1>15. ASSUME NEW p \in Players, SkipTransfer(p) PROVE SettledStays
  <2>1. stage = "task_transfer" /\ AdvanceSetup(done \cup {"transfer"}, owner, distress, hands, roles)
    BY <1>15 DEF SkipTransfer
  <2> QED
    BY <1>3, <1>5, <2>1
<1>16. ASSUME NEW p \in Players, NEW t \in Tasks, ChooseTask(p, t) PROVE SettledStays
  <2> DEFINE left == Open(owner) \ {t}
             own  == [u \in DOMAIN owner |-> IF u = t THEN p
                        ELSE IF left = {u} THEN LastGoalTo(p) ELSE owner[u]]
  <2>1. /\ stage = "task_selection" /\ t \in Open(owner)
        /\ \/ AdvanceSetup(done \cup {"assignment"}, own, distress, hands, roles)
           \/ owner' = own /\ UNCHANGED <<done, distress, roles>>
    BY <1>16 DEF ChooseTask
  <2>2. Taken(own)
    <3>1. ASSUME NEW u \in DOMAIN owner, owner[u] # None PROVE own[u] = owner[u]
      BY <2>1, <3>1 DEF Open
    <3> HIDE DEF own
    <3> QED
      BY <3>1 DEF Taken
  <2> HIDE DEF own
  <2> QED
    BY <1>2, <1>3, <1>5, <2>1, <2>2
<1>17. ASSUME NEW p \in Players, \/ \E i, j \in Tasks : EditTaskTokens(p, i, j)
                                 \/ ResetTokens(p)
       PROVE  SettledStays
  BY <1>6, <1>17 DEF EditTaskTokens, ResetTokens
<1>18. ASSUME NEW way \in {"left", "right"}, RequestDistress(way) PROVE SettledStays
  <2>1. ~distress.resolved /\ UNCHANGED <<roles, owner, done>>
    BY <1>18 DEF RequestDistress, SignalOpen
  <2>2. Voted(distress')
    BY <2>1 DEF Voted
  <2> QED
    BY <1>2, <1>3, <2>1, <2>2
<1>19. ASSUME FirstMove PROVE SettledStays
  BY <1>6, <1>19 DEF FirstMove
<1> QED
  BY <1>7, <1>8, <1>9, <1>10, <1>11, <1>12, <1>13, <1>14, <1>15, <1>16, <1>17, <1>18, <1>19
  DEF Next, Step, Move

\* What a stage has settled, later stages of the attempt leave alone
\* (advanceSetup, select_crew, assign_task, choose_task, transfer_task and the
\* distress commands in engine.ts): a role, an owner but for the one goal passed
\* on, the vote on the signal and the stages done.
THEOREM SettledIsKept == ASSUME SetupAssumption PROVE Spec => SetupKept
<1>1. Init => SetupInv
  BY InitSetup
<1>2. SetupInv /\ [Next]_vars => SetupInv'
  BY NextSetup
<1>3. SetupInv /\ [Next]_vars => [SettledStays]_vars
  BY StepSettles
<1> QED
  BY <1>1, <1>2, <1>3, PTL DEF Spec, SetupKept
=============================================================================
