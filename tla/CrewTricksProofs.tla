-------------------------- MODULE CrewTricksProofs --------------------------
(***************************************************************************)
(* Proofs about CrewTricks, for every deck, number of players and mission. *)
(***************************************************************************)
EXTENDS CrewTricks, FunctionTheorems, FiniteSetTheorems, TLAPS

-----------------------------------------------------------------------------
(* The deck, and the places at the table.                                  *)

\* There are finitely many cards, and as many as their number says.
LEMMA DeckFinite == IsFiniteSet(Deck) /\ Cardinality(Deck) \in Nat
<1>0. /\ IsFiniteSet(Colours) /\ IsFiniteSet({Rocket})
      /\ IsFiniteSet(1 .. TopRank) /\ IsFiniteSet(1 .. TopRocket)
  <2>1. TopRank \in Int /\ TopRocket \in Int /\ IsFiniteSet(Colours)
    BY TricksAssumption
  <2>2. IsFiniteSet(1 .. TopRank) /\ IsFiniteSet(1 .. TopRocket)
    BY ONLY <2>1, FS_Interval
  <2>3. IsFiniteSet({Rocket})
    BY ONLY FS_Singleton
  <2> QED
    BY ONLY <2>1, <2>2, <2>3
<1>1. IsFiniteSet(Colours \X (1 .. TopRank)) /\ IsFiniteSet({Rocket} \X (1 .. TopRocket))
  BY ONLY <1>0, FS_Product
<1> DEFINE Made(S, k) == [x \in S \X (1 .. k) |-> [suit |-> x[1], rank |-> x[2]]]
<1>2. ASSUME NEW S, NEW k \in Nat
      PROVE  Made(S, k) \in Surjection(S \X (1 .. k), [suit : S, rank : 1 .. k])
  <2>1. Made(S, k) \in [S \X (1 .. k) -> [suit : S, rank : 1 .. k]]
    OBVIOUS
  <2>2. ASSUME NEW c \in [suit : S, rank : 1 .. k]
        PROVE  \E x \in S \X (1 .. k) : Made(S, k)[x] = c
    <3>1. /\ <<c.suit, c.rank>> \in S \X (1 .. k)
          /\ Made(S, k)[<<c.suit, c.rank>>] = c
      OBVIOUS
    <3> QED
      BY <3>1
  <2> HIDE DEF Made
  <2> QED
    BY <2>1, <2>2 DEF Surjection
<1> HIDE DEF Made
<1>3. IsFiniteSet([suit : Colours, rank : 1 .. TopRank])
  <2>1. Made(Colours, TopRank) \in Surjection(Colours \X (1 .. TopRank), [suit : Colours, rank : 1 .. TopRank])
    BY <1>2, TricksAssumption
  <2> QED
    BY ONLY <1>1, <2>1, FS_Surjection
<1>4. IsFiniteSet([suit : {Rocket}, rank : 1 .. TopRocket])
  <2>1. Made({Rocket}, TopRocket) \in Surjection({Rocket} \X (1 .. TopRocket), [suit : {Rocket}, rank : 1 .. TopRocket])
    BY <1>2, TricksAssumption
  <2> QED
    BY ONLY <1>1, <2>1, FS_Surjection
<1>5. IsFiniteSet(Deck)
  BY <1>3, <1>4, FS_Union DEF Deck
<1> QED
  BY <1>5, FS_CardinalityType

\* What is left over when the deck is shared out.
Leftover == Cardinality(Deck) % N

\* It is less than one card each, and everybody is dealt at least one.
LEMMA TableFacts ==
  /\ N \in Nat /\ N >= 3
  /\ LastTrick \in Nat /\ LastTrick >= 1
  /\ Leftover \in 0 .. N - 1
<1>1. N \in Nat /\ N >= 3
  BY TricksAssumption
<1>3. LastTrick >= (IF 12 \in MissionIds THEN 3 ELSE 1)
  BY Zenon, TricksAssumption
<1>2. ASSUME NEW a \in Nat, NEW b \in Nat, b >= 3
      PROVE  a \div b \in Nat /\ a % b \in 0 .. b - 1
  BY <1>2
<1>4. LastTrick \in Nat /\ Leftover \in 0 .. N - 1
  <2> DEFINE Size == Cardinality(Deck)
  <2>1. Size \in Nat
    BY DeckFinite
  <2> HIDE DEF Size
  <2>2. Size \div N \in Nat /\ Size % N \in 0 .. N - 1
    BY ONLY <1>1, <1>2, <2>1
  <2> QED
    BY ONLY <2>2 DEF Size, LastTrick, Leftover
<1>5. LastTrick >= 1
  <2>1. CASE 12 \in MissionIds
    BY ONLY <1>3, <1>4, <2>1
  <2>2. CASE 12 \notin MissionIds
    BY ONLY <1>3, <2>2
  <2> QED
    BY <2>1, <2>2
<1> QED
  BY ONLY <1>1, <1>4, <1>5

\* The next seat is a seat, nobody sits after oneself, and everybody sits
\* after exactly one member.
LEMMA SeatAfterType ==
  ASSUME NEW p \in Players
  PROVE  SeatAfter(p) \in Players /\ SeatAfter(p) # p
BY TableFacts DEF Players, SeatAfter

\* Two members have different members after them.
LEMMA SeatAfterInjective ==
  ASSUME NEW p \in Players, NEW q \in Players, SeatAfter(p) = SeatAfter(q)
  PROVE  p = q
BY TableFacts DEF Players, SeatAfter

SeatBefore(p) == IF p = 0 THEN N - 1 ELSE p - 1
\* Everybody sits after somebody.
LEMMA SeatBeforeIs ==
  ASSUME NEW p \in Players
  PROVE  SeatBefore(p) \in Players /\ SeatAfter(SeatBefore(p)) = p
BY TableFacts DEF Players, SeatAfter, SeatBefore

\* The commander is a seat, since every card was dealt.
LEMMA CommanderType ==
  ASSUME NEW m \in MissionIds, NEW d \in Deals[m]
  PROVE  Commander(d) \in Players
<1>1. [suit |-> Rocket, rank |-> TopRocket] \in Deck
  BY TricksAssumption DEF Deck
<1>2. UNION {d[p] : p \in Players} = Deck
  BY TricksAssumption DEF DealtEvenly
<1>3. \E p \in Players : [suit |-> Rocket, rank |-> TopRocket] \in d[p]
  BY <1>1, <1>2
<1> QED
  BY <1>3 DEF Commander

\* Dealt hands are sets of cards.
LEMMA DealType ==
  ASSUME NEW m \in MissionIds, NEW d \in Deals[m]
  PROVE  d \in [Players -> SUBSET Deck]
BY TricksAssumption DEF DealtEvenly
-----------------------------------------------------------------------------
(* Type correctness.                                                       *)

\* The cards of a trick are cards, and there are finitely many.
LEMMA CardsOfPlays ==
  ASSUME NEW plays \in Seq(PlayType)
  PROVE  /\ Plays(plays) \subseteq PlayType
         /\ Cards(plays) \subseteq Deck
         /\ \A S \in SUBSET Cards(plays) : Cardinality(S) \in Nat
<1>1. Plays(plays) \subseteq PlayType
  BY DEF Plays
<1>2. Cards(plays) \subseteq Deck
  BY <1>1 DEF Cards, PlayType
<1>3. ASSUME NEW S \in SUBSET Deck
      PROVE  Cardinality(S) \in Nat
  <2>1. IsFiniteSet(S)
    BY ONLY DeckFinite, FS_Subset, S \in SUBSET Deck
  <2> QED
    BY ONLY <2>1, FS_CardinalityType
<1> QED
  BY <1>1, <1>2, <1>3

\* Only the rockets have the suit of rockets.
LEMMA RocketRank ==
  ASSUME NEW c \in Deck, IsRocket(c)
  PROVE  c.rank \in 1 .. TopRocket
BY TricksAssumption DEF Deck, IsRocket

\* The counters keep their types.
LEMMA CountedType ==
  ASSUME progress \in ProgressType, NEW w \in PlayType, NEW plays \in Seq(PlayType)
  PROVE  Counted(w, plays) \in ProgressType
<1> DEFINE black == Cardinality({c \in Cards(plays) : c.suit = Black})
<1>1. black \in Nat
  BY CardsOfPlays
<1>2. IsRocket(w.card) => Append(progress.rocketsWon, w.card.rank) \in Seq(1 .. TopRocket)
  <2>1. w.card \in Deck
    BY DEF PlayType
  <2>2. IsRocket(w.card) => w.card.rank \in 1 .. TopRocket
    BY <2>1, RocketRank
  <2> QED
    BY <2>2 DEF ProgressType
<1> DEFINE ones == IF mission \in {9, 26} /\ ~IsRocket(w.card) /\ w.card.rank = 1
                   THEN progress.oneWins + 1 ELSE progress.oneWins
           rockets == IF mission \in {13, 44} /\ IsRocket(w.card)
                      THEN Append(progress.rocketsWon, w.card.rank) ELSE progress.rocketsWon
           blacks == IF mission = 46 /\ w.player = setup.selected
                     THEN progress.blackCardsWon + black ELSE progress.blackCardsWon
<1>3. Counted(w, plays) = [progress EXCEPT !.oneWins = ones, !.rocketsWon = rockets, !.blackCardsWon = blacks]
  BY DEF Counted, ProgressType
<1>4. /\ progress.oneWins \in Nat /\ progress.blackCardsWon \in Nat
      /\ progress.rocketsWon \in Seq(1 .. TopRocket)
  BY DEF ProgressType
<1>5. rockets \in Seq(1 .. TopRocket)
  BY ONLY <1>2, <1>4
<1>6. ones \in Nat
  BY ONLY <1>4
<1>7. blacks \in Nat
  BY ONLY <1>1, <1>4
<1> HIDE DEF ones, rockets, blacks
<1> QED
  BY <1>3, <1>5, <1>6, <1>7 DEF ProgressType

\* A card played leaves the hand and joins the trick.
LEMMA PlayedType ==
  ASSUME TypeOK, NEW p \in Players, NEW c \in hands[p]
  PROVE  /\ Append(trick, Play(p, c)) \in Seq(PlayType)
         /\ [hands EXCEPT ![p] = @ \ {c}] \in [Players -> SUBSET Deck]
<1>1. Play(p, c) \in PlayType
  BY DEF TypeOK, Play, PlayType
<1>2. Append(trick, Play(p, c)) \in Seq(PlayType)
  BY <1>1 DEF TypeOK
<1>3. [hands EXCEPT ![p] = @ \ {c}] \in [Players -> SUBSET Deck]
  BY DEF TypeOK
<1> QED
  BY <1>2, <1>3

\* Cards passed on stay in the deck.
LEMMA PassedOnType ==
  ASSUME NEW held \in [Players -> SUBSET Deck], NEW out \in [Players -> Deck]
  PROVE  PassedOn(held, out) \in [Players -> SUBSET Deck]
BY DEF PassedOn

\* The end of a trick keeps the types.
LEMMA ResolveType ==
  ASSUME TypeOK, setup' = setup,
         NEW w \in PlayType, NEW plays \in Seq(PlayType),
         NEW held \in [Players -> SUBSET Deck], NEW said,
         Resolve(w, plays, held, said)
  PROVE  /\ phase' \in {"trick_result", "success", "failure"}
         /\ hands' \in [Players -> SUBSET Deck]
         /\ turn' \in Players
         /\ status' \in [Goals -> {"pending", "success", "failed"}]'
         /\ tricksWon' \in [Players -> Nat]
         /\ progress' \in ProgressType
<1> DEFINE counted == Counted(w, plays)
<1>1. w.player \in Players
  BY DEF PlayType
<1>2. phase' \in {"trick_result", "success", "failure"}
  BY DEF Resolve
<1>3. turn' \in Players
  BY <1>1 DEF Resolve
<1>4. tricksWon' \in [Players -> Nat]
  BY <1>1 DEF Resolve, TypeOK
<1>5. Goals' = Goals
  BY DEF Goals
<1>6. status' \in [Goals -> {"pending", "success", "failed"}]
  BY DEF Resolve, Booked, TypeOK
<1>7. hands' \in [Players -> SUBSET Deck] /\ progress' \in ProgressType
  <2>1. counted \in ProgressType
    BY CountedType DEF TypeOK
  <2> HIDE DEF counted
  <2>2. CASE hands' = held /\ progress' = counted
    BY <2>1, <2>2
  <2>3. CASE Transfer(held, said, counted)
    <3>1. PICK out \in [Players -> Deck] :
            /\ hands' = PassedOn(held, out)
            /\ progress' = [counted EXCEPT !.transferApplied = TRUE]
      BY <2>3 DEF Transfer
    <3> QED
      BY <2>1, <3>1, PassedOnType DEF ProgressType
  <2> QED
    BY <2>2, <2>3 DEF Resolve, counted
<1> QED
  BY <1>2, <1>3, <1>4, <1>5, <1>6, <1>7

\* The winner of a trick is one of the plays.
LEMMA WinnerType ==
  ASSUME NEW plays \in Seq(PlayType), NEW w \in WinningPlays(plays)
  PROVE  w \in PlayType
<1>1. w \in Plays(plays)
  BY DEF WinningPlays
<1> QED
  BY <1>1, CardsOfPlays

\* startPlaying leaves every variable with its type.
LEMMA InitType == Init => TypeOK
<1> SUFFICES ASSUME Init PROVE TypeOK
  OBVIOUS
<1>1. hands \in [Players -> SUBSET Deck]
  BY DealType DEF Init
<1>2. setup.commander \in Players
  <2>1. setup.commander = Commander(hands)
    BY DEF Init
  <2> QED
    BY <2>1, CommanderType DEF Init
<1>3. progress \in ProgressType
  BY DEF Init, ProgressType
<1> QED
  BY <1>1, <1>2, <1>3 DEF Init, TypeOK

\* Playing a card, communicating and taking up a trick keep the types.
LEMMA NextType == TypeOK /\ [Next]_vars => TypeOK'
<1> SUFFICES ASSUME TypeOK, [Next]_vars PROVE TypeOK'
  OBVIOUS
<1>1. ASSUME NEW p \in Players, NEW c \in hands[p], PlayCard(p, c)
      PROVE  TypeOK'
  <2> DEFINE held  == [hands EXCEPT ![p] = @ \ {c}]
             plays == Append(trick, Play(p, c))
             said  == IF communication[p] # None /\ communication[p].card = c
                      THEN [communication EXCEPT ![p].played = TRUE]
                      ELSE communication
  <2>1. setup' = setup /\ trickNumber' = trickNumber /\ trick' = plays /\ communication' = said
    BY <1>1 DEF PlayCard
  <2>2. plays \in Seq(PlayType) /\ held \in [Players -> SUBSET Deck]
    BY PlayedType
  <2>3. said \in [Players -> SaidType \cup {None}]
    BY DEF TypeOK, SaidType
  <2>4. CASE Len(plays) < N
    <3>1. /\ hands' = held /\ turn' = SeatAfter(p)
          /\ UNCHANGED <<phase, status, tricksWon, progress>>
      BY <1>1, <2>4 DEF PlayCard
    <3>2. SeatAfter(p) \in Players
      BY SeatAfterType
    <3> QED
      BY <2>1, <2>2, <2>3, <3>1, <3>2 DEF TypeOK, Goals
  <2>5. CASE ~(Len(plays) < N)
    <3>1. PICK w \in WinningPlays(plays) : Resolve(w, plays, held, said)
      BY <1>1, <2>5 DEF PlayCard
    <3> HIDE DEF held, plays, said
    <3>2. w \in PlayType
      BY <2>2, WinnerType
    <3> QED
      BY <2>1, <2>2, <2>3, <3>1, <3>2, ResolveType DEF TypeOK
  <2> QED
    BY <2>4, <2>5
<1>2. ASSUME NEW p \in Players, NEW c \in hands[p],
             NEW mk \in {"highest", "lowest", "only", "hidden"}, Communicate(p, c, mk)
      PROVE  TypeOK'
  <2>1. [card |-> c, marker |-> mk, played |-> FALSE] \in SaidType
    BY DEF SaidType, TypeOK
  <2>2. communication' \in [Players -> SaidType \cup {None}]
    BY <1>2, <2>1 DEF Communicate, TypeOK
  <2> QED
    BY <1>2, <2>2 DEF Communicate, TypeOK, Goals
<1>3. CASE AdvanceTrick
  BY <1>3 DEF AdvanceTrick, TypeOK, Goals
<1>4. CASE UNCHANGED vars
  BY <1>4 DEF vars, TypeOK, Goals
<1> QED
  BY <1>1, <1>2, <1>3, <1>4, TricksAssumption DEF Next, PlayAny, SpeakAny

\* Every variable always has its type, whatever is played, said or passed on.
THEOREM TypeCorrect == Spec => []TypeOK
BY InitType, NextType, PTL DEF Spec
-----------------------------------------------------------------------------
(* The order of play.                                                      *)

\* Who led the trick, and the k-th place after a seat.
Lead == IF trick = <<>> THEN turn ELSE trick[1].player
Place(a, k) == IF a + k < N THEN a + k ELSE a + k - N
HasPlayed(p) == \E i \in DOMAIN trick : trick[i].player = p

\* The plays of a trick come from the seats after the leader, in order, and
\* the turn is with the next of them.
TableInv ==
  phase = "playing" =>
    /\ Len(trick) < N
    /\ \A i \in DOMAIN trick : trick[i].player = Place(Lead, i - 1)
    /\ turn = Place(Lead, Len(trick))

\* Going round the table visits every seat once.
LEMMA PlaceFacts ==
  ASSUME NEW a \in Players
  PROVE  /\ Place(a, 0) = a
         /\ \A k \in 0 .. N - 1 : Place(a, k) \in Players
         /\ \A k \in 0 .. N - 1 : SeatAfter(Place(a, k)) = Place(a, k + 1)
         /\ \A k, l \in 0 .. N - 1 : Place(a, k) = Place(a, l) => k = l
         /\ \A p \in Players : \E k \in 0 .. N - 1 : Place(a, k) = p
<1>1. N \in Nat /\ N >= 3 /\ a \in 0 .. N - 1
  BY TableFacts DEF Players
<1>2. /\ Place(a, 0) = a
      /\ \A k \in 0 .. N - 1 : Place(a, k) \in Players
      /\ \A k \in 0 .. N - 1 : SeatAfter(Place(a, k)) = Place(a, k + 1)
  BY <1>1 DEF Place, Players, SeatAfter
<1>3. \A k, l \in 0 .. N - 1 : Place(a, k) = Place(a, l) => k = l
  BY <1>1 DEF Place
<1>4. ASSUME NEW p \in Players
      PROVE  \E k \in 0 .. N - 1 : Place(a, k) = p
  <2>1. CASE p >= a
    <3>1. p - a \in 0 .. N - 1 /\ Place(a, p - a) = p
      BY <1>1, <2>1 DEF Place, Players
    <3> QED
      BY <3>1
  <2>2. CASE p < a
    <3>1. p - a + N \in 0 .. N - 1 /\ Place(a, p - a + N) = p
      BY <1>1, <2>2 DEF Place, Players
    <3> QED
      BY <3>1
  <2> QED
    BY <1>1, <2>1, <2>2 DEF Players
<1> QED
  BY <1>2, <1>3, <1>4

\* The leader of a trick is a seat.
LEMMA LeadType ==
  ASSUME TypeOK
  PROVE  Lead \in Players
<1>1. CASE trick = <<>>
  BY <1>1 DEF TypeOK, Lead
<1>2. CASE trick # <<>>
  <2>1. 1 \in DOMAIN trick /\ trick[1] \in PlayType
    BY <1>2 DEF TypeOK
  <2> QED
    BY <1>2, <2>1 DEF Lead, PlayType
<1> QED
  BY <1>1, <1>2

\* Whoever has the turn has not played to the trick.
LEMMA TurnHasNotPlayed ==
  ASSUME TypeOK, TableInv, phase = "playing"
  PROVE  ~HasPlayed(turn)
<1> SUFFICES ASSUME NEW i \in DOMAIN trick, trick[i].player = turn
             PROVE  FALSE
  BY DEF HasPlayed
<1>1. Len(trick) \in Nat /\ Len(trick) < N /\ i \in 1 .. Len(trick) /\ N \in Nat
  BY TableFacts DEF TypeOK, TableInv
<1>2. Place(Lead, i - 1) = Place(Lead, Len(trick))
  BY DEF TableInv
<1>3. i - 1 \in 0 .. N - 1 /\ Len(trick) \in 0 .. N - 1
  BY <1>1
<1>4. i - 1 = Len(trick)
  BY <1>2, <1>3, LeadType, PlaceFacts
<1> QED
  BY <1>1, <1>4

\* When the trick is complete but for the turn, all others have played.
LEMMA OthersHavePlayed ==
  ASSUME TypeOK, TableInv, phase = "playing", Len(trick) + 1 >= N,
         NEW q \in Players, q # turn
  PROVE  HasPlayed(q)
<1>1. Len(trick) \in Nat /\ Len(trick) = N - 1 /\ N \in Nat /\ N >= 3
  BY TableFacts DEF TypeOK, TableInv
<1>2. PICK k \in 0 .. N - 1 : Place(Lead, k) = q
  BY LeadType, PlaceFacts
<1>3. k # N - 1
  BY <1>1, <1>2 DEF TableInv
<1>4. k + 1 \in DOMAIN trick
  BY <1>1, <1>3 DEF TypeOK
<1>5. trick[k + 1].player = Place(Lead, (k + 1) - 1)
  BY <1>4 DEF TableInv
<1>6. (k + 1) - 1 = k
  BY <1>1
<1> QED
  BY <1>2, <1>4, <1>5, <1>6 DEF HasPlayed

\* A card that does not complete the trick passes the turn on.
LEMMA PlayKeepsOrder ==
  ASSUME TypeOK, TableInv, phase = "playing",
         NEW c, trick' = Append(trick, Play(turn, c)),
         Len(Append(trick, Play(turn, c))) < N, turn' = SeatAfter(turn)
  PROVE  /\ TableInv'
         /\ \A q \in Players : HasPlayed(q)' <=> HasPlayed(q) \/ q = turn
<1> DEFINE n == Len(trick)
<1>1. n \in Nat /\ trick \in Seq(PlayType) /\ DOMAIN trick = 1 .. n
  BY DEF TypeOK
<1>2. /\ Len(trick') = n + 1 /\ DOMAIN trick' = 1 .. n + 1
      /\ \A i \in 1 .. n : trick'[i] = trick[i]
      /\ trick'[n + 1] = Play(turn, c)
  BY <1>1
<1>3. trick'[n + 1].player = turn
  BY <1>2 DEF Play
<1>4. Lead' = Lead
  <2>1. CASE trick = <<>>
    BY <1>2, <1>3, <2>1 DEF Lead
  <2>2. CASE trick # <<>>
    <3>1. n >= 1 /\ trick' # <<>>
      BY <1>1, <1>2, <2>2
    <3> QED
      BY <1>1, <1>2, <2>2, <3>1 DEF Lead
  <2> QED
    BY <2>1, <2>2
<1>5. n + 1 < N
  BY <1>2
<1>6. turn = Place(Lead, n) /\ \A i \in 1 .. n : trick[i].player = Place(Lead, i - 1)
  BY <1>1 DEF TableInv
<1>7. turn' = Place(Lead, n + 1)
  <2>1. n \in 0 .. N - 1
    BY <1>1, <1>5, TableFacts
  <2> QED
    BY <1>6, <2>1, LeadType, PlaceFacts
<1> HIDE DEF n
<1>8. \A i \in 1 .. n + 1 : trick'[i].player = Place(Lead, i - 1)
  <2> SUFFICES ASSUME NEW i \in 1 .. n + 1 PROVE trick'[i].player = Place(Lead, i - 1)
    OBVIOUS
  <2>1. CASE i \in 1 .. n
    BY <1>2, <1>6, <2>1
  <2>2. CASE i = n + 1
    <3>1. i - 1 = n
      BY <1>1, <2>2
    <3> QED
      BY <1>3, <1>6, <2>2, <3>1
  <2> QED
    BY <1>1, <2>1, <2>2
<1>9. TableInv'
  <2>1. \A i \in DOMAIN trick' : trick'[i].player = Place(Lead', i - 1)
    BY <1>2, <1>4, <1>8
  <2>2. turn' = Place(Lead', Len(trick')) /\ Len(trick') < N
    BY <1>2, <1>4, <1>5, <1>7
  <2> QED
    BY <2>1, <2>2 DEF TableInv, Place
<1>10. ASSUME NEW q \in Players
       PROVE  HasPlayed(q)' <=> HasPlayed(q) \/ q = turn
  <2>1. HasPlayed(q)' <=> \E i \in 1 .. n + 1 : trick'[i].player = q
    BY <1>2 DEF HasPlayed
  <2>2. HasPlayed(q) <=> \E i \in 1 .. n : trick[i].player = q
    BY <1>1 DEF HasPlayed
  <2>3. \A i \in 1 .. n + 1 : i \in 1 .. n \/ i = n + 1
    BY <1>1
  <2>4. n + 1 \in 1 .. n + 1 /\ \A i \in 1 .. n : i \in 1 .. n + 1
    BY <1>1
  <2> QED
    BY <1>2, <1>3, <2>1, <2>2, <2>3, <2>4
<1> QED
  BY <1>9, <1>10
-----------------------------------------------------------------------------
(* The number of cards held.                                               *)

Dealt(p) == IF p < Leftover THEN LastTrick + 1 ELSE LastTrick

\* The cards p should still hold.
Holding(p) ==
  IF phase # "playing" THEN Dealt(p) - trickNumber
  ELSE IF HasPlayed(p) THEN Dealt(p) - trickNumber
  ELSE Dealt(p) - trickNumber + 1

Disjoint(h) == \A p, q \in Players : p # q => h[p] \cap h[q] = {}

\* Hands share no card, and shrink in step with the tricks.
HandsInv ==
  /\ Disjoint(hands)
  /\ \A p \in Players : Cardinality(hands[p]) = Holding(p)
  /\ trickNumber <= LastTrick
  /\ phase = "trick_result" => trickNumber < LastTrick

\* A hand is finite, and empty exactly when it has no cards to count.
LEMMA HandFinite ==
  ASSUME NEW h \in SUBSET Deck
  PROVE  /\ IsFiniteSet(h)
         /\ Cardinality(h) \in Nat
         /\ Cardinality(h) = 0 <=> h = {}
<1>1. IsFiniteSet(h)
  BY ONLY DeckFinite, FS_Subset, h \in SUBSET Deck
<1> QED
  BY ONLY <1>1, FS_CardinalityType, FS_EmptySet

\* Everybody is dealt at least a card per trick, and the last seat no more.
LEMMA DealtFacts ==
  ASSUME NEW p \in Players
  PROVE  /\ Dealt(p) \in Nat /\ Dealt(p) >= LastTrick
         /\ N - 1 \in Players /\ Dealt(N - 1) = LastTrick
<1>1. /\ N \in Nat /\ N >= 3 /\ LastTrick \in Nat /\ LastTrick >= 1
      /\ Leftover \in 0 .. N - 1 /\ p \in 0 .. N - 1
  BY TableFacts DEF Players
<1> QED
  BY <1>1 DEF Dealt, Players

\* Passing on one card each leaves the hands disjoint and as large as before.
LEMMA PassedOnKeepsHands ==
  ASSUME NEW held \in [Players -> SUBSET Deck], Disjoint(held),
         NEW out \in [Players -> Deck], \A p \in Players : out[p] \in held[p]
  PROVE  /\ Disjoint(PassedOn(held, out))
         /\ \A p \in Players : Cardinality(PassedOn(held, out)[p]) = Cardinality(held[p])
<1>1. ASSUME NEW p \in Players
      PROVE  PassedOn(held, out)[p] = (held[p] \ {out[p]}) \cup {out[SeatBefore(p)]}
  <2>1. {q \in Players : SeatAfter(q) = p} = {SeatBefore(p)}
    BY SeatBeforeIs, SeatAfterInjective
  <2>2. {out[q] : q \in {q \in Players : SeatAfter(q) = p}} = {out[SeatBefore(p)]}
    BY <2>1
  <2> QED
    BY <2>2 DEF PassedOn
<1>2. ASSUME NEW p \in Players
      PROVE  SeatBefore(p) \in Players /\ SeatBefore(p) # p /\ out[SeatBefore(p)] \notin held[p]
  <2>1. SeatBefore(p) \in Players /\ SeatBefore(p) # p
    BY SeatBeforeIs, SeatAfterType
  <2> QED
    BY <2>1 DEF Disjoint
<1>3. ASSUME NEW p \in Players
      PROVE  Cardinality(PassedOn(held, out)[p]) = Cardinality(held[p])
  <2> DEFINE rest == held[p] \ {out[p]}
  <2>1. IsFiniteSet(held[p]) /\ Cardinality(held[p]) \in Nat
    BY HandFinite
  <2>2. IsFiniteSet(rest) /\ Cardinality(rest) = Cardinality(held[p]) - 1
    BY <2>1, FS_RemoveElement
  <2>3. out[SeatBefore(p)] \notin rest
    BY <1>2
  <2> HIDE DEF rest
  <2>4. Cardinality(rest \cup {out[SeatBefore(p)]}) = Cardinality(rest) + 1
    BY <2>2, <2>3, FS_AddElement
  <2>5. PassedOn(held, out)[p] = rest \cup {out[SeatBefore(p)]}
    BY <1>1 DEF rest
  <2> QED
    BY ONLY <2>1, <2>2, <2>4, <2>5
<1>4. ASSUME NEW p \in Players, NEW q \in Players, p # q, NEW c,
             c \in PassedOn(held, out)[p], c \in PassedOn(held, out)[q]
      PROVE  FALSE
  <2>1. /\ c \in held[p] \ {out[p]} \/ c = out[SeatBefore(p)]
        /\ c \in held[q] \ {out[q]} \/ c = out[SeatBefore(q)]
    BY <1>1, <1>4
  <2>2. SeatBefore(p) # SeatBefore(q)
    BY <1>4, SeatBeforeIs
  <2>3. \A a, b \in Players : c \in held[a] /\ c \in held[b] => a = b
    BY DEF Disjoint
  <2>4. /\ SeatBefore(p) \in Players /\ out[SeatBefore(p)] \in held[SeatBefore(p)]
        /\ SeatBefore(q) \in Players /\ out[SeatBefore(q)] \in held[SeatBefore(q)]
    BY <1>2
  <2> QED
    BY <1>4, <2>1, <2>2, <2>3, <2>4
<1> QED
  BY <1>3, <1>4 DEF Disjoint

\* Playing a card takes one from one hand.
LEMMA PlayedHands ==
  ASSUME TypeOK, HandsInv, NEW p \in Players, NEW c \in hands[p]
  PROVE  LET held == [hands EXCEPT ![p] = @ \ {c}]
         IN /\ Disjoint(held)
            /\ Cardinality(held[p]) = Cardinality(hands[p]) - 1
            /\ \A q \in Players : q # p => held[q] = hands[q]
<1> DEFINE held == [hands EXCEPT ![p] = @ \ {c}]
<1>1. held[p] = hands[p] \ {c} /\ \A q \in Players : q # p => held[q] = hands[q]
  BY DEF TypeOK
<1>2. IsFiniteSet(hands[p])
  BY HandFinite DEF TypeOK
<1>3. Cardinality(hands[p] \ {c}) = Cardinality(hands[p]) - 1
  BY <1>2, FS_RemoveElement
<1> HIDE DEF held
<1>4. Disjoint(held)
  BY <1>1 DEF HandsInv, Disjoint
<1> QED
  BY <1>1, <1>3, <1>4 DEF held

\* When play begins the hands are as large as dealt and the table is empty.
LEMMA InitHands == Init => TableInv /\ HandsInv
<1> SUFFICES ASSUME Init PROVE TableInv /\ HandsInv
  OBVIOUS
<1>1. TypeOK
  BY InitType
<1>2. phase = "playing" /\ trick = <<>> /\ trickNumber = 1
  BY DEF Init
<1>3. Len(trick) = 0 /\ DOMAIN trick = {} /\ Lead = turn
  BY <1>2 DEF Lead
<1>4. TableInv
  <2>1. Place(Lead, 0) = turn
    BY <1>1, <1>3, PlaceFacts DEF TypeOK
  <2> QED
    BY <1>3, <2>1, TableFacts DEF TableInv
<1>5. DealtEvenly(hands)
  BY TricksAssumption DEF Init
<1>6. Disjoint(hands)
  BY <1>5 DEF DealtEvenly, Disjoint
<1>7. ASSUME NEW p \in Players
      PROVE  Cardinality(hands[p]) = Holding(p)
  <2>1. Cardinality(hands[p]) = LastTrick + (IF p < Leftover THEN 1 ELSE 0)
    BY <1>5 DEF DealtEvenly, Leftover
  <2>2. ~HasPlayed(p)
    BY <1>3 DEF HasPlayed
  <2>3. Holding(p) = Dealt(p) - 1 + 1
    BY <1>2, <2>2 DEF Holding
  <2> QED
    BY <2>1, <2>3, TableFacts, DealtFacts DEF Dealt
<1> QED
  BY <1>2, <1>4, <1>6, <1>7, TableFacts DEF HandsInv
\* The trick that p completes takes its cards from all hands; what the rest of
\* resolve does, the exchange of mission 12 included, keeps their number.
LEMMA ResolveHands ==
  ASSUME TypeOK, HandsInv, phase = "playing", trickNumber' = trickNumber,
         NEW w, NEW plays, NEW said,
         NEW held \in [Players -> SUBSET Deck], Disjoint(held),
         \A q \in Players : Cardinality(held[q]) = Dealt(q) - trickNumber,
         Resolve(w, plays, held, said)
  PROVE  HandsInv'
<1>1. phase' # "playing" /\ (phase' = "trick_result" => ~Exhausted(held))
  BY DEF Resolve
<1>2. /\ Disjoint(hands')
      /\ \A q \in Players : Cardinality(hands'[q]) = Cardinality(held[q])
  <2>1. CASE hands' = held
    BY <2>1
  <2>2. CASE Transfer(held, said, Counted(w, plays))
    <3>1. PICK out \in [Players -> Deck] :
            /\ \A q \in Players : out[q] \in held[q]
            /\ hands' = PassedOn(held, out)
      BY <2>2 DEF Transfer, Passable
    <3> QED
      BY <3>1, PassedOnKeepsHands
  <2> QED
    BY <2>1, <2>2 DEF Resolve
<1>3. \A q \in Players : Cardinality(hands'[q]) = Holding(q)'
  BY <1>1, <1>2 DEF Holding, Dealt, Leftover
<1>4. trickNumber' <= LastTrick
  BY DEF HandsInv
<1>5. ASSUME phase' = "trick_result" PROVE trickNumber' < LastTrick
  <2>1. N - 1 \in Players /\ Dealt(N - 1) = LastTrick
    BY DealtFacts, TableFacts DEF Players
  <2>2. held[N - 1] # {}
    BY <1>1, <1>5, <2>1 DEF Exhausted
  <2>3. Cardinality(held[N - 1]) \in Nat /\ Cardinality(held[N - 1]) # 0
    BY <2>1, <2>2, HandFinite
  <2>4. Cardinality(held[N - 1]) = LastTrick - trickNumber
    BY <2>1
  <2>5. trickNumber \in Nat /\ LastTrick \in Nat
    BY TableFacts DEF TypeOK
  <2> QED
    BY <2>3, <2>4, <2>5
<1> QED
  BY <1>2, <1>3, <1>4, <1>5 DEF HandsInv, Disjoint

\* Every step keeps the hands in step with the tricks.
LEMMA NextHands == TypeOK /\ TableInv /\ HandsInv /\ [Next]_vars => TableInv' /\ HandsInv'
<1> SUFFICES ASSUME TypeOK, TableInv, HandsInv, [Next]_vars
             PROVE  TableInv' /\ HandsInv'
  OBVIOUS
<1>1. ASSUME NEW p \in Players, NEW c \in hands[p], PlayCard(p, c)
      PROVE  TableInv' /\ HandsInv'
  <2> DEFINE held  == [hands EXCEPT ![p] = @ \ {c}]
             plays == Append(trick, Play(p, c))
             said  == IF communication[p] # None /\ communication[p].card = c
                      THEN [communication EXCEPT ![p].played = TRUE]
                      ELSE communication
  <2>1. phase = "playing" /\ p = turn /\ trickNumber' = trickNumber /\ trick' = plays
    BY <1>1 DEF PlayCard
  <2>2. held \in [Players -> SUBSET Deck] /\ Len(plays) = Len(trick) + 1
    BY PlayedType DEF TypeOK
  <2>3. /\ Disjoint(held)
        /\ Cardinality(held[p]) = Cardinality(hands[p]) - 1
        /\ \A q \in Players : q # p => held[q] = hands[q]
    BY PlayedHands
  <2>4. ~HasPlayed(p)
    BY <2>1, TurnHasNotPlayed
  <2>5. /\ trickNumber \in Nat /\ N \in Nat /\ Len(trick) \in Nat
        /\ \A q \in Players : Dealt(q) \in Nat
    BY TableFacts, DealtFacts DEF TypeOK
  <2>6. Cardinality(held[p]) = Dealt(p) - trickNumber
    <3>1. Cardinality(hands[p]) = Dealt(p) - trickNumber + 1
      BY <2>1, <2>4 DEF HandsInv, Holding
    <3> QED
      BY ONLY <2>3, <2>5, <3>1
  <2>7. CASE Len(plays) < N
    <3>1. hands' = held /\ turn' = SeatAfter(p) /\ phase' = phase
      BY <1>1, <2>7 DEF PlayCard
    <3> HIDE DEF held
    <3>2. /\ TableInv'
          /\ \A q \in Players : HasPlayed(q)' <=> HasPlayed(q) \/ q = turn
      BY <2>1, <2>7, <3>1, PlayKeepsOrder
    <3>3. ASSUME NEW q \in Players
          PROVE  Cardinality(hands'[q]) = Holding(q)'
      <4>1. CASE q = p
        BY <2>1, <2>6, <3>1, <3>2, <4>1 DEF Holding, Dealt, Leftover
      <4>2. CASE q # p
        BY <2>1, <2>3, <3>1, <3>2, <4>2 DEF Holding, Dealt, Leftover, HandsInv
      <4> QED
        BY <4>1, <4>2
    <3> QED
      BY <2>1, <2>3, <3>1, <3>2, <3>3 DEF HandsInv, Disjoint
  <2>8. CASE ~(Len(plays) < N)
    <3>1. PICK w \in WinningPlays(plays) : Resolve(w, plays, held, said)
      BY <1>1, <2>8 DEF PlayCard
    <3>2. ASSUME NEW q \in Players, q # p
          PROVE  Cardinality(held[q]) = Dealt(q) - trickNumber
      <4>1. HasPlayed(q)
        BY <2>1, <2>2, <2>5, <2>8, <3>2, OthersHavePlayed
      <4> QED
        BY <2>1, <2>3, <3>2, <4>1 DEF HandsInv, Holding
    <3> HIDE DEF held, plays, said
    <3>3. HandsInv'
      BY <2>1, <2>2, <2>3, <2>6, <3>1, <3>2, ResolveHands
    <3>4. TableInv'
      BY <3>1 DEF Resolve, TableInv
    <3> QED
      BY <3>3, <3>4
  <2> QED
    BY <2>7, <2>8
<1>2. ASSUME NEW p \in Players, NEW c \in hands[p],
             NEW mk \in {"highest", "lowest", "only", "hidden"}, Communicate(p, c, mk)
      PROVE  TableInv' /\ HandsInv'
  BY <1>2 DEF Communicate, TableInv, HandsInv, Holding, HasPlayed, Lead, Place, Dealt, Leftover, Disjoint
<1>3. ASSUME AdvanceTrick PROVE TableInv' /\ HandsInv'
  <2>1. /\ phase = "trick_result" /\ phase' = "playing" /\ trick' = <<>>
        /\ trickNumber' = trickNumber + 1 /\ hands' = hands /\ turn' = turn
    BY <1>3 DEF AdvanceTrick
  <2>2. Len(trick') = 0 /\ DOMAIN trick' = {} /\ Lead' = turn
    BY <2>1 DEF Lead
  <2>3. TableInv'
    <3>1. Place(turn, 0) = turn
      BY PlaceFacts DEF TypeOK
    <3> QED
      BY <2>1, <2>2, <3>1, TableFacts DEF TableInv, Place
  <2>4. trickNumber \in Nat /\ LastTrick \in Nat /\ trickNumber < LastTrick
    BY <2>1, TableFacts DEF TypeOK, HandsInv
  <2>5. ASSUME NEW q \in Players
        PROVE  Cardinality(hands'[q]) = Holding(q)'
    <3>1. Cardinality(hands[q]) = Dealt(q) - trickNumber
      BY <2>1 DEF HandsInv, Holding
    <3>2. Holding(q)' = Dealt(q) - (trickNumber + 1) + 1
      BY <2>1, <2>2 DEF Holding, HasPlayed, Dealt, Leftover
    <3>3. Dealt(q) \in Nat
      BY DealtFacts
    <3> QED
      BY <2>1, <2>4, <3>1, <3>2, <3>3
  <2> QED
    BY <2>1, <2>3, <2>4, <2>5 DEF HandsInv, Disjoint
<1>4. CASE UNCHANGED vars
  BY <1>4 DEF vars, TableInv, HandsInv, Holding, HasPlayed, Lead, Place, Dealt, Leftover, Disjoint
<1> QED
  BY <1>1, <1>2, <1>3, <1>4, TricksAssumption DEF Next, PlayAny, SpeakAny

\* Hands and places keep in step with the tricks.
THEOREM HandsInStep == Spec => [](TypeOK /\ TableInv /\ HandsInv)
<1>1. Init => TypeOK /\ TableInv /\ HandsInv
  BY InitType, InitHands
<1>2. TypeOK /\ TableInv /\ HandsInv /\ [Next]_vars => (TypeOK /\ TableInv /\ HandsInv)'
  BY NextType, NextHands
<1> QED
  BY <1>1, <1>2, PTL DEF Spec

\* The player to move always has a legal card and has not yet played to the
\* trick, whatever the number of players and cards.
THEOREM TurnCanAlwaysPlay == Spec => []TurnCanPlay
<1>1. ASSUME TypeOK, TableInv, HandsInv PROVE TurnCanPlay
  <2> SUFFICES ASSUME phase = "playing"
               PROVE  LegalCards(turn) # {} /\ \A x \in Plays(trick) : x.player # turn
    BY DEF TurnCanPlay
  <2>1. turn \in Players /\ ~HasPlayed(turn)
    BY <1>1, TurnHasNotPlayed DEF TypeOK
  <2>2. Cardinality(hands[turn]) = Dealt(turn) - trickNumber + 1
    BY <1>1, <2>1 DEF HandsInv, Holding
  <2>3. /\ Dealt(turn) \in Nat /\ Dealt(turn) >= LastTrick
        /\ trickNumber <= LastTrick /\ trickNumber \in Nat /\ LastTrick \in Nat
    BY <1>1, <2>1, DealtFacts, TableFacts DEF HandsInv, TypeOK
  <2>4. Cardinality(hands[turn]) # 0
    BY ONLY <2>2, <2>3
  <2>5. hands[turn] # {}
    BY <1>1, <2>1, <2>4, HandFinite DEF TypeOK
  <2>6. LegalCards(turn) # {}
    BY <2>5 DEF LegalCards
  <2>7. \A x \in Plays(trick) : x.player # turn
    BY <2>1 DEF HasPlayed, Plays
  <2> QED
    BY <2>6, <2>7
<1> QED
  BY <1>1, HandsInStep, PTL

\* A hand runs out exactly with the trick isFinalTrick names, whether or not
\* the cards share evenly among the players.
THEOREM LastTrickIsLast == Spec => []ExhaustedIsFinal
<1>1. ASSUME TypeOK, HandsInv PROVE ExhaustedIsFinal
  <2>1. trickNumber <= LastTrick /\ trickNumber \in Nat /\ LastTrick \in Nat
    BY <1>1, TableFacts DEF HandsInv, TypeOK
  <2>2. ASSUME phase # "playing", NEW p \in Players, hands[p] = {}
        PROVE  trickNumber = LastTrick
    <3>1. Cardinality(hands[p]) = 0
      BY <1>1, <2>2, HandFinite DEF TypeOK
    <3>2. Cardinality(hands[p]) = Dealt(p) - trickNumber
      BY <1>1, <2>2 DEF HandsInv, Holding
    <3> QED
      BY <2>1, <3>1, <3>2, DealtFacts
  <2>3. ASSUME phase # "playing", trickNumber = LastTrick
        PROVE  \E p \in Players : hands[p] = {}
    <3>1. N - 1 \in Players /\ Dealt(N - 1) = LastTrick
      BY DealtFacts, TableFacts DEF Players
    <3>2. Cardinality(hands[N - 1]) = LastTrick - LastTrick
      BY <1>1, <2>3, <3>1 DEF HandsInv, Holding
    <3>3. Cardinality(hands[N - 1]) = 0
      BY <2>1, <3>2
    <3>4. hands[N - 1] = {}
      BY <1>1, <3>1, <3>3, HandFinite DEF TypeOK
    <3> QED
      BY <3>1, <3>4
  <2> QED
    BY <2>1, <2>2, <2>3 DEF ExhaustedIsFinal, Exhausted
<1> QED
  BY <1>1, HandsInStep, PTL

\* Until the verdict the play goes on from whole states to whole states: the
\* types hold, the turn can play, and only the last trick empties a hand.
THEOREM PlayAlwaysGoesOn == Spec => []PlayGoesOn
<1>1. TypeOK /\ ExhaustedIsFinal /\ TurnCanPlay => PlayGoesOn
  BY DEF PlayGoesOn
<1> QED
  BY <1>1, TypeCorrect, LastTrickIsLast, TurnCanAlwaysPlay, PTL
-----------------------------------------------------------------------------
(* The conservation of cards.                                              *)

WonType == [by : Players, card : Deck, plays : Seq(PlayType)]
Gone == OnTable \cup CardsWon

\* The cards that have left the hands are those on the table and in the
\* tricks won, and none of them has been played twice.
CardsInv ==
  /\ history \in Seq(WonType)
  /\ Gone \subseteq Deck
  /\ (UNION {hands[p] : p \in Players}) \cup Gone = Deck
  /\ \A p \in Players : hands[p] \cap Gone = {}
  /\ phase = "playing" => Cardinality(OnTable) = Len(trick)
  /\ Len(history) * N + Cardinality(OnTable) = Cardinality(Gone)

\* A card that joins others joins them as one more.
LEMMA OneMoreCard ==
  ASSUME NEW S \in SUBSET Deck, NEW c \in Deck, c \notin S
  PROVE  Cardinality(S \cup {c}) = Cardinality(S) + 1 /\ Cardinality(S) \in Nat
BY HandFinite, FS_AddElement

\* The exchange keeps the cards that are in hands.
LEMMA PassedOnKeepsCards ==
  ASSUME NEW held \in [Players -> SUBSET Deck],
         NEW out \in [Players -> Deck], \A p \in Players : out[p] \in held[p]
  PROVE  UNION {PassedOn(held, out)[p] : p \in Players} = UNION {held[p] : p \in Players}
<1> DEFINE after == PassedOn(held, out)
<1>1. \A p \in Players : after[p] =
        (held[p] \ {out[p]}) \cup {out[q] : q \in {q \in Players : SeatAfter(q) = p}}
  BY DEF PassedOn
<1> HIDE DEF after
<1>2. ASSUME NEW p \in Players, NEW c \in after[p]
      PROVE  \E q \in Players : c \in held[q]
  BY <1>1
<1>3. ASSUME NEW p \in Players, NEW c \in held[p]
      PROVE  \E q \in Players : c \in after[q]
  <2>1. CASE c = out[p]
    <3>1. SeatAfter(p) \in Players
      BY SeatAfterType
    <3>2. c \in after[SeatAfter(p)]
      BY <1>1, <2>1, <3>1
    <3> QED
      BY <3>1, <3>2
  <2>2. CASE c # out[p]
    <3>1. c \in after[p]
      BY <1>1, <2>2
    <3> QED
      BY <3>1
  <2> QED
    BY <2>1, <2>2
<1>4. UNION {after[p] : p \in Players} = UNION {held[p] : p \in Players}
  BY <1>2, <1>3
<1> QED
  BY <1>4 DEF after

\* The cards of a trick with one play more.
LEMMA OnePlayMore ==
  ASSUME NEW s \in Seq(PlayType), NEW x \in PlayType
  PROVE  Cards(Append(s, x)) = Cards(s) \cup {x.card}
<1>1. /\ DOMAIN Append(s, x) = DOMAIN s \cup {Len(s) + 1}
      /\ \A i \in DOMAIN s : Append(s, x)[i] = s[i]
      /\ Append(s, x)[Len(s) + 1] = x
  OBVIOUS
<1>2. Plays(Append(s, x)) = Plays(s) \cup {x}
  BY <1>1 DEF Plays
<1> QED
  BY <1>2 DEF Cards

\* The cards won with one trick more.
LEMMA OneTrickMore ==
  ASSUME history \in Seq(WonType), NEW t \in WonType, history' = Append(history, t)
  PROVE  /\ CardsWon' = CardsWon \cup Cards(t.plays)
         /\ Len(history') = Len(history) + 1 /\ history' \in Seq(WonType)
<1>1. /\ DOMAIN history' = DOMAIN history \cup {Len(history) + 1}
      /\ \A k \in DOMAIN history : history'[k] = history[k]
      /\ history'[Len(history) + 1] = t
  OBVIOUS
<1>2. CardsWon' = UNION {Cards(history'[k].plays) : k \in DOMAIN history'}
  BY DEF CardsWon, Cards, Plays
<1>3. CardsWon = UNION {Cards(history[k].plays) : k \in DOMAIN history}
  BY DEF CardsWon
<1>4. CardsWon' = CardsWon \cup Cards(t.plays)
  BY <1>1, <1>2, <1>3
<1> QED
  BY <1>4

\* When play begins all cards are in hands.
LEMMA InitCards == Init => CardsInv
<1> SUFFICES ASSUME Init PROVE CardsInv
  OBVIOUS
<1>1. phase = "playing" /\ trick = <<>> /\ history = <<>>
  BY DEF Init
<1>2. OnTable = {} /\ CardsWon = {}
  BY <1>1 DEF OnTable, CardsWon, Cards, Plays
<1>3. UNION {hands[p] : p \in Players} = Deck
  BY TricksAssumption DEF Init, DealtEvenly
<1>4. Gone = {} /\ Cardinality({}) = 0
  BY <1>2, FS_EmptySet DEF Gone
<1>5. Len(history) = 0 /\ Len(trick) = 0 /\ N \in Nat
  BY <1>1, TableFacts
<1>6. Len(history) * N + Cardinality(OnTable) = Cardinality(Gone)
  BY <1>2, <1>4, <1>5
<1> QED
  BY <1>1, <1>2, <1>3, <1>4, <1>5, <1>6 DEF CardsInv

\* Every step moves cards from hands to the table and on, and no other way.
LEMMA NextCards ==
  TypeOK /\ TableInv /\ HandsInv /\ CardsInv /\ [Next]_vars => CardsInv'
<1> SUFFICES ASSUME TypeOK, TableInv, HandsInv, CardsInv, [Next]_vars
             PROVE  CardsInv'
  OBVIOUS
<1>1. ASSUME NEW p \in Players, NEW c \in hands[p], PlayCard(p, c)
      PROVE  CardsInv'
  <2> DEFINE held  == [hands EXCEPT ![p] = @ \ {c}]
             plays == Append(trick, Play(p, c))
             said  == IF communication[p] # None /\ communication[p].card = c
                      THEN [communication EXCEPT ![p].played = TRUE]
                      ELSE communication
  <2>1. phase = "playing" /\ trick' = plays /\ OnTable = Cards(trick)
    BY <1>1 DEF PlayCard, OnTable
  <2>2. /\ c \in Deck /\ Play(p, c) \in PlayType /\ Play(p, c).card = c
        /\ Len(plays) = Len(trick) + 1 /\ plays \in Seq(PlayType)
        /\ held \in [Players -> SUBSET Deck]
    BY PlayedType DEF TypeOK, Play, PlayType
  <2>3. Cards(plays) = OnTable \cup {c}
    BY <2>1, <2>2, OnePlayMore DEF TypeOK
  <2>4. c \notin Gone /\ c \notin OnTable /\ Gone \subseteq Deck /\ OnTable \subseteq Deck
    BY DEF CardsInv, Gone
  <2>5. /\ Cardinality(Gone \cup {c}) = Cardinality(Gone) + 1
        /\ Cardinality(OnTable \cup {c}) = Cardinality(OnTable) + 1
        /\ Cardinality(Gone) \in Nat /\ Cardinality(OnTable) \in Nat
    BY <2>2, <2>4, OneMoreCard
  <2>6. /\ Cardinality(OnTable) = Len(trick) /\ Len(trick) \in Nat
        /\ Len(history) * N + Cardinality(OnTable) = Cardinality(Gone)
        /\ Len(history) \in Nat /\ N \in Nat
    BY <2>1, TableFacts DEF CardsInv, TypeOK
  <2>7. /\ held[p] = hands[p] \ {c}
        /\ \A q \in Players : q # p => held[q] = hands[q] /\ c \notin hands[q]
    BY DEF TypeOK, HandsInv, Disjoint
  <2> HIDE DEF held
  <2>8. /\ (UNION {held[q] : q \in Players}) \cup Gone \cup {c} = Deck
        /\ \A q \in Players : held[q] \cap (Gone \cup {c}) = {}
    <3>1. ASSUME NEW d \in Deck, d \notin Gone, d # c
          PROVE  \E q \in Players : d \in held[q]
      <4>1. PICK q \in Players : d \in hands[q]
        BY <3>1 DEF CardsInv
      <4>2. d \in held[q]
        BY <2>7, <3>1, <4>1
      <4> QED
        BY <4>2
    <3>2. \A q \in Players : held[q] \subseteq Deck
      BY <2>2 DEF held
    <3>3. \A q \in Players : held[q] \cap (Gone \cup {c}) = {}
      BY <2>7 DEF CardsInv
    <3> QED
      BY <2>2, <2>4, <3>1, <3>2, <3>3
  <2>9. CASE Len(plays) < N
    <3>1. hands' = held /\ phase' = phase /\ history' = history
      BY <1>1, <2>9 DEF PlayCard, held
    <3>2. OnTable' = OnTable \cup {c} /\ CardsWon' = CardsWon
      <4>1. OnTable' = Cards(trick')
        BY <2>1, <3>1 DEF OnTable, Cards, Plays
      <4>2. OnTable' = OnTable \cup {c}
        BY ONLY <2>1, <2>3, <4>1
      <4>3. CardsWon' = CardsWon
        BY <3>1 DEF CardsWon, Cards, Plays
      <4> QED
        BY <4>2, <4>3
    <3>3. Gone' = Gone \cup {c}
      BY <3>2 DEF Gone
    <3>4. Cardinality(OnTable') = Len(trick')
      BY <2>1, <2>2, <2>5, <2>6, <3>2
    <3>5. Len(history') * N + Cardinality(OnTable') = Cardinality(Gone')
      <4> DEFINE won == Len(history) * N
      <4>1. won \in Nat /\ won + Cardinality(OnTable) = Cardinality(Gone)
        BY ONLY <2>6
      <4> HIDE DEF won
      <4>2. won + (Cardinality(OnTable) + 1) = Cardinality(Gone) + 1
        BY ONLY <2>5, <4>1
      <4> QED
        BY <2>5, <3>1, <3>2, <3>3, <4>2 DEF won
    <3> QED
      BY <2>2, <2>4, <2>8, <3>1, <3>3, <3>4, <3>5 DEF CardsInv
  <2>10. CASE ~(Len(plays) < N)
    <3>1. PICK w \in WinningPlays(plays) : Resolve(w, plays, held, said)
      BY <1>1, <2>10 DEF PlayCard, held
    <3> DEFINE t == [by |-> w.player, card |-> w.card, plays |-> plays]
    <3>2. history' = Append(history, t) /\ phase' # "playing"
      BY <3>1 DEF Resolve
    <3>3. t \in WonType /\ t.plays = plays
      BY <2>2, WinnerType DEF WonType, PlayType
    <3> HIDE DEF t
    <3>4. /\ CardsWon' = CardsWon \cup Cards(plays)
          /\ Len(history') = Len(history) + 1 /\ history' \in Seq(WonType)
      BY <3>2, <3>3, OneTrickMore DEF CardsInv
    <3>5. OnTable' = {} /\ Gone' = Gone \cup {c}
      BY <2>3, <3>2, <3>4 DEF OnTable, Gone
    <3>6. UNION {hands'[q] : q \in Players} = UNION {held[q] : q \in Players}
      <4>1. CASE hands' = held
        BY <4>1
      <4>2. CASE Transfer(held, said, Counted(w, plays))
        <5>1. PICK out \in [Players -> Deck] :
                /\ \A q \in Players : out[q] \in held[q]
                /\ hands' = PassedOn(held, out)
          BY <4>2 DEF Transfer, Passable
        <5>2. UNION {PassedOn(held, out)[q] : q \in Players} = UNION {held[q] : q \in Players}
          BY <2>2, <5>1, PassedOnKeepsCards
        <5> QED
          BY ONLY <5>1, <5>2
      <4> QED
        BY <3>1, <4>1, <4>2 DEF Resolve
    <3>7. \A q \in Players : hands'[q] \cap Gone' = {}
      <4> SUFFICES ASSUME NEW q \in Players, NEW d \in hands'[q], d \in Gone'
                   PROVE  FALSE
        OBVIOUS
      <4>1. PICK r \in Players : d \in held[r]
        BY <3>6
      <4> QED
        BY <2>8, <3>5, <4>1
    <3>8. Len(trick) + 1 = N
      BY <2>1, <2>2, <2>6, <2>10 DEF TableInv
    <3>9. Len(history') * N + Cardinality(OnTable') = Cardinality(Gone')
      <4>1. Cardinality(OnTable') = 0
        BY <3>5, FS_EmptySet
      <4> DEFINE won == Len(history) * N
      <4>2. won \in Nat /\ (Len(history) + 1) * N = won + N
        BY ONLY <2>6
      <4>3. won + Cardinality(OnTable) = Cardinality(Gone)
        BY <2>6
      <4> HIDE DEF won
      <4>4. won + N = Cardinality(Gone) + 1
        BY ONLY <2>5, <2>6, <3>8, <4>2, <4>3
      <4> QED
        BY <2>5, <2>6, <3>4, <3>5, <4>1, <4>2, <4>4
    <3> QED
      BY <2>2, <2>4, <2>8, <3>2, <3>4, <3>5, <3>6, <3>7, <3>9 DEF CardsInv
  <2> QED
    BY <2>9, <2>10
<1>2. ASSUME NEW p \in Players, NEW c \in hands[p],
             NEW mk \in {"highest", "lowest", "only", "hidden"}, Communicate(p, c, mk)
      PROVE  CardsInv'
  BY <1>2 DEF Communicate, CardsInv, Gone, OnTable, CardsWon, Cards, Plays
<1>3. ASSUME AdvanceTrick PROVE CardsInv'
  <2>1. /\ phase = "trick_result" /\ phase' = "playing" /\ trick' = <<>>
        /\ hands' = hands /\ history' = history
    BY <1>3 DEF AdvanceTrick
  <2>2. OnTable = {} /\ OnTable' = {} /\ Len(trick') = 0
    BY <2>1 DEF OnTable, Cards, Plays
  <2>3. CardsWon' = CardsWon
    BY <2>1 DEF CardsWon, Cards, Plays
  <2>4. Gone' = Gone /\ Cardinality({}) = 0
    BY <2>2, <2>3, FS_EmptySet DEF Gone
  <2> QED
    BY <2>1, <2>2, <2>4 DEF CardsInv
<1>4. CASE UNCHANGED vars
  BY <1>4 DEF vars, CardsInv, Gone, OnTable, CardsWon, Cards, Plays
<1> QED
  BY <1>1, <1>2, <1>3, <1>4, TricksAssumption DEF Next, PlayAny, SpeakAny

\* No card is ever lost, doubled or played twice, the exchange of mission 12
\* included.
THEOREM CardsAreConserved == Spec => []CardsConserved
<1> DEFINE Inv == TypeOK /\ TableInv /\ HandsInv /\ CardsInv
<1>1. Init => Inv
  BY InitType, InitHands, InitCards
<1>2. Inv /\ [Next]_vars => Inv'
  BY NextType, NextHands, NextCards
<1>3. Inv => CardsConserved
  <2> SUFFICES ASSUME Inv PROVE CardsConserved
    OBVIOUS
  <2>1. \A p, q \in Players : p # q => hands[p] \cap hands[q] = {}
    BY DEF HandsInv, Disjoint
  <2>2. (UNION {hands[p] : p \in Players}) \cup OnTable \cup CardsWon = Deck
    BY DEF CardsInv, Gone
  <2>3. /\ \A p \in Players : hands[p] \cap (OnTable \cup CardsWon) = {}
        /\ Len(history) * N + Cardinality(OnTable) = Cardinality(OnTable \cup CardsWon)
    BY DEF CardsInv, Gone
  <2> QED
    BY <2>1, <2>2, <2>3 DEF CardsConserved
<1> HIDE DEF Inv
<1> QED
  BY <1>1, <1>2, <1>3, PTL DEF Spec
-----------------------------------------------------------------------------
(* What was communicated.                                                  *)

\* The marker mk of card c says the truth about hand h.
Truthful(mk, c, h) ==
  \A x \in h : x.suit = c.suit =>
    /\ mk \in {"highest", "only"} => x.rank <= c.rank
    /\ mk \in {"lowest", "only"}  => x.rank >= c.rank

\* The communication s is right for hand h, when the cards in gone are played.
RightFor(s, h, gone) ==
  /\ s.played <=> s.card \notin h
  /\ s.played => s.card \in gone
  /\ ~s.played /\ mission # 12 => Truthful(s.marker, s.card, h)

SaidInv == \A p \in Players : communication[p] # None => RightFor(communication[p], hands[p], Gone)

\* A marker that communicationMarkers offers is true.
LEMMA MarkersAreTrue ==
  ASSUME NEW h \in SUBSET Deck, NEW c \in h, NEW mk \in Markers(h, c)
  PROVE  Truthful(mk, c, h)
<1> SUFFICES ASSUME NEW x \in h, x.suit = c.suit
             PROVE  /\ mk \in {"highest", "only"} => x.rank <= c.rank
                    /\ mk \in {"lowest", "only"}  => x.rank >= c.rank
  BY DEF Truthful
<1> DEFINE family == {y \in h : y.suit = c.suit}
<1>1. x \in family /\ c.rank \in Int /\ x.rank \in Int
  BY DEF Deck
<1>2. CASE family = {c}
  BY <1>1, <1>2
<1>3. CASE family # {c}
  <2>1. mk \in {m \in {"highest", "lowest"} :
               \A y \in family : IF m = "highest" THEN y.rank <= c.rank ELSE y.rank >= c.rank}
    BY <1>3 DEF Markers
  <2> HIDE DEF family
  <2> QED
    BY <1>1, <2>1
<1> QED
  BY <1>2, <1>3

\* A card played is gone from the hands.
LEMMA PlayedCardIsGone ==
  ASSUME TypeOK, CardsInv, NEW p \in Players, NEW c \in hands[p], PlayCard(p, c)
  PROVE  Gone' = Gone \cup {c}
<1> DEFINE held  == [hands EXCEPT ![p] = @ \ {c}]
           plays == Append(trick, Play(p, c))
           said  == IF communication[p] # None /\ communication[p].card = c
                    THEN [communication EXCEPT ![p].played = TRUE]
                    ELSE communication
<1>1. phase = "playing" /\ trick' = plays /\ OnTable = Cards(trick)
  BY DEF PlayCard, OnTable
<1>2. Play(p, c) \in PlayType /\ Play(p, c).card = c /\ plays \in Seq(PlayType)
  BY PlayedType DEF TypeOK, Play, PlayType
<1>3. Cards(plays) = OnTable \cup {c}
  BY <1>1, <1>2, OnePlayMore DEF TypeOK
<1>4. CASE Len(plays) < N
  <2>1. phase' = phase /\ history' = history
    BY <1>4 DEF PlayCard
  <2>2. OnTable' = Cards(trick') /\ CardsWon' = CardsWon
    BY <1>1, <2>1 DEF OnTable, CardsWon, Cards, Plays
  <2> HIDE DEF plays
  <2> QED
    BY <1>1, <1>3, <2>2 DEF Gone
<1>5. CASE ~(Len(plays) < N)
  <2>1. PICK w \in WinningPlays(plays) : Resolve(w, plays, held, said)
    BY <1>5 DEF PlayCard
  <2> DEFINE t == [by |-> w.player, card |-> w.card, plays |-> plays]
  <2>2. history' = Append(history, t) /\ phase' # "playing"
    BY <2>1 DEF Resolve
  <2>3. t \in WonType /\ t.plays = plays
    BY <1>2, WinnerType DEF WonType, PlayType
  <2> HIDE DEF t, plays
  <2>4. CardsWon' = CardsWon \cup Cards(plays)
    BY <2>2, <2>3, OneTrickMore DEF CardsInv
  <2> QED
    BY <1>3, <2>2, <2>4 DEF OnTable, Gone
<1> QED
  BY <1>4, <1>5

\* When play begins nothing has been communicated.
LEMMA InitSaid == Init => SaidInv
BY DEF Init, SaidInv

\* Every step leaves what was communicated right.
LEMMA NextSaid ==
  TypeOK /\ CardsInv /\ CardsInv' /\ SaidInv /\ [Next]_vars => SaidInv'
<1> SUFFICES ASSUME TypeOK, CardsInv, CardsInv', SaidInv, [Next]_vars
             PROVE  SaidInv'
  OBVIOUS
<1>1. ASSUME NEW p \in Players, NEW c \in hands[p], PlayCard(p, c)
      PROVE  SaidInv'
  <2> DEFINE held  == [hands EXCEPT ![p] = @ \ {c}]
             plays == Append(trick, Play(p, c))
             said  == IF communication[p] # None /\ communication[p].card = c
                      THEN [communication EXCEPT ![p].played = TRUE]
                      ELSE communication
  <2>1. mission' = mission /\ communication' = said
    BY <1>1 DEF PlayCard, mission
  <2>2. Gone' = Gone \cup {c}
    BY <1>1, PlayedCardIsGone
  <2>3. /\ held \in [Players -> SUBSET Deck] /\ held[p] = hands[p] \ {c}
        /\ \A q \in Players : q # p => held[q] = hands[q]
    BY DEF TypeOK
  <2>4. /\ \A q \in Players : q # p => said[q] = communication[q]
        /\ communication[p] # None /\ communication[p].card = c =>
             /\ said[p].card = c /\ said[p].played
        /\ ~(communication[p] # None /\ communication[p].card = c) => said = communication
    BY DEF TypeOK, SaidType
  <2> HIDE DEF held, said
  <2>6. ASSUME NEW q \in Players, said[q] # None
        PROVE  RightFor(said[q], held[q], Gone')
    <3>1. CASE q # p
      <4>1. RightFor(communication[q], hands[q], Gone)
        BY <2>4, <2>6, <3>1 DEF SaidInv
      <4> QED
        BY <2>2, <2>3, <2>4, <3>1, <4>1 DEF RightFor
    <3>2. CASE q = p /\ communication[p] # None /\ communication[p].card = c
      BY <2>2, <2>3, <2>4, <3>2 DEF RightFor
    <3>3. CASE q = p /\ ~(communication[p] # None /\ communication[p].card = c)
      <4>1. communication[p] # None /\ said[p] = communication[p] /\ communication[p].card # c
        BY <2>4, <2>6, <3>3
      <4>2. RightFor(communication[p], hands[p], Gone)
        BY <4>1 DEF SaidInv
      <4>3. held[p] \subseteq hands[p]
        BY <2>3
      <4> QED
        BY <2>2, <2>3, <3>3, <4>1, <4>2, <4>3 DEF RightFor, Truthful
    <3> QED
      BY <3>1, <3>2, <3>3
  <2>7. CASE hands' = held
    BY <2>1, <2>6, <2>7 DEF SaidInv, RightFor
  <2>8. ASSUME hands' # held
        PROVE  SaidInv'
    <3>1. mission = 12 /\ \E out \in [Players -> Deck] :
            /\ \A q \in Players : out[q] \in Passable(q, held, said)
            /\ hands' = PassedOn(held, out)
      BY <1>1, <2>8 DEF PlayCard, Resolve, Transfer, TransferDue, held, said
    <3>2. PICK out \in [Players -> Deck] :
            /\ \A q \in Players : out[q] \in Passable(q, held, said)
            /\ hands' = PassedOn(held, out)
      BY <3>1
    <3>3. ASSUME NEW q \in Players, said[q] # None
          PROVE  said[q].played <=> said[q].card \notin hands'[q]
      <4>1. RightFor(said[q], held[q], Gone')
        BY <2>6, <3>3
      <4>2. CASE said[q].played
        <5>1. said[q].card \in Gone'
          BY <4>1, <4>2 DEF RightFor
        <5> QED
          BY <4>2, <5>1 DEF CardsInv
      <4>3. CASE ~said[q].played
        <5>1. said[q].card \in held[q]
          BY <4>1, <4>3 DEF RightFor
        <5>2. out[q] # said[q].card
          BY <3>2, <3>3, <4>3 DEF Passable
        <5>3. said[q].card \in hands'[q]
          BY <3>2, <5>1, <5>2 DEF PassedOn
        <5> QED
          BY <4>3, <5>3
      <4> QED
        BY <4>2, <4>3
    <3>4. ASSUME NEW q \in Players, said[q] # None
          PROVE  said[q].played => said[q].card \in Gone'
      BY <2>6, <3>4 DEF RightFor
    <3> QED
      BY <2>1, <3>1, <3>3, <3>4 DEF SaidInv, RightFor
  <2> QED
    BY <2>7, <2>8
<1>2. ASSUME NEW p \in Players, NEW c \in hands[p],
             NEW mk \in {"highest", "lowest", "only", "hidden"}, Communicate(p, c, mk)
      PROVE  SaidInv'
  <2> DEFINE s == [card |-> c, marker |-> mk, played |-> FALSE]
  <2>1. /\ hands' = hands /\ mission' = mission
        /\ communication' = [communication EXCEPT ![p] = s]
        /\ mk = "hidden" \/ mk \in Markers(hands[p], c)
    BY <1>2 DEF Communicate, mission
  <2>2. Gone' = Gone
    BY <1>2 DEF Communicate, Gone, OnTable, CardsWon, Cards, Plays
  <2>3. hands[p] \in SUBSET Deck
    BY DEF TypeOK
  <2>4. Truthful(mk, c, hands[p])
    <3>1. CASE mk = "hidden"
      BY <3>1 DEF Truthful
    <3>2. CASE mk \in Markers(hands[p], c)
      BY <2>3, <3>2, MarkersAreTrue
    <3> QED
      BY <2>1, <3>1, <3>2
  <2>5. RightFor(s, hands[p], Gone)
    BY <2>4 DEF RightFor
  <2> HIDE DEF s
  <2>6. communication'[p] = s /\ \A q \in Players : q # p => communication'[q] = communication[q]
    BY <2>1 DEF TypeOK
  <2>7. ASSUME NEW q \in Players, communication'[q] # None
        PROVE  RightFor(communication'[q], hands[q], Gone)
    BY <2>5, <2>6, <2>7 DEF SaidInv
  <2> QED
    BY <2>1, <2>2, <2>7 DEF SaidInv, RightFor
<1>3. CASE AdvanceTrick
  <2>1. /\ hands' = hands /\ communication' = communication /\ mission' = mission
        /\ phase = "trick_result" /\ phase' = "playing" /\ trick' = <<>> /\ history' = history
    BY <1>3 DEF AdvanceTrick, mission
  <2>2. OnTable = {} /\ OnTable' = {} /\ CardsWon' = CardsWon
    BY <2>1 DEF OnTable, CardsWon, Cards, Plays
  <2> QED
    BY <2>1, <2>2 DEF SaidInv, RightFor, Gone
<1>4. CASE UNCHANGED vars
  BY <1>4 DEF vars, SaidInv, RightFor, Gone, OnTable, CardsWon, Cards, Plays, mission
<1> QED
  BY <1>1, <1>2, <1>3, <1>4, TricksAssumption DEF Next, PlayAny, SpeakAny

\* A communicated card stays where it was communicated until it is played,
\* and outside mission 12 its marker stays true of the hand.
THEOREM WhatIsSaidHolds == Spec => []CommunicationHolds
<1> DEFINE Inv == TypeOK /\ TableInv /\ HandsInv /\ CardsInv
<1>1. Init => Inv /\ SaidInv
  BY InitType, InitHands, InitCards, InitSaid
<1>2. Inv /\ SaidInv /\ [Next]_vars => Inv' /\ SaidInv'
  BY NextType, NextHands, NextCards, NextSaid
<1>3. SaidInv => CommunicationHolds
  BY DEF SaidInv, RightFor, Truthful, CommunicationHolds
<1> HIDE DEF Inv
<1> QED
  BY <1>1, <1>2, <1>3, PTL DEF Spec
-----------------------------------------------------------------------------
(* Suits that are followed.                                                *)

Suits == Colours \cup {Rocket}

\* By these plays player q has shown to hold no card of the suit s, which was led.
Shown(plays, q, s) ==
  \E i \in DOMAIN plays : plays[i].player = q /\ plays[i].card.suit # s /\ plays[1].card.suit = s
HoldsNone(hand, s)      == \A c \in hand : c.suit # s
PlaysNone(plays, q, s)  == \A i \in DOMAIN plays : plays[i].player = q => plays[i].card.suit # s

\* What was shown by a trick, won or on the table, remains so.
RevokeInv ==
  mission # 12 => \A q \in Players, s \in Suits :
    /\ \A k \in DOMAIN history : Shown(history[k].plays, q, s) =>
         /\ HoldsNone(hands[q], s)
         /\ phase = "playing" => PlaysNone(trick, q, s)
         /\ \A j \in DOMAIN history : j > k => PlaysNone(history[j].plays, q, s)
    /\ phase = "playing" /\ Shown(trick, q, s) => HoldsNone(hands[q], s)

\* One play more shows something of its player only, and only what legalCards found.
LEMMA ShownByPlay ==
  ASSUME TypeOK, NEW p \in Players, NEW c \in hands[p], PlayCard(p, c),
         NEW q \in Players, NEW s \in Suits
  PROVE  LET plays == Append(trick, Play(p, c)) IN
         /\ Shown(plays, q, s) => Shown(trick, q, s) \/ (q = p /\ HoldsNone(hands[p], s))
         /\ PlaysNone(trick, q, s) /\ (q = p => c.suit # s) => PlaysNone(plays, q, s)
<1> DEFINE plays == Append(trick, Play(p, c))
<1>1. /\ trick \in Seq(PlayType) /\ Play(p, c) \in PlayType
      /\ Play(p, c).player = p /\ Play(p, c).card = c
  BY DEF TypeOK, Play, PlayType
<1>2. /\ DOMAIN plays = DOMAIN trick \cup {Len(trick) + 1}
      /\ \A i \in DOMAIN trick : plays[i] = trick[i]
      /\ plays[Len(trick) + 1] = Play(p, c)
  BY <1>1
<1>3. trick # <<>> => 1 \in DOMAIN trick
  BY <1>1
<1>4. trick = <<>> => DOMAIN trick = {} /\ plays[1] = Play(p, c)
  BY <1>1, <1>2
<1>5. c \in LegalCards(p)
  BY DEF PlayCard
<1> HIDE DEF plays
<1>6. ASSUME Shown(plays, q, s)
      PROVE  Shown(trick, q, s) \/ (q = p /\ HoldsNone(hands[p], s))
  <2>1. PICK i \in DOMAIN plays : plays[i].player = q /\ plays[i].card.suit # s /\ plays[1].card.suit = s
    BY <1>6 DEF Shown
  <2>2. trick # <<>> /\ plays[1] = trick[1] /\ trick[1].card.suit = s
    BY <1>2, <1>3, <1>4, <2>1
  <2>3. CASE i \in DOMAIN trick
    BY <1>2, <2>1, <2>2, <2>3 DEF Shown
  <2>4. CASE i = Len(trick) + 1
    <3>1. q = p /\ c.suit # s
      BY <1>1, <1>2, <2>1, <2>4
    <3>2. HoldsNone(hands[p], s)
      BY <1>5, <2>2, <3>1 DEF LegalCards, HoldsNone
    <3> QED
      BY <3>1, <3>2
  <2> QED
    BY <1>2, <2>1, <2>3, <2>4
<1>7. PlaysNone(trick, q, s) /\ (q = p => c.suit # s) => PlaysNone(plays, q, s)
  BY <1>1, <1>2 DEF PlaysNone
<1> QED
  BY <1>6, <1>7 DEF plays

\* At the beginning nothing has been shown.
LEMMA InitRevoke == Init => RevokeInv
<1> SUFFICES ASSUME Init PROVE RevokeInv
  OBVIOUS
<1>1. DOMAIN trick = {} /\ DOMAIN history = {}
  BY DEF Init
<1> QED
  BY <1>1 DEF RevokeInv, Shown

\* Every step keeps to what was shown.
LEMMA NextRevoke == TypeOK /\ CardsInv /\ RevokeInv /\ [Next]_vars => RevokeInv'
<1> SUFFICES ASSUME TypeOK, CardsInv, RevokeInv, [Next]_vars PROVE RevokeInv'
  OBVIOUS
<1>1. ASSUME NEW p \in Players, NEW c \in hands[p], PlayCard(p, c)
      PROVE  RevokeInv'
  <2> DEFINE held  == [hands EXCEPT ![p] = @ \ {c}]
             plays == Append(trick, Play(p, c))
             said  == IF communication[p] # None /\ communication[p].card = c
                      THEN [communication EXCEPT ![p].played = TRUE]
                      ELSE communication
  <2>1. phase = "playing" /\ mission' = mission /\ trick' = plays
    BY <1>1 DEF PlayCard, mission
  <2>2. \A q \in Players : held[q] \subseteq hands[q]
    BY DEF TypeOK
  <2>3. \A q \in Players, s \in Suits :
          /\ Shown(plays, q, s) => Shown(trick, q, s) \/ (q = p /\ HoldsNone(hands[p], s))
          /\ PlaysNone(trick, q, s) /\ (q = p => c.suit # s) => PlaysNone(plays, q, s)
    BY <1>1, ShownByPlay
  <2>4. plays \in Seq(PlayType)
    BY PlayedType
  <2> SUFFICES ASSUME mission # 12, NEW q \in Players, NEW s \in Suits
               PROVE  /\ \A k \in DOMAIN history' : Shown(history'[k].plays, q, s) =>
                           /\ HoldsNone(hands'[q], s)
                           /\ phase' = "playing" => PlaysNone(trick', q, s)
                           /\ \A j \in DOMAIN history' : j > k => PlaysNone(history'[j].plays, q, s)
                      /\ phase' = "playing" /\ Shown(trick', q, s) => HoldsNone(hands'[q], s)
    BY <2>1 DEF RevokeInv, Shown, HoldsNone, PlaysNone
  <2> HIDE DEF held, said, plays
  <2>5. /\ \A k \in DOMAIN history : Shown(history[k].plays, q, s) =>
             /\ HoldsNone(hands[q], s) /\ PlaysNone(trick, q, s)
             /\ \A j \in DOMAIN history : j > k => PlaysNone(history[j].plays, q, s)
        /\ Shown(trick, q, s) => HoldsNone(hands[q], s)
    BY <2>1 DEF RevokeInv
  <2>6. HoldsNone(hands[q], s) => HoldsNone(held[q], s) /\ (q = p => c.suit # s)
    BY <2>2 DEF HoldsNone
  <2>7. /\ Shown(plays, q, s) => HoldsNone(held[q], s)
        /\ \A k \in DOMAIN history : Shown(history[k].plays, q, s) => PlaysNone(plays, q, s)
    BY <2>3, <2>5, <2>6
  <2>8. CASE Len(plays) < N
    <3>1. hands' = held /\ history' = history /\ phase' = phase
      BY <1>1, <2>8 DEF PlayCard, held, plays
    <3> QED
      BY <2>1, <2>5, <2>6, <2>7, <3>1
  <2>9. CASE ~(Len(plays) < N)
    <3>1. PICK w \in WinningPlays(plays) : Resolve(w, plays, held, said)
      BY <1>1, <2>9 DEF PlayCard, held, plays, said
    <3>2. hands' = held /\ phase' # "playing"
      BY <3>1 DEF Resolve, TransferDue
    <3> DEFINE t == [by |-> w.player, card |-> w.card, plays |-> plays]
    <3>3. t \in WonType /\ t.plays = plays /\ history' = Append(history, t)
      BY <2>4, <3>1, WinnerType DEF WonType, PlayType, Resolve
    <3> HIDE DEF t
    <3>4. /\ DOMAIN history' = DOMAIN history \cup {Len(history) + 1}
          /\ \A k \in DOMAIN history : history'[k] = history[k] /\ ~(k > Len(history) + 1)
          /\ history'[Len(history) + 1] = t /\ ~(Len(history) + 1 > Len(history) + 1)
      BY <3>3 DEF CardsInv
    <3>5. ASSUME NEW k \in DOMAIN history', Shown(history'[k].plays, q, s)
          PROVE  /\ HoldsNone(held[q], s)
                 /\ \A j \in DOMAIN history' : j > k => PlaysNone(history'[j].plays, q, s)
      <4>1. CASE k \in DOMAIN history
        BY <2>5, <2>6, <2>7, <3>3, <3>4, <3>5, <4>1
      <4>2. CASE k = Len(history) + 1
        BY <2>7, <3>3, <3>4, <3>5, <4>2
      <4> QED
        BY <3>4, <4>1, <4>2
    <3> QED
      BY <3>2, <3>5
  <2> QED
    BY <2>8, <2>9
<1>2. ASSUME NEW p \in Players, NEW c \in hands[p],
             NEW mk \in {"highest", "lowest", "only", "hidden"}, Communicate(p, c, mk)
      PROVE  RevokeInv'
  BY <1>2 DEF Communicate, RevokeInv, Shown, HoldsNone, PlaysNone, mission
<1>3. CASE AdvanceTrick
  <2>1. DOMAIN trick' = {}
    BY <1>3 DEF AdvanceTrick
  <2> QED
    BY <1>3, <2>1 DEF AdvanceTrick, RevokeInv, Shown, HoldsNone, PlaysNone, mission
<1>4. CASE UNCHANGED vars
  BY <1>4 DEF vars, RevokeInv, Shown, HoldsNone, PlaysNone, mission
<1> QED
  BY <1>1, <1>2, <1>3, <1>4, TricksAssumption DEF Next, PlayAny, SpeakAny

\* legalCards, play_card: whoever did not follow suit holds none of it, and plays
\* none of it later (outside mission 12, where cards are passed on).
THEOREM SuitIsFollowed == Spec => []NoRevoke
<1> DEFINE Inv == TypeOK /\ TableInv /\ HandsInv /\ CardsInv
<1>1. Init => Inv /\ RevokeInv
  BY InitType, InitHands, InitCards, InitRevoke
<1>2. Inv /\ RevokeInv /\ [Next]_vars => Inv' /\ RevokeInv'
  BY NextType, NextHands, NextCards, NextRevoke
<1>3. Inv /\ RevokeInv => NoRevoke
  <2> SUFFICES ASSUME TypeOK, CardsInv, RevokeInv, mission # 12,
                      NEW k \in DOMAIN history, NEW i \in DOMAIN history[k].plays,
                      history[k].plays[i].card.suit # history[k].plays[1].card.suit
               PROVE  LET plays == history[k].plays IN
                      /\ \A c \in hands[plays[i].player] : c.suit # plays[1].card.suit
                      /\ \A j \in DOMAIN history : j > k =>
                           \A x \in Plays(history[j].plays) :
                             x.player = plays[i].player => x.card.suit # plays[1].card.suit
    BY DEF NoRevoke
  <2> DEFINE plays == history[k].plays
             q == plays[i].player
             s == plays[1].card.suit
  <2>1. plays \in Seq(PlayType)
    <3>1. history[k] \in WonType
      BY DEF CardsInv
    <3> QED
      BY <3>1 DEF WonType
  <2>2. plays[i] \in PlayType /\ plays[1] \in PlayType
    BY <2>1
  <2>3. q \in Players /\ s \in Suits
    BY <2>2 DEF PlayType, Deck, Suits
  <2>4. Shown(plays, q, s)
    BY DEF Shown
  <2> HIDE DEF q, s
  <2>5. /\ HoldsNone(hands[q], s)
        /\ \A j \in DOMAIN history : j > k => PlaysNone(history[j].plays, q, s)
    BY <2>3, <2>4 DEF RevokeInv
  <2> QED
    BY <2>5 DEF HoldsNone, PlaysNone, Plays, q, s
<1> HIDE DEF Inv
<1> QED
  BY <1>1, <1>2, <1>3, PTL DEF Spec
=============================================================================
