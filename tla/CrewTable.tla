----------------------------- MODULE CrewTable ------------------------------
(***************************************************************************)
(* The table the preparation and the tricks share: seats, deck, deal, and  *)
(* what a preparation may have fixed when play begins                      *)
(* (src/src/game/engine.ts, src/shared/cards.ts).                          *)
(*                                                                         *)
(* The deck is a parameter: four colours of nine and four rockets in the   *)
(* program.  Players are their seats 0..N-1.                               *)
(***************************************************************************)
EXTENDS TaskTokens

CONSTANTS
  N,           \* players.length
  Colours,     \* the suits that are not the rocket: four in the program
  Black,       \* the colour mission 46 is about
  Rocket,      \* the trump suit
  TopRank,     \* highest colour card: 9
  TopRocket,   \* highest rocket, held by the commander: 4
  None         \* null

Players == 0 .. N - 1
Deck == [suit : Colours, rank : 1 .. TopRank] \cup [suit : {Rocket}, rank : 1 .. TopRocket]

\* floor(40 / players): isFinalTrick compares with it.
LastTrick == Cardinality(Deck) \div N

\* Cards are dealt one by one round the table from the first seat.
DealtEvenly(d) ==
  /\ d \in [Players -> SUBSET Deck]
  /\ \A p, q \in Players : p # q => d[p] \cap d[q] = {}
  /\ UNION {d[p] : p \in Players} = Deck
  /\ \A p \in Players :
       Cardinality(d[p]) = LastTrick + (IF p < Cardinality(Deck) % N THEN 1 ELSE 0)

SeatAfter(p) == IF p + 1 < N THEN p + 1 ELSE 0
IsRocket(c)  == c.suit = Rocket
-----------------------------------------------------------------------------
(* What the preparation can have fixed.                                    *)

\* One member owns all goals, or the shares differ by at most one; in the
\* draft they go round the table from the commander.  Five players may then
\* pass one goal on.
Shared(m, captain, o) ==
  LET Share(p) == Cardinality({t \in DOMAIN o : o[t] = p})
      Turn(p)  == (p - captain + N) % N
  IN CASE Assignment(m) = "decision" ->
            \E p \in Players \ {captain} : \A t \in DOMAIN o : o[t] = p
       [] Assignment(m) = "distribution" ->
            \A p, q \in Players : Share(p) <= Share(q) + 1
       [] Assignment(m) = "draft" ->
            \A p \in Players : Share(p) = (Cardinality(DOMAIN o) + N - 1 - Turn(p)) \div N
OwnersOf(m, captain, n) ==
  LET drafted == {o \in [1 .. n -> Players] : Shared(m, captain, o)}
  IN IF N = 5 /\ FivePlayerTransfer(m)
     THEN drafted \cup {[o EXCEPT ![t] = p] : o \in drafted, t \in 1 .. n, p \in Players}
     ELSE drafted

\* Mission 23 exchanges two tokens, mission 40 moves one to a goal without.
TokensOf(m, n) ==
  LET f == TokensDealt(m, n)
      Bare(i) == f[i].kind = "none"
      Editable(i, j) == \/ m = 23 /\ ~Bare(i) /\ ~Bare(j)
                        \/ m = 40 /\ ~Bare(i) /\ Bare(j)
  IN {f} \cup {[f EXCEPT ![x[1]] = f[x[2]], ![x[2]] = f[x[1]]] :
                 x \in {y \in (1 .. n) \X (1 .. n) : Editable(y[1], y[2])}}

\* The seats a role can fall to: selectedPlayerId, secondaryPlayerId and
\* silentPlayerId.  In mission 46 it is the seat after the highest black card.
Selected(m, d) ==
  CASE m \in {5, 33, 41, 50} -> Players
    [] m = 46 -> {SeatAfter(p) : p \in {q \in Players : [suit |-> Black, rank |-> TopRank] \in d[q]}}
    [] OTHER  -> {None}
Secondary(m, first)   == IF m = 50 THEN Players \ {first} ELSE {None}
Silent(m, captain)    == IF m = 11 THEN Players \ {captain} ELSE {None}
Commander(d) == CHOOSE p \in Players : [suit |-> Rocket, rank |-> TopRocket] \in d[p]
=============================================================================
