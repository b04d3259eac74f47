------------------------ MODULE CrewTricksAuditProofs -----------------------
(***************************************************************************)
(* The goals are booked as TaskOrder says, the verdict of every attempt is *)
(* the one of the log book, and a failure is final, for every table, deck, *)
(* mission and deal the assumption of CrewTricks allows.                   *)
(***************************************************************************)
EXTENDS CrewTricksWhatIf, CrewTricksProofs, SequenceTheorems

Order == INSTANCE TaskOrderProofs WITH
           Owners <- Players,
           TokenLayouts <- UNION {TokensOf(m, TaskCount[m]) : m \in MissionIds},
           token <- setup.token, owner <- setup.owner, taken <- Batches

-----------------------------------------------------------------------------
(* The operators of an instance are those of the instantiated module.      *)

\* Cardinality means the same inside an instance of TaskOrder.
LEMMA SameCardinality ==
  \A S : Order!Cardinality(S) = Cardinality(S) /\ Book!Cardinality(S) = Cardinality(S)
<1>1. ASSUME NEW S PROVE Order!Cardinality(S) = Cardinality(S)
  BY DEF Order!Cardinality, Cardinality
<1>2. ASSUME NEW S PROVE Book!Cardinality(S) = Cardinality(S)
  BY DEF Book!Cardinality, Cardinality
<1> QED
  BY <1>1, <1>2

\* The orderings named by the instances with and without the proofs agree.
LEMMA SameOrders ==
  ASSUME NEW tok, NEW batches
  PROVE  Order!OrderExists(tok, batches) <=> Book!OrderExists(tok, batches)
<1>1. Order!Orderings(DOMAIN tok, batches) = Book!Orderings(DOMAIN tok, batches)
  BY SameCardinality DEF Order!Orderings, Book!Orderings
<1>2. \A pos : Order!Obeys(pos, tok) <=> Book!Obeys(pos, tok)
  BY SameCardinality, Zenon DEF Order!Obeys, Book!Obeys
<1> QED
  BY <1>1, <1>2, Zenon DEF Order!OrderExists, Book!OrderExists

\* So does the test of the engine for a batch.
LEMMA SameTest ==
  ASSUME NEW tok, NEW done, NEW caught
  PROVE  Order!BadTaskOrder(tok, done, caught) <=> BadTaskOrder(tok, done, caught)
BY SameCardinality DEF Order!BadTaskOrder, BadTaskOrder

\* The test of the engine, of batches of goals 1..n: it fails exactly when no
\* ordering is left.
Layouts(n) == [1 .. n -> [kind : TokenKinds, value : Nat]]
Batch(n)   == [by : Players, goals : SUBSET (1 .. n)]
Captured(batches) == UNION {batches[k].goals : k \in 1 .. Len(batches)}

\* The engine's test fails exactly when no ordering of the goals exists.
LEMMA TestIsRight ==
  ASSUME NEW n \in Nat, NEW tok \in Layouts(n), NEW batches \in Seq(Batch(n)), NEW b \in Batch(n),
         b.goals \cap Captured(batches) = {}, Book!OrderExists(tok, batches)
  PROVE  BadTaskOrder(tok, Captured(batches), b.goals) <=> ~Book!OrderExists(tok, Append(batches, b))
<1>1. tok \in [1 .. n -> Order!TokenType]
  BY DEF Order!TokenType, Order!TokenKinds, TokenKinds, Layouts
<1>2. Batch(n) \subseteq Order!BatchType(n)
  BY DEF Order!BatchType, Batch
<1>3. batches \in Seq(Order!BatchType(n)) /\ b \in Order!BatchType(n)
  BY <1>2
<1>4. Order!GoalsOf(batches) = Captured(batches)
  BY DEF Order!GoalsOf, Captured
<1>5. Order!OrderExists(tok, batches)
  BY SameOrders
<1>6. Order!OrderExists(tok, Append(batches, b))
        => ~Order!BadTaskOrder(tok, Order!GoalsOf(batches), b.goals)
  BY <1>1, <1>3, <1>4, Order!TestIsNecessary
<1>7. ~Order!BadTaskOrder(tok, Order!GoalsOf(batches), b.goals)
        => Order!OrderExists(tok, Append(batches, b))
  BY <1>1, <1>3, <1>4, <1>5, Order!TestIsSufficient
<1> QED
  BY <1>4, <1>6, <1>7, SameOrders, SameTest

\* The batches with one more.
LEMMA OneBatchMore ==
  ASSUME NEW n \in Nat, NEW batches \in Seq(Batch(n)), NEW b \in Batch(n)
  PROVE  /\ Append(batches, b) \in Seq(Batch(n))
         /\ Captured(Append(batches, b)) = Captured(batches) \cup b.goals
<1>1. Batch(n) \subseteq Order!BatchType(n)
  BY DEF Order!BatchType, Batch
<1>2. batches \in Seq(Order!BatchType(n)) /\ b \in Order!BatchType(n)
  BY <1>1
<1>3. Order!GoalsOf(Append(batches, b)) = Order!GoalsOf(batches) \cup b.goals
  BY <1>2, Order!OneMoreBatch
<1> QED
  BY <1>3 DEF Order!GoalsOf, Captured

-----------------------------------------------------------------------------
(* The tokens of a mission have an ordering.                               *)

\* Exchanging the tokens of two goals exchanges their places.
LEMMA ExchangedTokens ==
  ASSUME NEW n \in Nat, NEW f \in Layouts(n), Order!OrderExists(f, <<>>), NEW i \in 1 .. n, NEW j \in 1 .. n
  PROVE  LET g == [f EXCEPT ![i] = f[j], ![j] = f[i]]
         IN  g \in Layouts(n) /\ Order!OrderExists(g, <<>>)
<1> DEFINE g == [f EXCEPT ![i] = f[j], ![j] = f[i]]
           s == [t \in 1 .. n |-> IF t = i THEN j ELSE IF t = j THEN i ELSE t]
<1>1. DOMAIN f = 1 .. n /\ DOMAIN g = 1 .. n /\ g \in Layouts(n)
  BY DEF Layouts
<1>2. \A t \in 1 .. n : g[t] = f[s[t]] /\ s[t] \in 1 .. n /\ s[s[t]] = t
  BY <1>1
<1>3. PICK pos \in Order!Placing(n) : Order!Obeys(pos, f)
  BY <1>1, Order!OrderingsArePlacings
<1> DEFINE new == [t \in 1 .. n |-> pos[s[t]]]
<1>4. \A t \in 1 .. n : new[t] = pos[s[t]]
  OBVIOUS
<1>5. new \in Order!Placing(n)
  <2>1. new \in [1 .. n -> 1 .. n]
    BY <1>2, <1>3 DEF Order!Placing
  <2>2. ASSUME NEW x \in 1 .. n PROVE \E t \in 1 .. n : new[t] = x
    <3>1. PICK u \in 1 .. n : pos[u] = x
      BY <1>3 DEF Order!Placing
    <3> HIDE DEF s, new
    <3> QED
      BY <1>2, <1>4, <3>1
  <2> QED
    BY <2>1, <2>2 DEF Order!Placing
<1> HIDE DEF g, s, new
<1>6. Order!Obeys(new, g)
  BY <1>1, <1>2, <1>3, <1>4, SMTT(30) DEF Order!Obeys
<1>7. Order!Follows(n, new, <<>>)
  BY DEF Order!Follows
<1>8. Order!OrderExists(g, <<>>)
  BY <1>1, <1>5, <1>6, <1>7, Order!OrderingsArePlacings
<1> QED
  BY <1>1, <1>8 DEF g

\* Dealt in order, every goal can have the place of its number, but the goal with
\* omega goes to the end and those after it move up.
LEMMA DealtTokens ==
  ASSUME NEW m \in 1 .. 50, NEW n \in Nat
  PROVE  TokensDealt(m, n) \in Layouts(n) /\ Order!OrderExists(TokensDealt(m, n), <<>>)
<1> DEFINE a == AbsoluteCount(m)
           k == AbsoluteCount(m) + RelativeCount(m)
           f == TokensDealt(m, n)
           pos == [i \in 1 .. n |-> IF HasOmega(m) /\ i > k THEN IF i = k + 1 THEN n ELSE i - 1 ELSE i]
<1>1. a \in Nat /\ RelativeCount(m) \in Nat /\ k \in Nat /\ a <= k
  <2>1. AbsoluteCount(m) \in Nat
    BY DEF AbsoluteCount
  <2>2. RelativeCount(m) \in Nat
    BY DEF RelativeCount
  <2> QED
    BY <2>1, <2>2
<1>2. f = [i \in 1 .. n |->
             IF i <= a THEN [kind |-> "absolute", value |-> i]
             ELSE IF i <= k THEN [kind |-> "relative", value |-> i - a]
             ELSE IF HasOmega(m) /\ i = k + 1 THEN [kind |-> "omega", value |-> 0]
             ELSE [kind |-> "none", value |-> 0]]
  BY <1>1 DEF TokensDealt, Token
<1> HIDE DEF f, a, k
<1>3. f \in Layouts(n) /\ DOMAIN f = 1 .. n
  <2>1. ASSUME NEW i \in 1 .. n PROVE f[i] \in [kind : TokenKinds, value : Nat]
    BY <1>1, <1>2 DEF TokenKinds
  <2> QED
    BY <1>2, <2>1 DEF Layouts
<1>4. pos \in [1 .. n -> 1 .. n]
  BY <1>1
<1>5. ASSUME NEW x \in 1 .. n PROVE \E t \in 1 .. n : pos[t] = x
  <2>1. CASE ~HasOmega(m) \/ x <= k
    BY <1>1, <2>1
  <2>2. CASE HasOmega(m) /\ ~(x <= k) /\ x = n
    <3>1. k + 1 \in 1 .. n
      BY <1>1, <2>2
    <3> QED
      BY <1>1, <2>2, <3>1
  <2>3. CASE HasOmega(m) /\ ~(x <= k) /\ x # n
    <3>1. x + 1 \in 1 .. n /\ x + 1 > k /\ x + 1 # k + 1
      BY <1>1, <2>3
    <3> QED
      BY <1>1, <2>3, <3>1
  <2> QED
    BY <2>1, <2>2, <2>3
<1>6. pos \in Order!Placing(n)
  BY <1>4, <1>5 DEF Order!Placing
<1>7. Order!Obeys(pos, f)
  <2>1. \A t \in 1 .. n : t <= k => pos[t] = t
    BY <1>1
  <2>2. \A t \in 1 .. n : HasOmega(m) /\ t = k + 1 => pos[t] = n
    BY <1>1
  <2>3. \A t \in 1 .. n : f[t].kind = "absolute" => t <= k /\ f[t].value = t
    BY <1>1, <1>2
  <2>4. \A t \in 1 .. n : f[t].kind = "relative" => t <= k /\ f[t].value = t - a
    BY <1>1, <1>2
  <2>5. \A t \in 1 .. n : f[t].kind = "omega" => HasOmega(m) /\ t = k + 1
    BY <1>1, <1>2
  <2>6. Order!Cardinality(1 .. n) = n
    BY SameCardinality, FS_Interval
  <2> HIDE DEF pos
  <2>7. ASSUME NEW t \in 1 .. n, NEW u \in 1 .. n, f[t].kind = "relative", f[u].kind = "relative",
               f[t].value < f[u].value
        PROVE  pos[t] < pos[u]
    BY <1>1, <2>1, <2>4, <2>7
  <2> QED
    BY <1>3, <2>1, <2>2, <2>3, <2>5, <2>6, <2>7 DEF Order!Obeys
<1>8. Order!Follows(n, pos, <<>>)
  BY DEF Order!Follows
<1> QED
  BY <1>3, <1>6, <1>7, <1>8, Order!OrderingsArePlacings DEF f

\* And so do the tokens after an exchange or a move in the preparation.
LEMMA TokensHaveOrder ==
  ASSUME NEW m \in 1 .. 50, NEW n \in Nat, NEW f \in TokensOf(m, n)
  PROVE  f \in Layouts(n) /\ Book!OrderExists(f, <<>>)
<1> DEFINE d == TokensDealt(m, n)
<1>1. d \in Layouts(n) /\ Order!OrderExists(d, <<>>)
  BY DealtTokens
<1>2. f = d \/ \E i, j \in 1 .. n : f = [d EXCEPT ![i] = d[j], ![j] = d[i]]
  BY DEF TokensOf
<1> HIDE DEF d
<1>3. f \in Layouts(n) /\ Order!OrderExists(f, <<>>)
  BY <1>1, <1>2, ExchangedTokens, SMTT(30)
<1> QED
  BY <1>3, SameOrders

-----------------------------------------------------------------------------
(* The tricks that captured a goal, in their order.                        *)

UpTo(W, k) == {j \in W : j <= k}
Nth(W, i)  == CHOOSE k \in W : Cardinality(UpTo(W, k)) = i

\* A set of numbers up to n is finite, and so are its parts.
LEMMA PartsAreFinite ==
  ASSUME NEW n \in Nat, NEW W \in SUBSET (1 .. n)
  PROVE  /\ IsFiniteSet(W) /\ Cardinality(W) \in Nat
         /\ \A S \in SUBSET W : IsFiniteSet(S) /\ Cardinality(S) \in Nat
<1>1. IsFiniteSet(1 .. n)
  BY FS_Interval
<1>2. W \subseteq 1 .. n
  OBVIOUS
<1>3. IsFiniteSet(W)
  BY <1>1, <1>2, FS_Subset
<1>4. \A S \in SUBSET W : IsFiniteSet(S)
  BY <1>3, FS_Subset
<1> QED
  BY <1>3, <1>4, FS_CardinalityType

\* Each number of a set has a place of its own in it.
LEMMA PlacesInSet ==
  ASSUME NEW n \in Nat, NEW W \in SUBSET (1 .. n)
  PROVE  \A j, k \in W : Cardinality(UpTo(W, j)) = Cardinality(UpTo(W, k)) => j = k
<1>1. ASSUME NEW j \in W, NEW k \in W, j < k PROVE Cardinality(UpTo(W, j)) # Cardinality(UpTo(W, k))
  <2>0. \A x \in W : x \in Nat
    OBVIOUS
  <2>1. j \in Nat /\ k \in Nat /\ \A x \in W : x <= j => x <= k
    BY <1>1, <2>0
  <2>2. k <= k /\ ~(k <= j)
    BY <1>1, <2>1
  <2>3. UpTo(W, j) \in SUBSET UpTo(W, k) /\ k \in UpTo(W, k) /\ k \notin UpTo(W, j)
    BY <2>1, <2>2 DEF UpTo
  <2>4. UpTo(W, k) \in SUBSET W
    BY DEF UpTo
  <2>5. IsFiniteSet(UpTo(W, k))
    BY <2>4, PartsAreFinite
  <2> QED
    BY <2>3, <2>5, FS_Subset
<1>2. \A j, k \in W : j < k \/ k < j \/ j = k
  OBVIOUS
<1> QED
  BY <1>1, <1>2

\* There is a number for every place.
LEMMA NthIs ==
  ASSUME NEW n \in Nat, NEW W \in SUBSET (1 .. n), NEW i \in 1 .. Cardinality(W)
  PROVE  Nth(W, i) \in W /\ Cardinality(UpTo(W, Nth(W, i))) = i
<1>1. Cardinality(W) \in Nat /\ i - 1 \in Nat /\ i - 1 < Order!Cardinality(W)
  <2>1. Cardinality(W) \in Nat
    BY PartsAreFinite
  <2>2. Order!Cardinality(W) = Cardinality(W)
    BY SameCardinality
  <2> QED
    BY <2>1, <2>2
<1>2. PICK x \in W : Order!Cardinality(Order!Below(W, x)) = i - 1
  BY <1>1, Order!KthNumber
<1>3. x \in 1 .. n /\ \A y \in W : y \in 1 .. n
  OBVIOUS
<1>4. UpTo(W, x) = Order!Below(W, x) \cup {x} /\ x \notin Order!Below(W, x)
  <2>1. \A y \in W : y <= x <=> y < x \/ y = x
    BY <1>3
  <2>2. ~(x < x)
    BY <1>3
  <2> QED
    BY <2>1, <2>2 DEF UpTo, Order!Below
<1>5. IsFiniteSet(Order!Below(W, x)) /\ Cardinality(Order!Below(W, x)) = i - 1
  <2>1. Order!Below(W, x) \in SUBSET W
    BY DEF Order!Below
  <2> QED
    BY <1>2, <2>1, PartsAreFinite, SameCardinality
<1>6. Cardinality(UpTo(W, x)) = (i - 1) + 1
  BY <1>4, <1>5, FS_AddElement
<1>7. Cardinality(UpTo(W, x)) = i
  BY <1>6
<1> QED
  BY <1>7 DEF Nth

\* A greater number is the last.
LEMMA NthOfMore ==
  ASSUME NEW n \in Nat, NEW W \in SUBSET (1 .. n)
  PROVE  LET V == W \cup {n + 1}
         IN  /\ Cardinality(V) = Cardinality(W) + 1
             /\ \A i \in 1 .. Cardinality(W) : Nth(V, i) = Nth(W, i)
             /\ Nth(V, Cardinality(W) + 1) = n + 1
<1> DEFINE V == W \cup {n + 1}
           c == Cardinality(W)
<1>0. \A k \in W : k \in 1 .. n
  OBVIOUS
<1>1. n + 1 \notin W /\ IsFiniteSet(W) /\ c \in Nat
  BY <1>0, PartsAreFinite
<1>2. Cardinality(V) = c + 1
  BY <1>1, FS_AddElement
<1>3. n + 1 \in Nat /\ V \in SUBSET (1 .. n + 1)
  BY <1>0
<1>4. \A k \in W : UpTo(V, k) = UpTo(W, k)
  BY <1>0 DEF UpTo
<1>5. UpTo(V, n + 1) = V
  <2>1. \A k \in V : k <= n + 1
    BY <1>0
  <2> QED
    BY <2>1 DEF UpTo
<1> HIDE DEF V, c
<1>6. ASSUME NEW i \in 1 .. c PROVE Nth(V, i) = Nth(W, i)
  <2>1. Nth(W, i) \in W /\ Cardinality(UpTo(W, Nth(W, i))) = i
    BY <1>6, NthIs DEF c
  <2>2. i \in 1 .. Cardinality(V)
    BY <1>1, <1>2
  <2>3. Nth(V, i) \in V /\ Cardinality(UpTo(V, Nth(V, i))) = i
    BY <1>3, <2>2, NthIs
  <2>4. Nth(W, i) \in V /\ Cardinality(UpTo(V, Nth(W, i))) = i
    BY <1>4, <2>1 DEF V
  <2> QED
    BY <1>3, <2>3, <2>4, PlacesInSet
<1>7. Nth(V, c + 1) = n + 1
  <2>1. c + 1 \in 1 .. Cardinality(V)
    BY <1>1, <1>2
  <2>2. Nth(V, c + 1) \in V /\ Cardinality(UpTo(V, Nth(V, c + 1))) = c + 1
    BY <1>3, <2>1, NthIs
  <2>3. n + 1 \in V /\ Cardinality(UpTo(V, n + 1)) = c + 1
    BY <1>2, <1>5 DEF V
  <2> QED
    BY <1>3, <2>2, <2>3, PlacesInSet
<1> QED
  BY <1>2, <1>6, <1>7 DEF V, c

-----------------------------------------------------------------------------
(* The batches of the tricks won.                                          *)

GoalsIn(goal, plays) == {t \in DOMAIN goal : goal[t] \in Cards(plays)}
Scored(won, goal)    == {k \in DOMAIN won : GoalsIn(goal, won[k].plays) # {}}
BatchOf(t, goal)     == [by |-> t.by, goals |-> GoalsIn(goal, t.plays)]

\* Every batch is a trick with goals, in the order of the tricks.
LEMMA BatchesAre ==
  ASSUME NEW won, NEW goal
  PROVE  LET scored == Scored(won, goal)
         IN  BatchesOf(won, goal) = [i \in 1 .. Cardinality(scored) |-> BatchOf(won[Nth(scored, i)], goal)]
<1>1. Scored(won, goal) = {k \in DOMAIN won : {t \in DOMAIN goal : goal[t] \in Cards(won[k].plays)} # {}}
  BY DEF Scored, GoalsIn
<1>2. Scored(won, goal) \in SUBSET DOMAIN won
  BY DEF Scored
<1> QED
  BY <1>1, <1>2 DEF BatchesOf, BatchOf, GoalsIn, Nth, UpTo

\* Without tricks there are no batches.
LEMMA NoBatches ==
  ASSUME NEW goal
  PROVE  BatchesOf(<<>>, goal) = <<>>
<1>1. Scored(<<>>, goal) = {}
  BY DEF Scored
<1>2. Cardinality(Scored(<<>>, goal)) = 0
  BY <1>1, FS_EmptySet
<1> QED
  BY <1>2, BatchesAre

\* A batch names a player and some of the goals.
LEMMA BatchesType ==
  ASSUME NEW n \in Nat, NEW goal, DOMAIN goal = 1 .. n, NEW won \in Seq(WonType)
  PROVE  /\ BatchesOf(won, goal) \in Seq(Batch(n))
         /\ Len(BatchesOf(won, goal)) = Cardinality(Scored(won, goal))
         /\ Captured(BatchesOf(won, goal)) =
              {t \in 1 .. n : \E k \in DOMAIN won : goal[t] \in Cards(won[k].plays)}
<1> DEFINE scored == Scored(won, goal)
           c == Cardinality(scored)
           batches == BatchesOf(won, goal)
<1>1. Len(won) \in Nat /\ DOMAIN won = 1 .. Len(won) /\ scored \in SUBSET (1 .. Len(won))
  BY DEF Scored
<1>2. batches = [i \in 1 .. c |-> BatchOf(won[Nth(scored, i)], goal)]
  BY BatchesAre
<1> HIDE DEF batches
<1>3. \A k \in scored : BatchOf(won[k], goal) \in Batch(n)
  <2>1. \A k \in scored : won[k] \in WonType
    BY <1>1
  <2>2. \A k \in scored : won[k].by \in Players /\ GoalsIn(goal, won[k].plays) \in SUBSET (1 .. n)
    BY <2>1 DEF GoalsIn, WonType
  <2> QED
    BY <2>2 DEF BatchOf, Batch
<1>4. \A k : k \in scored <=> k \in DOMAIN won /\ GoalsIn(goal, won[k].plays) # {}
  BY DEF Scored
<1> HIDE DEF scored
<1>5. c \in Nat /\ \A i \in 1 .. c : Nth(scored, i) \in scored
  BY <1>1, PartsAreFinite, NthIs
<1>6. batches \in [1 .. c -> Batch(n)]
  BY <1>2, <1>3, <1>5
<1>7. batches \in Seq(Batch(n)) /\ Len(batches) = c
  BY <1>5, <1>6, SeqDef
<1>8. ASSUME NEW t \in Captured(batches)
      PROVE  t \in 1 .. n /\ \E k \in DOMAIN won : goal[t] \in Cards(won[k].plays)
  <2>1. PICK i \in 1 .. c : t \in batches[i].goals
    BY <1>7 DEF Captured
  <2>2. Nth(scored, i) \in DOMAIN won /\ t \in GoalsIn(goal, won[Nth(scored, i)].plays)
    BY <1>2, <1>4, <1>5, <2>1 DEF BatchOf
  <2> QED
    BY <2>2 DEF GoalsIn
<1>9. ASSUME NEW t \in 1 .. n, NEW k \in DOMAIN won, goal[t] \in Cards(won[k].plays)
      PROVE  t \in Captured(batches)
  <2>1. k \in scored /\ t \in GoalsIn(goal, won[k].plays)
    BY <1>4, <1>9 DEF GoalsIn
  <2> DEFINE i == Cardinality(UpTo(scored, k))
  <2>2. UpTo(scored, k) \in SUBSET scored /\ k \in UpTo(scored, k)
    BY <1>1, <2>1 DEF UpTo
  <2>3. IsFiniteSet(scored) /\ IsFiniteSet(UpTo(scored, k)) /\ i \in Nat
    BY <1>1, <2>2, PartsAreFinite
  <2>4. i <= c
    BY <2>2, <2>3, FS_Subset
  <2>5. i # 0
    BY <2>2, <2>3, FS_EmptySet
  <2>6. i \in 1 .. c
    BY <1>5, <2>3, <2>4, <2>5
  <2> HIDE DEF i
  <2>7. Nth(scored, i) = k
    <3>1. Nth(scored, i) \in scored /\ Cardinality(UpTo(scored, Nth(scored, i))) = i
      BY <1>1, <2>6, NthIs
    <3>2. Cardinality(UpTo(scored, k)) = i
      BY DEF i
    <3> QED
      BY <1>1, <2>1, <3>1, <3>2, PlacesInSet
  <2>8. batches[i] = BatchOf(won[k], goal)
    BY <1>2, <2>6, <2>7
  <2> QED
    BY <1>7, <2>1, <2>6, <2>8 DEF Captured, BatchOf
<1>10. Captured(batches) = {t \in 1 .. n : \E k \in DOMAIN won : goal[t] \in Cards(won[k].plays)}
  BY <1>8, <1>9
<1> QED
  BY <1>7, <1>10 DEF batches, scored

\* A trick adds a batch, the goals on the table, unless there is none.
LEMMA BatchesGrow ==
  ASSUME NEW n \in Nat, NEW goal, DOMAIN goal = 1 .. n, NEW won \in Seq(WonType), NEW e \in WonType
  PROVE  BatchesOf(Append(won, e), goal) =
           IF GoalsIn(goal, e.plays) = {} THEN BatchesOf(won, goal)
           ELSE Append(BatchesOf(won, goal), BatchOf(e, goal))
<1> DEFINE K == Len(won)
           more == Append(won, e)
           W == Scored(won, goal)
           V == Scored(more, goal)
           c == Cardinality(W)
           batches == BatchesOf(won, goal)
           after == BatchesOf(more, goal)
<1>1. /\ K \in Nat /\ DOMAIN won = 1 .. K /\ DOMAIN more = (1 .. K) \cup {K + 1}
      /\ \A k \in 1 .. K : more[k] = won[k]
      /\ more[K + 1] = e /\ K + 1 \notin 1 .. K
  OBVIOUS
<1>2. batches = [i \in 1 .. c |-> BatchOf(won[Nth(W, i)], goal)]
  BY BatchesAre
<1>3. after = [i \in 1 .. Cardinality(V) |-> BatchOf(more[Nth(V, i)], goal)]
  BY BatchesAre
<1>4. batches \in Seq(Batch(n)) /\ Len(batches) = c
  BY BatchesType
<1> HIDE DEF K, more, batches, after
<1>5. W \in SUBSET (1 .. K)
  BY <1>1 DEF Scored
<1>6. V = IF GoalsIn(goal, e.plays) = {} THEN W ELSE W \cup {K + 1}
  <2>1. \A k \in 1 .. K : GoalsIn(goal, more[k].plays) = GoalsIn(goal, won[k].plays)
    BY <1>1
  <2>2. W = {k \in 1 .. K : GoalsIn(goal, won[k].plays) # {}}
    BY <1>1 DEF Scored
  <2>3. V = {k \in (1 .. K) \cup {K + 1} : GoalsIn(goal, more[k].plays) # {}}
    BY <1>1 DEF Scored
  <2>4. GoalsIn(goal, more[K + 1].plays) = GoalsIn(goal, e.plays)
    BY <1>1
  <2> HIDE DEF V, W
  <2>5. CASE GoalsIn(goal, e.plays) = {}
    BY <2>1, <2>2, <2>3, <2>4, <2>5, Zenon
  <2>6. CASE GoalsIn(goal, e.plays) # {}
    BY <2>1, <2>2, <2>3, <2>4, <2>6
  <2> QED
    BY <2>5, <2>6
<1> HIDE DEF W, V
<1>7. c \in Nat /\ \A i \in 1 .. c : Nth(W, i) \in W
  BY <1>1, <1>5, PartsAreFinite, NthIs
<1>8. \A i \in 1 .. c : more[Nth(W, i)] = won[Nth(W, i)]
  BY <1>1, <1>5, <1>7
<1> HIDE DEF c
<1>9. CASE GoalsIn(goal, e.plays) = {}
  BY <1>2, <1>3, <1>6, <1>8, <1>9 DEF c, more, batches, after
<1>10. CASE GoalsIn(goal, e.plays) # {}
  <2> DEFINE b == BatchOf(e, goal)
  <2>1. /\ Cardinality(V) = c + 1
        /\ \A i \in 1 .. c : Nth(V, i) = Nth(W, i)
        /\ Nth(V, c + 1) = K + 1
    <3>1. V = W \cup {K + 1}
      BY <1>6, <1>10
    <3> QED
      BY <1>1, <1>5, <3>1, NthOfMore, ZenonT(40) DEF c
  <2> DEFINE next == [i \in 1 .. c + 1 |-> IF i <= c THEN batches[i] ELSE b]
  <2>2. after = next
    <3>1. \A i \in 1 .. c : BatchOf(more[Nth(V, i)], goal) = batches[i]
      BY <1>2, <1>8, <2>1 DEF c
    <3>2. BatchOf(more[Nth(V, c + 1)], goal) = b
      BY <1>1, <2>1
    <3>3. \A i \in 1 .. c + 1 : BatchOf(more[Nth(V, i)], goal) = next[i]
      <4>1. \A i \in 1 .. c + 1 : (i \in 1 .. c /\ i <= c) \/ (i = c + 1 /\ ~(i <= c))
        BY <1>7
      <4> HIDE DEF b
      <4> QED
        BY <3>1, <3>2, <4>1
    <3> HIDE DEF b
    <3> QED
      BY <1>3, <2>1, <3>3
  <2>3. Append(batches, b) = next
    <3>1. batches \in Seq(Batch(n)) /\ Len(batches) = c /\ c \in Nat
      BY <1>4, <1>7
    <3>2. GoalsIn(goal, e.plays) \in SUBSET (1 .. n) /\ e.by \in Players
      BY DEF GoalsIn, WonType
    <3>3. b \in Batch(n)
      BY <3>2 DEF BatchOf, Batch
    <3> HIDE DEF b
    <3> DEFINE s == Append(batches, b)
    <3>4. s \in Seq(Batch(n)) /\ Len(s) = c + 1 /\ (\A i \in 1 .. c : s[i] = batches[i]) /\ s[c + 1] = b
      BY <3>1, <3>3, AppendProperties
    <3>5. s \in [1 .. c + 1 -> Batch(n)]
      BY <3>4, LenProperties
    <3> HIDE DEF s
    <3>6. \A i \in 1 .. c + 1 : s[i] = next[i]
      <4>1. \A i \in 1 .. c + 1 : (i \in 1 .. c /\ i <= c) \/ (i = c + 1 /\ ~(i <= c))
        BY <1>7
      <4> QED
        BY <3>4, <4>1
    <3>7. s = next
      BY <3>5, <3>6
    <3> QED
      BY <3>7 DEF s
  <2> QED
    BY <1>10, <2>2, <2>3 DEF more, batches, after
<1> QED
  BY <1>9, <1>10

-----------------------------------------------------------------------------
(* What the preparation fixed.                                             *)

GoalCount == TaskCount[mission]
SetupInv ==
  /\ mission \in MissionIds
  /\ setup.goal \in [1 .. GoalCount -> Deck]
  /\ \A t, u \in 1 .. GoalCount : setup.goal[t] = setup.goal[u] => t = u
  /\ setup.owner \in [1 .. GoalCount -> Players]
  /\ setup.token \in TokensOf(mission, GoalCount)
  /\ setup.commander \in Players
  /\ mission \in {5, 33, 41, 50} => setup.selected \in Players
  /\ mission = 50 => setup.secondary \in Players \ {setup.selected}

\* Owners are seats, however they were found.
LEMMA OwnersType ==
  ASSUME NEW m, NEW captain, NEW n \in Nat, NEW o \in OwnersOf(m, captain, n)
  PROVE  o \in [1 .. n -> Players]
<1> DEFINE drafted == {x \in [1 .. n -> Players] : Shared(m, captain, x)}
<1>1. o \in drafted \/ \E x \in drafted, t \in 1 .. n, p \in Players : o = [x EXCEPT ![t] = p]
  BY DEF OwnersOf
<1>2. \A x \in drafted : x \in [1 .. n -> Players]
  OBVIOUS
<1> HIDE DEF drafted
<1> QED
  BY <1>1, <1>2

\* The preparation leaves goals, owners, tokens and roles as they should be.
LEMMA InitSetup == Init => SetupInv
<1> SUFFICES ASSUME Init PROVE SetupInv
  OBVIOUS
<1>1. PICK m \in MissionIds :
        /\ hands \in Deals[m]
        /\ LET n == TaskCount[m]
               captain == Commander(hands)
           IN \E goal \in GoalCards(m), owner \in OwnersOf(m, captain, n), token \in TokensOf(m, n),
                 one \in Selected(m, hands), silent \in Silent(m, captain) :
              \E two \in Secondary(m, one) :
                setup = [mission |-> m, commander |-> captain, goal |-> goal, owner |-> owner,
                         token |-> token, selected |-> one, secondary |-> two, silent |-> silent]
  BY DEF Init
<1> DEFINE n == TaskCount[m]
           captain == Commander(hands)
<1>2. PICK goal \in GoalCards(m), owner \in OwnersOf(m, captain, n), token \in TokensOf(m, n),
           one \in Selected(m, hands), silent \in Silent(m, captain) :
        \E two \in Secondary(m, one) :
          setup = [mission |-> m, commander |-> captain, goal |-> goal, owner |-> owner,
                   token |-> token, selected |-> one, secondary |-> two, silent |-> silent]
  BY <1>1
<1>3. PICK two \in Secondary(m, one) :
          setup = [mission |-> m, commander |-> captain, goal |-> goal, owner |-> owner,
                   token |-> token, selected |-> one, secondary |-> two, silent |-> silent]
  BY <1>2
<1> HIDE DEF captain
<1>4. /\ mission = m /\ setup.commander = captain /\ setup.goal = goal /\ setup.owner = owner
      /\ setup.token = token /\ setup.selected = one /\ setup.secondary = two
  BY <1>3 DEF mission
<1>5. n \in Nat /\ captain \in Players
  BY <1>1, CommanderType, TricksAssumption DEF captain
<1> HIDE DEF n
<1>6. goal \in [1 .. n -> Deck] /\ \A t, u \in 1 .. n : goal[t] = goal[u] => t = u
  <2>1. GoalPool[m] \subseteq Deck
    BY TricksAssumption
  <2>2. goal \in [1 .. n -> {c \in GoalPool[m] : ~IsRocket(c)}] /\ \A i, j \in 1 .. n : i # j => goal[i] # goal[j]
    BY <1>2 DEF GoalCards, n
  <2> QED
    BY <2>1, <2>2
<1>7. owner \in [1 .. n -> Players]
  BY <1>2, <1>5, OwnersType
<1>8. m \in {5, 33, 41, 50} => one \in Players
  BY <1>2 DEF Selected
<1>9. m = 50 => two \in Players \ {one}
  BY <1>3 DEF Secondary
<1>10. GoalCount = n /\ token \in TokensOf(m, n)
  BY <1>2, <1>4 DEF GoalCount, n
<1> QED
  BY <1>1, <1>4, <1>5, <1>6, <1>7, <1>8, <1>9, <1>10 DEF SetupInv

\* Nothing changes it once play has begun.
LEMMA SetupStays == [Next]_vars => setup' = setup
BY DEF Next, PlayAny, SpeakAny, PlayCard, Communicate, AdvanceTrick, vars

-----------------------------------------------------------------------------
(* The two kinds of steps: those that win a trick, and the others.         *)

Apart == OnTable \cap CardsWon = {}
Whole == TypeOK /\ TableInv /\ HandsInv /\ CardsInv /\ Apart

\* The cards on the table are not those of tricks won.
LEMMA NextApart == Whole /\ [Next]_vars => Apart'
<1> SUFFICES ASSUME Whole, [Next]_vars PROVE Apart'
  OBVIOUS
<1>0. TypeOK /\ CardsInv /\ Apart
  BY DEF Whole
<1>1. CASE phase' # "playing"
  BY <1>1 DEF Apart, OnTable
<1>2. ASSUME NEW p \in Players, NEW c \in hands[p], PlayCard(p, c), phase' = "playing"
      PROVE  Apart'
  <2> DEFINE plays == Append(trick, Play(p, c))
  <2>1. phase = "playing" /\ trick' = plays /\ OnTable = Cards(trick) /\ history' = history
    BY <1>2 DEF PlayCard, OnTable, Resolve
  <2>2. Play(p, c) \in PlayType /\ Play(p, c).card = c
    BY <1>0 DEF TypeOK, Play, PlayType
  <2>3. Cards(plays) = OnTable \cup {c}
    BY <1>0, <2>1, <2>2, OnePlayMore DEF TypeOK
  <2>4. c \notin Gone
    BY <1>0 DEF CardsInv
  <2>5. OnTable' = Cards(trick') /\ CardsWon' = CardsWon
    BY <1>2, <2>1 DEF OnTable, CardsWon, Cards, Plays
  <2> HIDE DEF plays
  <2> QED
    BY <1>0, <2>1, <2>3, <2>4, <2>5 DEF Apart, Gone
<1>3. ASSUME NEW p \in Players, NEW c \in hands[p],
             NEW mk \in {"highest", "lowest", "only", "hidden"}, Communicate(p, c, mk)
      PROVE  Apart'
  BY <1>0, <1>3 DEF Communicate, Apart, OnTable, CardsWon, Cards, Plays
<1>4. CASE AdvanceTrick
  BY <1>4 DEF AdvanceTrick, Apart, OnTable, Cards, Plays
<1>5. CASE UNCHANGED vars
  BY <1>0, <1>5 DEF vars, Apart, OnTable, CardsWon, Cards, Plays
<1> QED
  BY <1>1, <1>2, <1>3, <1>4, <1>5, TricksAssumption DEF Next, PlayAny, SpeakAny

\* Types, places, hands and cards are in order in every state.
LEMMA AlwaysWhole == Spec => []Whole
<1>1. Init => Whole
  <2>1. Init => Apart
    BY DEF Init, Apart, OnTable, Cards, Plays
  <2> QED
    BY <2>1, InitType, InitHands, InitCards DEF Whole
<1>2. Whole /\ [Next]_vars => Whole'
  BY NextType, NextHands, NextCards, NextApart DEF Whole
<1> QED
  BY <1>1, <1>2, PTL DEF Spec

\* A step that wins no trick leaves the books alone.
Quiet ==
  /\ UNCHANGED <<setup, status, tricksWon, progress, history>>
  /\ \/ phase' = phase /\ trickNumber' = trickNumber
     \/ phase = "trick_result" /\ phase' = "playing" /\ trickNumber' = trickNumber + 1

\* The trick is won by the play w; held are the hands it leaves.
Trick(w, plays) == [by |-> w.player, card |-> w.card, plays |-> plays]
Missed(w, plays) == GoalsMissed(w.player, Caught(plays))
Broken(w, plays, held) == ConditionBroken(w, plays, held, tricksWon', Counted(w, plays))
TrickWon(w, plays, held) ==
  /\ w \in PlayType /\ w \in Plays(plays) /\ plays \in Seq(PlayType)
  /\ held \in [Players -> SUBSET Deck]
  /\ phase = "playing" /\ setup' = setup /\ trickNumber' = trickNumber
  /\ Cards(plays) \cap CardsWon = {}
  /\ (UNION {held[p] : p \in Players}) \cup CardsWon \cup Cards(plays) = Deck
  /\ \A p \in Players : held[p] \cap (CardsWon \cup Cards(plays)) = {}
  /\ Exhausted(held) <=> trickNumber = LastTrick
  /\ history' = Append(history, Trick(w, plays)) /\ Trick(w, plays) \in WonType
  /\ status' = Booked(Caught(plays), Missed(w, plays))
  /\ tricksWon' = [tricksWon EXCEPT ![w.player] = @ + 1]
  /\ progress' \in {Counted(w, plays), [Counted(w, plays) EXCEPT !.transferApplied = TRUE]}
  /\ phase' = IF Missed(w, plays) \/ Broken(w, plays, held) THEN "failure"
              ELSE IF Accomplished(status', held, Counted(w, plays)) THEN "success"
              ELSE IF Exhausted(held) THEN "failure"
              ELSE "trick_result"

\* Every step is of one kind or the other.
LEMMA EveryStep ==
  ASSUME Whole, [Next]_vars
  PROVE  Quiet \/ \E w, plays, held : TrickWon(w, plays, held)
<1>0. TypeOK /\ TableInv /\ HandsInv /\ CardsInv
  BY DEF Whole
<1>1. ASSUME NEW p \in Players, NEW c \in hands[p], PlayCard(p, c)
      PROVE  Quiet \/ \E w, plays, held : TrickWon(w, plays, held)
  <2> DEFINE held  == [hands EXCEPT ![p] = @ \ {c}]
             plays == Append(trick, Play(p, c))
             said  == IF communication[p] # None /\ communication[p].card = c
                      THEN [communication EXCEPT ![p].played = TRUE]
                      ELSE communication
  <2>1. /\ phase = "playing" /\ p = turn /\ setup' = setup /\ trickNumber' = trickNumber
        /\ OnTable = Cards(trick)
    BY <1>1 DEF PlayCard, OnTable
  <2>2. CASE Len(plays) < N
    BY <1>1, <2>1, <2>2 DEF PlayCard, Quiet
  <2>3. CASE ~(Len(plays) < N)
    <3>1. PICK w \in WinningPlays(plays) : Resolve(w, plays, held, said)
      BY <1>1, <2>3 DEF PlayCard
    <3>2. /\ c \in Deck /\ Play(p, c) \in PlayType /\ Play(p, c).card = c
          /\ Len(plays) = Len(trick) + 1 /\ plays \in Seq(PlayType)
          /\ held \in [Players -> SUBSET Deck]
      BY <1>0, PlayedType DEF TypeOK, Play, PlayType
    <3>3. Cards(plays) = OnTable \cup {c}
      BY <1>0, <2>1, <3>2, OnePlayMore DEF TypeOK
    <3>4. w \in PlayType /\ w \in Plays(plays)
      BY <3>2, WinnerType DEF WinningPlays
    <3>5. Cardinality(held[p]) = Dealt(p) - trickNumber
      <4>1. ~HasPlayed(p) /\ Cardinality(held[p]) = Cardinality(hands[p]) - 1
        BY <1>0, <2>1, TurnHasNotPlayed, PlayedHands
      <4>2. Cardinality(hands[p]) = Dealt(p) - trickNumber + 1
        BY <1>0, <2>1, <4>1 DEF HandsInv, Holding
      <4>3. trickNumber \in Nat /\ Dealt(p) \in Nat
        BY <1>0, DealtFacts DEF TypeOK
      <4> QED
        BY ONLY <4>1, <4>2, <4>3
    <3>6. ASSUME NEW q \in Players, q # p
          PROVE  Cardinality(held[q]) = Dealt(q) - trickNumber
      <4>1. HasPlayed(q)
        BY <1>0, <2>1, <2>3, <3>2, <3>6, TableFacts, OthersHavePlayed DEF TypeOK
      <4>2. held[q] = hands[q]
        BY <1>0, <3>6, PlayedHands
      <4> QED
        BY <1>0, <2>1, <4>1, <4>2 DEF HandsInv, Holding
    <3>7. /\ held[p] = hands[p] \ {c}
          /\ \A q \in Players : q # p => held[q] = hands[q] /\ c \notin hands[q]
      BY <1>0 DEF TypeOK, HandsInv, Disjoint
    <3> HIDE DEF held, plays, said
    <3>8. Exhausted(held) <=> trickNumber = LastTrick
      <4>1. \A q \in Players : Cardinality(held[q]) = Dealt(q) - trickNumber
        BY <3>5, <3>6
      <4>2. trickNumber <= LastTrick /\ trickNumber \in Nat /\ LastTrick \in Nat
        BY <1>0, TableFacts DEF TypeOK, HandsInv
      <4>3. ASSUME NEW q \in Players, held[q] = {} PROVE trickNumber = LastTrick
        <5>1. Cardinality(held[q]) = 0
          BY <3>2, <4>3, HandFinite
        <5> QED
          BY <4>1, <4>2, <5>1, DealtFacts
      <4>4. ASSUME trickNumber = LastTrick PROVE \E q \in Players : held[q] = {}
        <5>1. N - 1 \in Players /\ Dealt(N - 1) = LastTrick
          BY DealtFacts, TableFacts DEF Players
        <5>2. Cardinality(held[N - 1]) = 0
          BY <4>1, <4>2, <4>4, <5>1
        <5> QED
          BY <3>2, <5>1, <5>2, HandFinite
      <4> QED
        BY <4>3, <4>4 DEF Exhausted
    <3>9. /\ Cards(plays) \cap CardsWon = {}
          /\ (UNION {held[q] : q \in Players}) \cup CardsWon \cup Cards(plays) = Deck
          /\ \A q \in Players : held[q] \cap (CardsWon \cup Cards(plays)) = {}
      <4>1. c \notin Gone /\ Gone \subseteq Deck
        BY <1>0 DEF CardsInv
      <4>2. OnTable \cap CardsWon = {}
        BY DEF Whole, Apart
      <4>3. Gone \cup {c} = CardsWon \cup Cards(plays)
        BY <3>3 DEF Gone
      <4>4. ASSUME NEW d \in Deck, d \notin Gone, d # c
            PROVE  \E q \in Players : d \in held[q]
        <5>1. PICK q \in Players : d \in hands[q]
          BY <1>0, <4>4 DEF CardsInv
        <5>2. d \in held[q]
          BY <3>7, <4>4, <5>1
        <5> QED
          BY <5>2
      <4>5. \A q \in Players : held[q] \subseteq Deck
        BY <3>2
      <4>6. \A q \in Players : held[q] \cap (Gone \cup {c}) = {}
        BY <1>0, <3>7 DEF CardsInv
      <4>7. Cards(plays) \cap CardsWon = {}
        BY <3>3, <4>1, <4>2 DEF Gone
      <4> QED
        BY <3>2, <4>1, <4>3, <4>4, <4>5, <4>6, <4>7
    <3>10. Trick(w, plays) \in WonType
      BY <3>2, <3>4 DEF Trick, WonType, PlayType
    <3>11. progress' \in {Counted(w, plays), [Counted(w, plays) EXCEPT !.transferApplied = TRUE]}
      BY <3>1 DEF Resolve, Transfer
    <3> QED
      BY <2>1, <3>1, <3>2, <3>4, <3>8, <3>9, <3>10, <3>11 DEF Resolve, TrickWon, Trick, Missed, Broken
  <2> QED
    BY <2>2, <2>3
<1>2. ASSUME NEW p \in Players, NEW c \in hands[p],
             NEW mk \in {"highest", "lowest", "only", "hidden"}, Communicate(p, c, mk)
      PROVE  Quiet
  BY <1>2 DEF Communicate, Quiet
<1>3. CASE AdvanceTrick
  BY <1>3 DEF AdvanceTrick, Quiet
<1>4. CASE UNCHANGED vars
  BY <1>4 DEF vars, Quiet
<1> QED
  BY <1>1, <1>2, <1>3, <1>4, TricksAssumption DEF Next, PlayAny, SpeakAny

-----------------------------------------------------------------------------
(* The books.                                                              *)

\* No card is in two tricks, and a trick is won with a card of its own.
TricksInv ==
  /\ \A k \in Tricks : WonWith(k) \in Cards(history[k].plays)
  /\ \A j, k \in Tricks : j # k => Cards(history[j].plays) \cap Cards(history[k].plays) = {}

CaughtByOwner(t) == \E k \in WonBy(setup.owner[t]) : setup.goal[t] \in Cards(history[k].plays)

\* A goal is pending until its card is won; while none has failed each went to
\* its owner and an ordering exists; once one has failed that cannot be said.
BookInv ==
  /\ \A t \in Goals : status[t] = "pending" <=> setup.goal[t] \notin CardsWon
  /\ \A t \in Goals : status[t] = "success" => CaughtByOwner(t)
  /\ IF \A t \in Goals : status[t] # "failed"
     THEN Book!OrderExists(setup.token, Batches)
     ELSE phase = "failure" /\ ~GoalsMet

\* The goals of an attempt, for what follows.
LEMMA GoalFacts ==
  ASSUME SetupInv
  PROVE  /\ GoalCount \in Nat /\ Goals = 1 .. GoalCount
         /\ setup.token \in Layouts(GoalCount) /\ DOMAIN setup.token = Goals
         /\ Book!OrderExists(setup.token, <<>>)
         /\ setup.goal \in [Goals -> Deck] /\ setup.owner \in [Goals -> Players]
         /\ \A t, u \in Goals : setup.goal[t] = setup.goal[u] => t = u
<1>1. mission \in MissionIds /\ mission \in 1 .. 50 /\ GoalCount \in Nat
  BY TricksAssumption DEF SetupInv, GoalCount
<1>2. setup.token \in Layouts(GoalCount) /\ Book!OrderExists(setup.token, <<>>)
  BY <1>1, TokensHaveOrder DEF SetupInv
<1>3. Goals = 1 .. GoalCount
  BY DEF SetupInv, Goals
<1> QED
  BY <1>1, <1>2, <1>3 DEF SetupInv, Layouts

\* The history after a trick.
LEMMA HistoryGrows ==
  ASSUME Whole, NEW w, NEW plays, NEW held, TrickWon(w, plays, held)
  PROVE  /\ Len(history) \in Nat /\ Tricks = 1 .. Len(history)
         /\ Tricks' = Tricks \cup {Len(history) + 1} /\ Len(history) + 1 \notin Tricks
         /\ Len(history') = Len(history) + 1
         /\ \A k \in Tricks : history'[k] = history[k]
         /\ history'[Len(history) + 1] = Trick(w, plays)
         /\ CardsWon' = CardsWon \cup Cards(plays)
<1>1. history \in Seq(WonType) /\ Trick(w, plays) \in WonType /\ history' = Append(history, Trick(w, plays))
  BY DEF Whole, CardsInv, TrickWon
<1>2. Trick(w, plays).plays = plays
  BY DEF Trick
<1> DEFINE t == Trick(w, plays)
<1> HIDE DEF t
<1>3. CardsWon' = CardsWon \cup Cards(plays) /\ Len(history') = Len(history) + 1
  BY <1>1, <1>2, OneTrickMore DEF t
<1>4. /\ Len(history) \in Nat /\ DOMAIN history = 1 .. Len(history)
      /\ DOMAIN history' = DOMAIN history \cup {Len(history) + 1}
      /\ \A k \in DOMAIN history : history'[k] = history[k]
      /\ history'[Len(history) + 1] = t
  BY <1>1 DEF t
<1> QED
  BY <1>3, <1>4 DEF Tricks, t

\* A trick keeps tricks apart.
LEMMA TricksStayApart ==
  ASSUME Whole, TricksInv, NEW w, NEW plays, NEW held, TrickWon(w, plays, held)
  PROVE  TricksInv'
<1> DEFINE K == Len(history) + 1
<1>1. /\ Tricks' = Tricks \cup {K} /\ K \notin Tricks
      /\ \A k \in Tricks : history'[k] = history[k]
      /\ history'[K].card = w.card /\ history'[K].plays = plays
  <2>1. /\ Tricks' = Tricks \cup {K} /\ K \notin Tricks
        /\ \A k \in Tricks : history'[k] = history[k]
        /\ history'[K] = Trick(w, plays)
    BY HistoryGrows
  <2> HIDE DEF K
  <2>2. Trick(w, plays).card = w.card /\ Trick(w, plays).plays = plays
    BY DEF Trick
  <2> QED
    BY <2>1, <2>2
<1> HIDE DEF K
<1>2. w.card \in Cards(plays) /\ \A k \in Tricks : Cards(plays) \cap Cards(history[k].plays) = {}
  <2>1. w \in Plays(plays) /\ Cards(plays) \cap CardsWon = {}
    BY DEF TrickWon
  <2>2. \A k \in Tricks : Cards(history[k].plays) \subseteq CardsWon
    BY DEF CardsWon, Tricks
  <2> QED
    BY <2>1, <2>2 DEF Cards
<1>3. \A k \in Tricks' : history'[k].card \in Cards(history'[k].plays)
  BY <1>1, <1>2 DEF TricksInv, WonWith
<1>4. \A j, k \in Tricks' : j # k => Cards(history'[j].plays) \cap Cards(history'[k].plays) = {}
  <2> SUFFICES ASSUME NEW j \in Tricks', NEW k \in Tricks', j # k
               PROVE  Cards(history'[j].plays) \cap Cards(history'[k].plays) = {}
    OBVIOUS
  <2>1. CASE j \in Tricks /\ k \in Tricks
    BY <1>1, <2>1 DEF TricksInv
  <2>2. CASE j = K
    BY <1>1, <1>2, <2>2
  <2>3. CASE k = K
    BY <1>1, <1>2, <2>3
  <2> QED
    BY <1>1, <2>1, <2>2, <2>3
<1> QED
  BY <1>3, <1>4 DEF TricksInv, WonWith, Cards, Plays

\* The goals on the table are the goals caught; they are a batch of their own,
\* and they are missed exactly when one goes astray or no ordering is left.
LEMMA BookedRight ==
  ASSUME Whole, SetupInv, BookInv, NEW w, NEW plays, NEW held, TrickWon(w, plays, held)
  PROVE  LET caught == Caught(plays)
             batch  == [by |-> w.player, goals |-> caught]
         IN  /\ caught = GoalsIn(setup.goal, plays)
             /\ Batches' = IF caught = {} THEN Batches ELSE Append(Batches, batch)
             /\ caught \cap Captured(Batches) = {}
             /\ \A t \in Goals : status[t] # "failed"
             /\ IF caught = {} THEN ~Missed(w, plays)
                ELSE Missed(w, plays) <=>
                       \/ \E t \in caught : setup.owner[t] # w.player
                       \/ ~Book!OrderExists(setup.token, Append(Batches, batch))
<1> DEFINE caught == Caught(plays)
           batch  == [by |-> w.player, goals |-> caught]
           n == GoalCount
<1>0. /\ n \in Nat /\ Goals = 1 .. n /\ setup.token \in Layouts(n) /\ DOMAIN setup.token = Goals
      /\ w \in PlayType /\ plays \in Seq(PlayType) /\ setup' = setup /\ phase = "playing"
      /\ history \in Seq(WonType) /\ Trick(w, plays) \in WonType
      /\ history' = Append(history, Trick(w, plays))
  BY GoalFacts DEF TrickWon, Whole, CardsInv
<1>1. \A t \in Goals : status[t] # "failed"
  BY <1>0 DEF BookInv
<1>2. Book!OrderExists(setup.token, Batches)
  BY <1>1 DEF BookInv
<1>3. caught = GoalsIn(setup.goal, plays)
  BY DEF Caught, GoalsIn, Goals, BookInv, TrickWon
<1>4. Batches \in Seq(Batch(n)) /\ Captured(Batches) = {t \in Goals : setup.goal[t] \in CardsWon}
  <2>1. DOMAIN setup.goal = 1 .. n
    BY <1>0 DEF Goals
  <2>2. /\ Batches \in Seq(Batch(n))
        /\ Captured(Batches) = {t \in 1 .. n : \E k \in DOMAIN history : setup.goal[t] \in Cards(history[k].plays)}
    BY <1>0, <2>1, BatchesType DEF Batches
  <2> QED
    BY <1>0, <2>2 DEF CardsWon
<1>5. Captured(Batches) = {t \in Goals : status[t] = "success"}
  <2>1. \A t \in Goals : status[t] \in {"pending", "success", "failed"}
    BY DEF Whole, TypeOK
  <2> QED
    BY <1>1, <1>4, <2>1 DEF BookInv
<1>6. caught \cap Captured(Batches) = {}
  BY <1>5 DEF Caught
<1>7. Trick(w, plays).plays = plays /\ Trick(w, plays).by = w.player
  BY DEF Trick
<1>8. Batches' = IF caught = {} THEN Batches ELSE Append(Batches, batch)
  <2>1. DOMAIN setup.goal = 1 .. n
    BY <1>0 DEF Goals
  <2>2. Batches' = BatchesOf(Append(history, Trick(w, plays)), setup.goal)
    BY <1>0 DEF Batches
  <2>3. Batches' = IF GoalsIn(setup.goal, plays) = {} THEN Batches
                   ELSE Append(Batches, BatchOf(Trick(w, plays), setup.goal))
    BY <1>0, <1>7, <2>1, <2>2, BatchesGrow DEF Batches
  <2>4. BatchOf(Trick(w, plays), setup.goal) = batch
    BY <1>3, <1>7 DEF BatchOf
  <2> QED
    BY <1>3, <2>3, <2>4
<1>9. caught \subseteq Goals /\ batch \in Batch(n)
  BY <1>0 DEF Caught, Batch, PlayType
<1>10. BadTaskOrder(setup.token, Captured(Batches), caught)
         <=> ~Book!OrderExists(setup.token, Append(Batches, batch))
  <2>1. batch.goals = caught
    OBVIOUS
  <2> HIDE DEF batch, caught, n
  <2>2. batch \in Batch(n) /\ batch.goals \cap Captured(Batches) = {}
    BY <1>6, <1>9, <2>1
  <2>3. n \in Nat /\ setup.token \in Layouts(n) /\ Batches \in Seq(Batch(n))
    BY <1>0, <1>4
  <2>4. BadTaskOrder(setup.token, Captured(Batches), batch.goals)
         <=> ~Book!OrderExists(setup.token, Append(Batches, batch))
    BY <1>2, <2>2, <2>3, TestIsRight
  <2> QED
    BY <2>1, <2>4
<1>11. ASSUME caught = {} PROVE ~BadTaskOrder(setup.token, Captured(Batches), caught)
  <2>1. Cardinality(Captured(Batches)) \in Nat /\ Cardinality(caught) = 0
    <3>1. Captured(Batches) \in SUBSET (1 .. n) /\ IsFiniteSet(1 .. n)
      BY <1>0, <1>4, FS_Interval
    <3> QED
      BY <1>11, <3>1, FS_Subset, FS_CardinalityType, FS_EmptySet
  <2> DEFINE k == Cardinality(Captured(Batches))
  <2>2. ~(\E v : v \in (k + 1) .. (k + 0))
    BY <2>1
  <2> QED
    BY <1>11, <2>1, <2>2 DEF BadTaskOrder
<1>12. Missed(w, plays) <=> \/ \E t \in caught : setup.owner[t] # w.player
                            \/ BadTaskOrder(setup.token, Captured(Batches), caught)
  BY <1>5 DEF Missed, GoalsMissed
<1> HIDE DEF caught
<1> QED
  BY <1>1, <1>3, <1>6, <1>8, <1>10, <1>11, <1>12 DEF caught

\* A trick keeps the books.
LEMMA BooksAreKept ==
  ASSUME Whole, SetupInv, TricksInv, BookInv, NEW w, NEW plays, NEW held, TrickWon(w, plays, held)
  PROVE  BookInv'
<1> DEFINE caught == Caught(plays)
           batch  == [by |-> w.player, goals |-> caught]
           missed == Missed(w, plays)
           K      == Len(history) + 1
<1>0. /\ setup' = setup /\ Goals' = Goals
      /\ status' = Booked(caught, missed) /\ (missed => phase' = "failure")
  BY DEF TrickWon, Goals
<1>1. /\ caught = GoalsIn(setup.goal, plays)
      /\ Batches' = IF caught = {} THEN Batches ELSE Append(Batches, batch)
      /\ \A t \in Goals : status[t] # "failed"
      /\ IF caught = {} THEN ~missed
         ELSE missed <=> \/ \E t \in caught : setup.owner[t] # w.player
                         \/ ~Book!OrderExists(setup.token, Append(Batches, batch))
  BY BookedRight
<1>2. /\ Tricks' = Tricks \cup {K} /\ K \notin Tricks
      /\ \A k \in Tricks : history'[k] = history[k]
      /\ history'[K] = Trick(w, plays)
      /\ CardsWon' = CardsWon \cup Cards(plays)
  BY HistoryGrows
<1>3. Trick(w, plays).by = w.player /\ Trick(w, plays).plays = plays
  BY DEF Trick
<1>4. /\ \A t \in Goals : t \in caught <=> setup.goal[t] \in Cards(plays)
      /\ caught \subseteq Goals
  BY <1>1 DEF GoalsIn, Goals
<1>5. \A t \in Goals : status'[t] = IF t \notin caught THEN status[t]
                                    ELSE IF missed THEN "failed" ELSE "success"
  BY <1>0 DEF Booked
<1>6. Book!OrderExists(setup.token, Batches)
  BY <1>1 DEF BookInv
<1>7. \A t \in Goals : CaughtByOwner(t)' <=>
        \E k \in Tricks' : history'[k].by = setup.owner[t] /\ setup.goal[t] \in Cards(history'[k].plays)
  BY <1>0 DEF CaughtByOwner, WonBy, Cards, Plays
<1> HIDE DEF caught, missed, K
<1>8. \A t \in Goals : status'[t] = "pending" <=> setup.goal[t] \notin CardsWon'
  BY <1>2, <1>4, <1>5 DEF BookInv
<1>9. ASSUME NEW t \in Goals, status'[t] = "success"
      PROVE  CaughtByOwner(t)'
  <2>1. CASE t \in caught
    <3>1. ~missed /\ caught # {}
      BY <1>5, <1>9, <2>1
    <3>2. setup.owner[t] = w.player
      BY <1>1, <2>1, <3>1
    <3>3. K \in Tricks' /\ history'[K].by = setup.owner[t] /\ setup.goal[t] \in Cards(history'[K].plays)
      BY <1>2, <1>3, <1>4, <2>1, <3>2
    <3> QED
      BY <1>7, <3>3
  <2>2. CASE t \notin caught
    <3>1. CaughtByOwner(t)
      BY <1>5, <1>9, <2>2 DEF BookInv
    <3>2. PICK k \in Tricks : history[k].by = setup.owner[t] /\ setup.goal[t] \in Cards(history[k].plays)
      BY <3>1 DEF CaughtByOwner, WonBy
    <3> QED
      BY <1>2, <1>7, <3>2
  <2> QED
    BY <2>1, <2>2
<1>10. ASSUME \A t \in Goals : status'[t] # "failed"
       PROVE  Book!OrderExists(setup.token, Batches')
  <2>1. CASE caught = {}
    BY <1>1, <1>6, <2>1
  <2>2. CASE caught # {}
    <3>1. ~missed
      BY <1>4, <1>5, <1>10, <2>2
    <3> QED
      BY <1>1, <2>2, <3>1
  <2> QED
    BY <2>1, <2>2
<1>11. ASSUME NEW t \in Goals, status'[t] = "failed"
       PROVE  phase' = "failure" /\ ~GoalsMet'
  <2>1. missed /\ caught # {}
    BY <1>1, <1>5, <1>11
  <2>2. phase' = "failure"
    BY <1>0, <2>1
  <2>3. CASE ~Book!OrderExists(setup.token, Batches')
    BY <1>0, <2>2, <2>3 DEF GoalsMet
  <2>4. ASSUME NEW u \in caught, setup.owner[u] # w.player, GoalsMet'
        PROVE  FALSE
    <3>1. PICK k \in Tricks' : history'[k].by = setup.owner[u] /\ setup.goal[u] \in Cards(history'[k].plays)
      BY <1>0, <1>4, <2>4 DEF GoalsMet, WonBy, Cards, Plays
    <3>2. k # K /\ K \in Tricks' /\ setup.goal[u] \in Cards(history'[K].plays)
      BY <1>2, <1>3, <1>4, <2>4, <3>1
    <3>3. TricksInv'
      BY TricksStayApart
    <3>4. Cards(history'[k].plays) \cap Cards(history'[K].plays) = {}
      BY <3>2, <3>3 DEF TricksInv, Cards, Plays
    <3> QED
      BY <3>1, <3>2, <3>4
  <2> QED
    BY <1>1, <2>1, <2>2, <2>3, <2>4
<1>12. IF \A t \in Goals : status'[t] # "failed"
       THEN Book!OrderExists(setup.token, Batches') ELSE phase' = "failure" /\ ~GoalsMet'
  BY <1>10, <1>11
<1> QED
  BY <1>0, <1>8, <1>9, <1>12 DEF BookInv

\* The books of a mission are in order in every state.
Books == SetupInv /\ TricksInv /\ BookInv

\* At the deal nothing is captured and the books are empty.
LEMMA InitBooks == Init => Books
<1> SUFFICES ASSUME Init PROVE Books
  OBVIOUS
<1>1. SetupInv /\ history = <<>> /\ status = [t \in Goals |-> "pending"]
  BY InitSetup DEF Init
<1>2. Tricks = {} /\ CardsWon = {} /\ Batches = <<>>
  BY <1>1, NoBatches DEF Tricks, CardsWon, Batches
<1>3. TricksInv
  BY <1>2 DEF TricksInv
<1>4. \A t \in Goals : status[t] = "pending"
  BY <1>1
<1>5. Book!OrderExists(setup.token, Batches)
  BY <1>1, <1>2, GoalFacts
<1> QED
  BY <1>1, <1>2, <1>3, <1>4, <1>5 DEF Books, BookInv

\* Every step keeps the books of the goals.
LEMMA NextBooks == Whole /\ Books /\ [Next]_vars => Books'
<1> SUFFICES ASSUME Whole, Books, [Next]_vars PROVE Books'
  OBVIOUS
<1>0. SetupInv /\ TricksInv /\ BookInv
  BY DEF Books
<1>1. SetupInv'
  BY <1>0, SetupStays DEF SetupInv, GoalCount, mission, Players
<1>2. CASE Quiet
  <2>1. setup' = setup /\ status' = status /\ history' = history /\ (phase = "failure" => phase' = "failure")
    BY <1>2 DEF Quiet
  <2>2. TricksInv'
    <3>1. Tricks' = Tricks /\ \A k : history'[k] = history[k]
      BY <2>1 DEF Tricks
    <3>2. \A k \in Tricks : history'[k].card \in Cards(history'[k].plays)
      BY <1>0, <3>1 DEF TricksInv, WonWith
    <3>3. \A j, k \in Tricks : j # k => Cards(history'[j].plays) \cap Cards(history'[k].plays) = {}
      BY <1>0, <3>1 DEF TricksInv
    <3> QED
      BY <3>1, <3>2, <3>3 DEF TricksInv, WonWith, Cards, Plays
  <2>3. Goals' = Goals /\ CardsWon' = CardsWon /\ Batches' = Batches
    BY <2>1 DEF Goals, CardsWon, Batches, Cards, Plays
  <2>4. \A t : CaughtByOwner(t)' <=> CaughtByOwner(t)
    BY <2>1 DEF CaughtByOwner, WonBy, Tricks, Cards, Plays
  <2>5. GoalsMet' <=> GoalsMet
    BY <2>1, <2>3 DEF GoalsMet, WonBy, Tricks, Cards, Plays
  <2>6. BookInv'
    BY <1>0, <2>1, <2>3, <2>4, <2>5 DEF BookInv
  <2> QED
    BY <1>1, <2>2, <2>6 DEF Books
<1>3. ASSUME NEW w, NEW plays, NEW held, TrickWon(w, plays, held) PROVE Books'
  BY <1>0, <1>1, <1>3, TricksStayApart, BooksAreKept DEF Books
<1> QED
  BY <1>2, <1>3, EveryStep

\* The books, in every reachable state.
LEMMA AlwaysBooked == Spec => [](Whole /\ Books)
<1>1. Init => Books
  BY InitBooks
<1>2. Whole /\ Books /\ [Next]_vars => Books'
  BY NextBooks
<1> QED
  BY <1>1, <1>2, AlwaysWhole, PTL DEF Spec

\* The goals of every attempt are captured as TaskOrder says: in batches, good
\* while each goal goes to its owner and an ordering of all goals exists, which
\* the engine finds out with its one-pass test (resolve, badTaskOrder).
THEOREM GoalsAlwaysBooked == Spec => GoalsAreBooked
<1>1. Init => Book!Init
  <2> SUFFICES ASSUME Init PROVE Book!Init
    OBVIOUS
  <2>1. SetupInv /\ history = <<>> /\ status = [t \in Goals |-> "pending"]
    BY InitSetup DEF Init
  <2>2. Batches = <<>>
    BY <2>1, NoBatches DEF Batches
  <2>3. setup.token \in UNION {TokensOf(m, TaskCount[m]) : m \in MissionIds}
    BY <2>1 DEF SetupInv, GoalCount
  <2>4. Book!Goals = Goals /\ setup.owner \in [Goals -> Players]
    BY <2>1, GoalFacts DEF Book!Goals
  <2> QED
    BY <2>1, <2>2, <2>3, <2>4 DEF Book!Init
<1>2. Whole /\ Books /\ [Next]_vars => [Book!Next]_Book!vars
  <2> SUFFICES ASSUME Whole, Books, [Next]_vars PROVE [Book!Next]_Book!vars
    OBVIOUS
  <2>0. SetupInv /\ TricksInv /\ BookInv /\ setup' = setup
    BY SetupStays DEF Books
  <2>1. CASE Quiet
    <3>1. setup' = setup /\ status' = status /\ history' = history
      BY <2>1 DEF Quiet
    <3>2. Batches' = Batches
      BY <3>1 DEF Batches
    <3> QED
      BY <3>1, <3>2 DEF Book!vars
  <2>2. ASSUME NEW w, NEW plays, NEW held, TrickWon(w, plays, held)
        PROVE  [Book!Next]_Book!vars
    <3> DEFINE caught == Caught(plays)
               batch  == [by |-> w.player, goals |-> caught]
               missed == Missed(w, plays)
    <3>1. /\ Batches' = IF caught = {} THEN Batches ELSE Append(Batches, batch)
          /\ caught \cap Captured(Batches) = {}
          /\ \A t \in Goals : status[t] # "failed"
          /\ IF caught = {} THEN ~missed
             ELSE missed <=> \/ \E t \in caught : setup.owner[t] # w.player
                             \/ ~Book!OrderExists(setup.token, Append(Batches, batch))
      BY <2>0, <2>2, BookedRight
    <3>2. w.player \in Players /\ status' = Booked(caught, missed) /\ caught \subseteq Goals
      BY <2>2 DEF TrickWon, PlayType, Caught
    <3>3. Book!Goals = Goals
      BY <2>0, GoalFacts DEF Book!Goals
    <3> HIDE DEF caught, missed
    <3>4. CASE caught = {}
      <4>1. status \in [Goals -> {"pending", "success", "failed"}]
        BY DEF Whole, TypeOK
      <4>2. status' = status
        BY <3>2, <3>4, <4>1 DEF Booked
      <4> QED
        BY <2>0, <3>1, <3>4, <4>2 DEF Book!vars
    <3>5. CASE caught # {}
      <4>1. caught \subseteq Book!Goals \ Book!Captured
        BY <3>1, <3>2, <3>3 DEF Book!Captured, Captured
      <4>2. status' = [t \in Book!Goals |-> IF t \notin caught THEN status[t]
                 ELSE IF /\ \A u \in caught : setup.owner[u] = w.player
                         /\ Book!OrderExists(setup.token, Append(Batches, batch))
                      THEN "success" ELSE "failed"]
        BY <3>1, <3>2, <3>3, <3>5 DEF Booked
      <4>3. Book!Capture(w.player, caught)
        BY <2>0, <3>1, <3>3, <3>5, <4>1, <4>2 DEF Book!Capture
      <4>4. caught \in SUBSET Book!Goals
        BY <4>1
      <4> QED
        BY <3>2, <4>3, <4>4 DEF Book!Next
    <3> QED
      BY <3>4, <3>5
  <2> QED
    BY <2>1, <2>2, EveryStep
<1> QED
  BY <1>1, <1>2, AlwaysBooked, PTL DEF Spec, GoalsAreBooked, Book!Spec

-----------------------------------------------------------------------------
(* The tricks counted.                                                     *)

\* The number of tricks won follows the number of the trick, and the tricks of
\* everybody have been counted.
CountInv ==
  /\ Len(history) = IF phase = "playing" THEN trickNumber - 1 ELSE trickNumber
  /\ \A p \in Players : tricksWon[p] = Cardinality(WonBy(p))

\* The tricks of p, and what they were won with, when this step is over.
WonByNow(p)   == {k \in Tricks' : history'[k].by = p}
WonWithNow(k) == history'[k].card

\* What a step that wins a trick does to the history, in numbers.
LEMMA TrickFacts ==
  ASSUME Whole, CountInv, NEW w, NEW plays, NEW held, TrickWon(w, plays, held)
  PROVE  /\ trickNumber \in 1 .. LastTrick /\ LastTrick \in Nat
         /\ Tricks = 1 .. trickNumber - 1 /\ Tricks' = 1 .. trickNumber
         /\ Tricks' = Tricks \cup {trickNumber} /\ trickNumber \notin Tricks
         /\ \A k \in Tricks : history'[k] = history[k]
         /\ history'[trickNumber].by = w.player /\ history'[trickNumber].card = w.card
         /\ history'[trickNumber].plays = plays
         /\ CardsWon' = CardsWon \cup Cards(plays)
         /\ \A p : WonByNow(p) = IF p = w.player THEN WonBy(p) \cup {trickNumber} ELSE WonBy(p)
         /\ \A k \in Tricks : WonWithNow(k) = WonWith(k)
         /\ WonWithNow(trickNumber) = w.card
         /\ AllPlayed' <=> trickNumber = LastTrick
         /\ Exhausted(held) <=> trickNumber = LastTrick
         /\ setup' = setup /\ mission' = mission
         /\ w.player \in Players /\ w.card \in Deck /\ w.card \in Cards(plays)
<1> DEFINE K == trickNumber
<1>1. K \in Nat /\ K # 0 /\ LastTrick \in Nat /\ K <= LastTrick
  BY TableFacts DEF Whole, TypeOK, HandsInv
<1>2. Len(history) = K - 1 /\ setup' = setup /\ (Exhausted(held) <=> K = LastTrick)
  BY DEF TrickWon, CountInv
<1>3. Len(history) + 1 = K
  BY <1>1, <1>2
<1>4. /\ Tricks = 1 .. K - 1
      /\ Tricks' = Tricks \cup {K} /\ K \notin Tricks
      /\ Len(history') = K
      /\ \A k \in Tricks : history'[k] = history[k]
      /\ history'[K] = Trick(w, plays)
      /\ CardsWon' = CardsWon \cup Cards(plays)
  BY <1>2, <1>3, HistoryGrows
<1>5. Trick(w, plays).by = w.player /\ Trick(w, plays).card = w.card /\ Trick(w, plays).plays = plays
  BY DEF Trick
<1>6. w.player \in Players /\ w.card \in Deck /\ w.card \in Cards(plays)
  BY DEF TrickWon, PlayType, Cards
<1> HIDE DEF K
<1>7. Tricks' = 1 .. K /\ K \in 1 .. LastTrick
  BY <1>1, <1>4
<1>8. ASSUME NEW p PROVE WonByNow(p) = IF p = w.player THEN WonBy(p) \cup {K} ELSE WonBy(p)
  BY <1>4, <1>5 DEF WonByNow, WonBy
<1>9. (\A k \in Tricks : WonWithNow(k) = WonWith(k)) /\ WonWithNow(K) = w.card
  BY <1>4, <1>5 DEF WonWithNow, WonWith
<1>10. AllPlayed' <=> K = LastTrick
  BY <1>4 DEF AllPlayed, LastTrick, Deck
<1>11. mission' = mission
  BY <1>2 DEF mission
<1> QED
  BY <1>1, <1>2, <1>4, <1>5, <1>6, <1>7, <1>8, <1>9, <1>10, <1>11 DEF K

\* The tricks of a member are counted as they are won.
LEMMA CountedTricks ==
  ASSUME Whole, CountInv, NEW w, NEW plays, NEW held, TrickWon(w, plays, held)
  PROVE  \A p \in Players : /\ IsFiniteSet(WonBy(p)) /\ IsFiniteSet(WonByNow(p))
                            /\ WonBy(p) \subseteq Tricks /\ WonByNow(p) \subseteq Tricks'
                            /\ tricksWon'[p] = Cardinality(WonByNow(p))
                            /\ tricksWon'[p] \in Nat
<1> DEFINE K == trickNumber
<1>1. /\ K \in Nat /\ K \notin Tricks /\ Tricks = 1 .. K - 1 /\ Tricks' = 1 .. K /\ w.player \in Players
      /\ \A p : WonByNow(p) = IF p = w.player THEN WonBy(p) \cup {K} ELSE WonBy(p)
  BY TrickFacts
<1>2. tricksWon \in [Players -> Nat] /\ tricksWon' = [tricksWon EXCEPT ![w.player] = @ + 1]
  BY DEF Whole, TypeOK, TrickWon
<1>3. \A p : WonBy(p) \subseteq Tricks /\ WonByNow(p) \subseteq Tricks'
  BY DEF WonBy, WonByNow
<1>4. K - 1 \in Int /\ IsFiniteSet(1 .. K - 1) /\ IsFiniteSet(1 .. K)
  BY <1>1, FS_Interval
<1>5. \A p : IsFiniteSet(WonBy(p)) /\ IsFiniteSet(WonByNow(p))
  BY <1>1, <1>3, <1>4, FS_Subset
<1> SUFFICES ASSUME NEW p \in Players
             PROVE  tricksWon'[p] = Cardinality(WonByNow(p)) /\ tricksWon'[p] \in Nat
  BY <1>3, <1>5
<1> HIDE DEF K
<1>6. tricksWon[p] = Cardinality(WonBy(p)) /\ tricksWon[p] \in Nat
  BY <1>2 DEF CountInv
<1>7. CASE p = w.player
  <2>1. WonByNow(p) = WonBy(p) \cup {K} /\ K \notin WonBy(p)
    BY <1>1, <1>3, <1>7
  <2>2. Cardinality(WonByNow(p)) = Cardinality(WonBy(p)) + 1
    BY <1>5, <2>1, FS_AddElement
  <2> QED
    BY <1>2, <1>6, <1>7, <2>2
<1>8. CASE p # w.player
  BY <1>1, <1>2, <1>6, <1>8
<1> QED
  BY <1>7, <1>8

\* The counts are kept by every step.
LEMMA InitCount == Init => CountInv
<1> SUFFICES ASSUME Init PROVE CountInv
  OBVIOUS
<1>1. history = <<>> /\ phase = "playing" /\ trickNumber = 1 /\ tricksWon = [p \in Players |-> 0]
  BY DEF Init
<1>2. \A p : WonBy(p) = {}
  BY <1>1 DEF WonBy, Tricks
<1>3. Cardinality({}) = 0
  BY FS_EmptySet
<1> QED
  <2>1. Len(history) = trickNumber - 1
    BY <1>1
  <2>2. ASSUME NEW p \in Players PROVE tricksWon[p] = Cardinality(WonBy(p))
    BY <1>1, <1>2, <1>3
  <2> QED
    BY <1>1, <2>1, <2>2 DEF CountInv

\* Every step keeps the counters of the attempt in step with its history.
LEMMA NextCount == Whole /\ CountInv /\ [Next]_vars => CountInv'
<1> SUFFICES ASSUME Whole, CountInv, [Next]_vars PROVE CountInv'
  OBVIOUS
<1>1. CASE Quiet
  <2>1. tricksWon' = tricksWon /\ history' = history /\ trickNumber \in Nat
    BY <1>1 DEF Quiet, Whole, TypeOK
  <2>2. \A p : WonBy(p)' = WonBy(p)
    BY <2>1 DEF WonBy, Tricks
  <2>3. Len(history') = IF phase' = "playing" THEN trickNumber' - 1 ELSE trickNumber'
    BY <1>1, <2>1 DEF Quiet, CountInv
  <2> QED
    BY <2>1, <2>2, <2>3 DEF CountInv, Players
<1>2. ASSUME NEW w, NEW plays, NEW held, TrickWon(w, plays, held) PROVE CountInv'
  <2>1. \A p \in Players : tricksWon'[p] = Cardinality(WonByNow(p))
    BY <1>2, CountedTricks
  <2>2. \A p : WonBy(p)' = WonByNow(p)
    BY DEF WonBy, WonByNow
  <2>3. phase' # "playing" /\ trickNumber' = trickNumber
    BY <1>2 DEF TrickWon
  <2>4. Len(history') = trickNumber
    <3>1. Len(history') = Len(history) + 1 /\ Len(history) \in Nat
      BY <1>2, HistoryGrows
    <3>2. Len(history) = trickNumber - 1 /\ trickNumber \in Nat
      BY <1>2 DEF CountInv, TrickWon, Whole, TypeOK
    <3> QED
      BY <3>1, <3>2
  <2> QED
    BY <2>1, <2>2, <2>3, <2>4 DEF CountInv, Players
<1> QED
  BY <1>1, <1>2, EveryStep

-----------------------------------------------------------------------------
(* The end of a trick, by the way the mission ends.                        *)

\* All goals have succeeded exactly when they have been met.
LEMMA DoneIsMet ==
  ASSUME Whole, Books, NEW w, NEW plays, NEW held, TrickWon(w, plays, held)
  PROVE  /\ TasksDone(status') <=> GoalsMet'
         /\ Missed(w, plays) => ~GoalsMet'
         /\ Goals = {} => ~Missed(w, plays)
<1> DEFINE caught == Caught(plays)
           missed == Missed(w, plays)
<1>0. SetupInv /\ TricksInv /\ BookInv
  BY DEF Books
<1>1. BookInv' /\ setup' = setup /\ Goals' = Goals
  BY <1>0, BooksAreKept DEF TrickWon, Goals
<1>2. \A t \in Goals : status'[t] = IF t \notin caught THEN status[t]
                                    ELSE IF missed THEN "failed" ELSE "success"
  BY DEF TrickWon, Booked
<1>3. (caught = {} => ~missed) /\ caught \subseteq Goals
  <2>1. caught = {} => ~missed
    BY <1>0, BookedRight
  <2> QED
    BY <2>1 DEF Caught
<1>4. \A t \in Goals : status[t] \in {"pending", "success", "failed"}
  BY DEF Whole, TypeOK
<1> HIDE DEF caught, missed
<1>5. ASSUME missed PROVE ~GoalsMet'
  <2>1. PICK t \in Goals : status'[t] = "failed"
    BY <1>2, <1>3, <1>5
  <2> QED
    BY <1>1, <2>1 DEF BookInv
<1>6. ASSUME TasksDone(status') PROVE GoalsMet'
  <2>1. Goals # {} /\ \A t \in Goals : status'[t] = "success"
    BY <1>6 DEF TasksDone
  <2>2. Book!OrderExists(setup.token, Batches')
    BY <1>1, <2>1 DEF BookInv
  <2>3. \A t \in Goals : CaughtByOwner(t)'
    BY <1>1, <2>1 DEF BookInv
  <2> QED
    BY <1>1, <2>1, <2>2, <2>3 DEF GoalsMet, CaughtByOwner, WonBy, Tricks, Cards, Plays
<1>7. ASSUME GoalsMet' PROVE TasksDone(status')
  <2>1. Goals # {} /\ \A t \in Goals : \E k \in Tricks' : setup.goal[t] \in Cards(history'[k].plays)
    BY <1>1, <1>7 DEF GoalsMet, WonBy, Cards, Plays
  <2>2. \A t \in Goals : setup.goal[t] \in CardsWon'
    BY <2>1 DEF CardsWon, Tricks, Cards, Plays
  <2>3. \A t \in Goals : status'[t] # "pending" /\ status'[t] # "failed"
    BY <1>1, <1>7, <2>2 DEF BookInv
  <2>4. \A t \in Goals : status'[t] \in {"pending", "success", "failed"}
    BY <1>2, <1>4
  <2> QED
    BY <2>1, <2>3, <2>4 DEF TasksDone
<1> QED
  BY <1>3, <1>5, <1>6, <1>7 DEF caught, missed

\* What resolve decides from the new counters and goals, mission by mission.
LEMMA Outcome ==
  ASSUME Whole, Books, CountInv, NEW w, NEW plays, NEW held, TrickWon(w, plays, held)
  PROVE  /\ phase' = "trick_result" => trickNumber < LastTrick /\ ~Broken(w, plays, held)
         /\ Ending(mission) # "tasks" =>
              (phase' = "success" <=> ~Broken(w, plays, held) /\ Accomplished(status', held, Counted(w, plays)))
         /\ Ending(mission) = "full_hand" => (phase' = "success" <=> ~Broken(w, plays, held) /\ AllPlayed')
         /\ Ending(mission) = "tasks" => (phase' = "success" <=> ~Broken(w, plays, held) /\ GoalsMet')
<1> DEFINE broken == Broken(w, plays, held)
           missed == Missed(w, plays)
           done   == Accomplished(status', held, Counted(w, plays))
<1>1. phase' = IF missed \/ broken THEN "failure"
               ELSE IF done THEN "success"
               ELSE IF Exhausted(held) THEN "failure"
               ELSE "trick_result"
  BY DEF TrickWon
<1>2. /\ trickNumber \in 1 .. LastTrick /\ LastTrick \in Nat
      /\ Exhausted(held) <=> trickNumber = LastTrick
      /\ AllPlayed' <=> trickNumber = LastTrick
  BY TrickFacts
<1>3. /\ TasksDone(status') <=> GoalsMet'
      /\ missed => ~GoalsMet'
      /\ Goals = {} => ~missed
  BY DoneIsMet
<1>4. Ending(mission) # "tasks" => ~missed
  <2>1. mission \in MissionIds /\ setup.goal \in [1 .. TaskCount[mission] -> Deck]
    BY DEF Books, SetupInv, GoalCount
  <2>2. Ending(mission) # "tasks" => TaskCount[mission] = 0
    BY <2>1, TricksAssumption
  <2>3. Ending(mission) # "tasks" => Goals = {}
    BY <2>1, <2>2 DEF Goals
  <2> QED
    BY <1>3, <2>3
<1>5. /\ Ending(mission) = "full_hand" => (done <=> Exhausted(held))
      /\ Ending(mission) = "tasks" => (done <=> TasksDone(status'))
  BY DEF Accomplished
<1>6. phase' = "success" <=> ~missed /\ ~broken /\ done
  BY <1>1
<1>7. phase' = "trick_result" => ~broken /\ ~Exhausted(held)
  BY <1>1
<1> HIDE DEF broken, missed, done
<1>8. phase' = "trick_result" => trickNumber < LastTrick
  BY <1>2, <1>7
<1> QED
  BY <1>2, <1>3, <1>4, <1>5, <1>6, <1>7, <1>8 DEF broken, missed, done

-----------------------------------------------------------------------------
(* The missions about who wins, mission by mission: what holds while the   *)
(* attempt goes on, and the verdict after one trick more.                  *)

Verdict == phase' = "success" <=> MissionMet'

NoneWon  == mission = 5 => WonBy(setup.selected) = {}
NoTops   == mission \in {16, 17} => NoTopColourWon
Even     == mission \in {29, 34} => Balanced
FirstWon == mission = 34 => Tricks \cap {1} \subseteq WonBy(setup.commander)
OnceWon  == mission = 33 =>
              \A j, k \in WonBy(setup.selected) : j = k /\ ~IsRocket(WonWith(k))
EdgesWon == mission = 41 =>
              /\ WonBy(setup.selected) = Tricks \cap {1}
              /\ \A k \in WonBy(setup.selected) : ~IsRocket(WonWith(k))
PartsWon == mission = 50 =>
              /\ WonBy(setup.selected) = Tricks \cap (1 .. LeadTricks)
              /\ WonBy(setup.secondary) = {}

\* Mission 5: the sick member wins nothing.
LEMMA VerdictOf5 ==
  ASSUME Whole, Books, CountInv, NoneWon, mission = 5,
         NEW w, NEW plays, NEW held, TrickWon(w, plays, held)
  PROVE  Verdict /\ (phase' = "trick_result" => NoneWon')
<1> DEFINE one == setup.selected
<1>1. /\ setup' = setup /\ mission' = 5
      /\ \A p : WonByNow(p) = IF p = w.player THEN WonBy(p) \cup {trickNumber} ELSE WonBy(p)
  BY TrickFacts
<1>2. /\ phase' = "trick_result" => ~Broken(w, plays, held)
      /\ phase' = "success" <=> ~Broken(w, plays, held) /\ AllPlayed'
  BY Outcome DEF Ending
<1>3. Broken(w, plays, held) <=> w.player = one
  BY DEF Broken, ConditionBroken, RoleBroken
<1>4. MissionMet' <=> AllPlayed' /\ WonByNow(one) = {}
  BY <1>1 DEF MissionMet, WonBy, WonByNow
<1>5. NoneWon' <=> WonByNow(one) = {}
  BY <1>1 DEF NoneWon, WonBy, WonByNow
<1>6. WonByNow(one) = {} <=> w.player # one
  BY <1>1 DEF NoneWon
<1> QED
  BY <1>2, <1>3, <1>4, <1>5, <1>6 DEF Verdict

\* Missions 16 and 17: no trick is won with a highest colour card.
LEMMA VerdictOf16 ==
  ASSUME Whole, Books, CountInv, NoTops, mission \in {16, 17},
         NEW w, NEW plays, NEW held, TrickWon(w, plays, held)
  PROVE  Verdict /\ (phase' = "trick_result" => NoTops')
<1>1. /\ setup' = setup /\ mission' = mission /\ Tricks' = Tricks \cup {trickNumber}
      /\ \A k \in Tricks : WonWithNow(k) = WonWith(k)
      /\ WonWithNow(trickNumber) = w.card
  BY TrickFacts
<1>2. Broken(w, plays, held) <=> ~IsRocket(w.card) /\ w.card.rank = TopRank
  BY DEF Broken, ConditionBroken, RoleBroken
<1>3. NoTopColourWon' <=> \A k \in Tricks' : WonWithNow(k).rank = TopRank => IsRocket(WonWithNow(k))
  BY DEF NoTopColourWon, WonWith, WonWithNow, IsRocket
<1>4. NoTopColourWon' <=> ~Broken(w, plays, held)
  BY <1>1, <1>2, <1>3 DEF NoTops, NoTopColourWon
<1>5. NoTops' <=> NoTopColourWon'
  BY <1>1 DEF NoTops
<1>6. phase' = "trick_result" => ~Broken(w, plays, held)
  BY Outcome
<1>7. CASE mission = 16
  <2>1. phase' = "success" <=> ~Broken(w, plays, held) /\ AllPlayed'
    BY <1>7, Outcome DEF Ending
  <2>2. MissionMet' <=> AllPlayed' /\ NoTopColourWon'
    BY <1>1, <1>7 DEF MissionMet
  <2> QED
    BY <1>4, <1>5, <1>6, <2>1, <2>2 DEF Verdict
<1>8. CASE mission = 17
  <2>1. phase' = "success" <=> ~Broken(w, plays, held) /\ GoalsMet'
    BY <1>8, Outcome DEF Ending
  <2>2. MissionMet' <=> GoalsMet' /\ NoTopColourWon'
    BY <1>1, <1>8 DEF MissionMet
  <2> QED
    BY <1>4, <1>5, <1>6, <2>1, <2>2 DEF Verdict
<1> QED
  BY <1>7, <1>8

\* Nobody is ever more than one trick ahead: one more trick to compare.
LEMMA BalanceGrows ==
  ASSUME Whole, CountInv, Balanced, NEW w, NEW plays, NEW held, TrickWon(w, plays, held)
  PROVE  Balanced' <=> ~ \E p, q \in Players : tricksWon'[p] > tricksWon'[q] + 1
<1> DEFINE K == trickNumber
<1>1. /\ Tricks = 1 .. K - 1 /\ Tricks' = Tricks \cup {K} /\ K \in Nat /\ Tricks' = 1 .. K
      /\ \A p : WonByNow(p) = IF p = w.player THEN WonBy(p) \cup {K} ELSE WonBy(p)
  BY TrickFacts
<1>2. \A p \in Players : /\ WonBy(p) \subseteq Tricks /\ WonByNow(p) \subseteq Tricks'
                         /\ tricksWon'[p] = Cardinality(WonByNow(p)) /\ tricksWon'[p] \in Nat
  BY CountedTricks
<1>3. Balanced' <=> \A k \in Tricks' : \A p, q \in Players :
                      Cardinality(WonByNow(p) \cap 1 .. k) <= Cardinality(WonByNow(q) \cap 1 .. k) + 1
  BY DEF Balanced, WonBy, WonByNow, Players
<1> HIDE DEF K
<1>4. ASSUME NEW p \in Players PROVE WonByNow(p) \cap 1 .. K = WonByNow(p)
  BY <1>1, <1>2
<1>5. ASSUME NEW p \in Players, NEW k \in Tricks PROVE WonByNow(p) \cap 1 .. k = WonBy(p) \cap 1 .. k
  <2>1. K \notin 1 .. k
    BY <1>1
  <2> QED
    BY <1>1, <2>1
<1>6. \A k \in Tricks : \A p, q \in Players :
        Cardinality(WonByNow(p) \cap 1 .. k) <= Cardinality(WonByNow(q) \cap 1 .. k) + 1
  BY <1>5 DEF Balanced
<1>7. Balanced' <=> \A p, q \in Players : tricksWon'[p] <= tricksWon'[q] + 1
  <2> DEFINE Ahead(p, q, k) == Cardinality(WonByNow(p) \cap 1 .. k) <= Cardinality(WonByNow(q) \cap 1 .. k) + 1
  <2>1. \A p, q \in Players : Ahead(p, q, K) <=> tricksWon'[p] <= tricksWon'[q] + 1
    BY <1>2, <1>4
  <2>2. \A k \in Tricks : \A p, q \in Players : Ahead(p, q, k)
    BY <1>6
  <2>3. Balanced' <=> \A k \in Tricks' : \A p, q \in Players : Ahead(p, q, k)
    BY <1>3
  <2> HIDE DEF Ahead
  <2> QED
    BY <1>1, <2>1, <2>2, <2>3
<1>8. \A p, q \in Players : tricksWon'[p] <= tricksWon'[q] + 1 <=> ~(tricksWon'[p] > tricksWon'[q] + 1)
  BY <1>2
<1> QED
  BY <1>7, <1>8

\* Mission 29, and 34 with its first and last trick for the commander.
LEMMA VerdictOf29 ==
  ASSUME Whole, Books, CountInv, Even, FirstWon, mission \in {29, 34},
         NEW w, NEW plays, NEW held, TrickWon(w, plays, held)
  PROVE  Verdict /\ (phase' = "trick_result" => Even' /\ FirstWon')
<1> DEFINE K == trickNumber
           captain == setup.commander
<1>1. /\ setup' = setup /\ mission' = mission
      /\ K \in 1 .. LastTrick /\ LastTrick \in Nat
      /\ Tricks = 1 .. K - 1 /\ Tricks' = Tricks \cup {K} /\ K \notin Tricks
      /\ AllPlayed' <=> K = LastTrick
      /\ Exhausted(held) <=> K = LastTrick
      /\ \A p : WonByNow(p) = IF p = w.player THEN WonBy(p) \cup {K} ELSE WonBy(p)
  BY TrickFacts
<1>2. /\ phase' = "trick_result" => ~Broken(w, plays, held)
      /\ phase' = "success" <=> ~Broken(w, plays, held) /\ AllPlayed'
  BY Outcome DEF Ending
<1>3. Balanced' <=> ~ \E p, q \in Players : tricksWon'[p] > tricksWon'[q] + 1
  BY BalanceGrows DEF Even
<1>4. Even' <=> Balanced'
  BY <1>1 DEF Even
<1>5. CASE mission = 29
  <2>1. Broken(w, plays, held) <=> \E p, q \in Players : tricksWon'[p] > tricksWon'[q] + 1
    BY <1>5 DEF Broken, ConditionBroken, RoleBroken
  <2>2. MissionMet' <=> AllPlayed' /\ Balanced'
    BY <1>1, <1>5 DEF MissionMet
  <2>3. FirstWon'
    BY <1>1, <1>5 DEF FirstWon
  <2> QED
    BY <1>2, <1>3, <1>4, <2>1, <2>2, <2>3 DEF Verdict
<1>6. CASE mission = 34
  <2>1. Broken(w, plays, held) <=> \/ \E p, q \in Players : tricksWon'[p] > tricksWon'[q] + 1
                                   \/ (K = 1 \/ K = LastTrick) /\ w.player # captain
    BY <1>1, <1>6 DEF Broken, ConditionBroken, RoleBroken
  <2>2. MissionMet' <=> AllPlayed' /\ Balanced' /\ {1, LastTrick} \subseteq WonByNow(captain)
    BY <1>1, <1>6 DEF MissionMet, WonBy, WonByNow, LastTrick, Deck
  <2>3. FirstWon' <=> Tricks' \cap {1} \subseteq WonByNow(captain)
    BY <1>1, <1>6 DEF FirstWon, WonBy, WonByNow
  <2>4. K # 1 => 1 \in WonBy(captain)
    BY <1>1, <1>6 DEF FirstWon
  <2>5. K \notin WonBy(captain)
    BY <1>1 DEF WonBy
  <2>6. 1 \in WonByNow(captain) <=> ~(K = 1 /\ w.player # captain)
    BY <1>1, <2>4, <2>5
  <2>7. K \in WonByNow(captain) <=> w.player = captain
    BY <1>1, <2>5
  <2> HIDE DEF K
  <2> QED
    BY <1>1, <1>2, <1>3, <1>4, <2>1, <2>2, <2>3, <2>6, <2>7 DEF Verdict
<1> QED
  BY <1>5, <1>6

\* Mission 33: the selected member wins one trick, and not with a rocket.
LEMMA VerdictOf33 ==
  ASSUME Whole, Books, CountInv, OnceWon, mission = 33,
         NEW w, NEW plays, NEW held, TrickWon(w, plays, held)
  PROVE  Verdict /\ (phase' = "trick_result" => OnceWon')
<1> DEFINE K == trickNumber
           one == setup.selected
           S == WonBy(one)
           T == WonByNow(one)
<1>1. /\ setup' = setup /\ mission' = mission
      /\ Tricks' = Tricks \cup {K} /\ K \notin Tricks
      /\ AllPlayed' <=> K = LastTrick
      /\ Exhausted(held) <=> K = LastTrick
      /\ T = IF one = w.player THEN S \cup {K} ELSE S
      /\ \A k \in Tricks : WonWithNow(k) = WonWith(k)
      /\ WonWithNow(K) = w.card
  BY TrickFacts
<1>2. /\ phase' = "trick_result" => ~Broken(w, plays, held)
      /\ phase' = "success" <=> ~Broken(w, plays, held) /\ AllPlayed'
  BY Outcome DEF Ending
<1>3. one \in Players
  BY DEF Books, SetupInv
<1>4. /\ IsFiniteSet(T) /\ S \subseteq Tricks /\ T \subseteq Tricks'
      /\ tricksWon'[one] = Cardinality(T) /\ tricksWon'[one] \in Nat
  BY <1>3, CountedTricks
<1>5. /\ \A j, k \in S : j = k
      /\ \A k \in S : ~IsRocket(WonWith(k))
  BY DEF OnceWon
<1>6. Broken(w, plays, held) <=>
        \/ w.player = one /\ (IsRocket(w.card) \/ tricksWon'[one] > 1)
        \/ K = LastTrick /\ tricksWon'[one] # 1
  BY <1>1 DEF Broken, ConditionBroken, RoleBroken
<1>7. MissionMet' <=> AllPlayed' /\ \E k \in Tricks' : T = {k} /\ ~IsRocket(WonWithNow(k))
  BY <1>1 DEF MissionMet, WonBy, WonByNow, WonWith, WonWithNow, IsRocket
<1>8. OnceWon' <=> \A j, k \in T : j = k /\ ~IsRocket(WonWithNow(k))
  BY <1>1 DEF OnceWon, WonBy, WonByNow, WonWith, WonWithNow, IsRocket
<1> HIDE DEF S, T, K, one
<1>9. tricksWon'[one] = 1 <=> \E k : T = {k}
  BY <1>4, FS_Singleton
<1>10. tricksWon'[one] = 0 <=> T = {}
  BY <1>4, FS_EmptySet
<1>11. \A k \in T : ~IsRocket(WonWithNow(k)) <=> ~(k = K /\ IsRocket(w.card))
  <2>1. \A k \in T : k = K \/ k \in S
    BY <1>1
  <2>2. \A k \in S : k \in Tricks /\ k # K /\ ~IsRocket(WonWithNow(k))
    BY <1>1, <1>4, <1>5
  <2> QED
    BY <1>1, <2>1, <2>2
<1>12. K \in T <=> w.player = one
  BY <1>1, <1>4
<1>13. Verdict
  <2>1. ASSUME MissionMet' PROVE phase' = "success"
    <3>1. PICK k \in Tricks' : T = {k} /\ ~IsRocket(WonWithNow(k))
      BY <1>7, <2>1
    <3>2. tricksWon'[one] = 1 /\ ~(w.player = one /\ IsRocket(w.card))
      BY <1>9, <1>11, <1>12, <3>1
    <3> QED
      BY <1>2, <1>6, <1>7, <2>1, <3>2
  <2>2. ASSUME phase' = "success" PROVE MissionMet'
    <3>1. tricksWon'[one] = 1 /\ AllPlayed' /\ ~(w.player = one /\ IsRocket(w.card))
      BY <1>1, <1>2, <1>6, <2>2
    <3>2. PICK k : T = {k}
      BY <1>9, <3>1
    <3>3. k \in Tricks' /\ ~IsRocket(WonWithNow(k))
      BY <1>4, <1>11, <1>12, <3>1, <3>2
    <3> QED
      BY <1>7, <3>1, <3>2, <3>3
  <2> QED
    BY <2>1, <2>2 DEF Verdict
<1>14. ASSUME phase' = "trick_result" PROVE OnceWon'
  <2>1. ~(w.player = one /\ (IsRocket(w.card) \/ tricksWon'[one] > 1))
    BY <1>2, <1>6, <1>14
  <2>2. CASE w.player = one
    <3>1. tricksWon'[one] = 1
      BY <1>4, <1>10, <1>12, <2>1, <2>2
    <3> QED
      BY <1>8, <1>9, <1>11, <2>1, <2>2, <3>1
  <2>3. CASE w.player # one
    BY <1>1, <1>5, <1>8, <1>11, <1>12, <2>3
  <2> QED
    BY <2>2, <2>3
<1> QED
  BY <1>13, <1>14

\* Mission 41: the selected member wins the first trick and the last, and no
\* other, and not with a rocket.
LEMMA VerdictOf41 ==
  ASSUME Whole, Books, CountInv, EdgesWon, mission = 41,
         NEW w, NEW plays, NEW held, TrickWon(w, plays, held)
  PROVE  Verdict /\ (phase' = "trick_result" => EdgesWon')
<1> DEFINE K == trickNumber
           one == setup.selected
           S == WonBy(one)
           T == WonByNow(one)
<1>1. /\ setup' = setup /\ mission' = mission
      /\ K \in 1 .. LastTrick /\ LastTrick \in Nat
      /\ Tricks = 1 .. K - 1 /\ Tricks' = Tricks \cup {K} /\ K \notin Tricks
      /\ AllPlayed' <=> K = LastTrick
      /\ Exhausted(held) <=> K = LastTrick
      /\ T = IF one = w.player THEN S \cup {K} ELSE S
      /\ \A k \in Tricks : WonWithNow(k) = WonWith(k)
      /\ WonWithNow(K) = w.card
  BY TrickFacts
<1>2. /\ phase' = "trick_result" => K < LastTrick /\ ~Broken(w, plays, held)
      /\ phase' = "success" <=> ~Broken(w, plays, held) /\ AllPlayed'
  BY Outcome DEF Ending
<1>3. S = Tricks \cap {1} /\ \A k \in S : ~IsRocket(WonWith(k))
  BY DEF EdgesWon
<1>4. Broken(w, plays, held) <=>
        \/ w.player = one /\ IsRocket(w.card)
        \/ (w.player = one) # (K = 1 \/ K = LastTrick)
  BY <1>1 DEF Broken, ConditionBroken, RoleBroken
<1>5. MissionMet' <=> AllPlayed' /\ T = {1, LastTrick} /\ \A k \in T : ~IsRocket(WonWithNow(k))
  BY <1>1 DEF MissionMet, WonBy, WonByNow, WonWith, WonWithNow, IsRocket, LastTrick, Deck
<1>6. EdgesWon' <=> T = Tricks' \cap {1} /\ \A k \in T : ~IsRocket(WonWithNow(k))
  BY <1>1 DEF EdgesWon, WonBy, WonByNow, WonWith, WonWithNow, IsRocket
<1> HIDE DEF S, T, K, one
<1>7. (\A k \in T : ~IsRocket(WonWithNow(k))) <=> ~(w.player = one /\ IsRocket(w.card))
  <2>1. \A k \in S : k \in Tricks /\ k # K /\ ~IsRocket(WonWithNow(k))
    BY <1>1, <1>3
  <2> QED
    BY <1>1, <2>1
<1>8. S = IF K = 1 THEN {} ELSE {1}
  BY <1>1, <1>3
<1>9. K = LastTrick => (T = {1, LastTrick} <=> w.player = one)
  BY <1>1, <1>8
<1>10. K < LastTrick /\ (w.player = one <=> K = 1) => T = Tricks' \cap {1}
  BY <1>1, <1>8
<1>11. Verdict
  BY <1>1, <1>2, <1>4, <1>5, <1>7, <1>9 DEF Verdict
<1>12. ASSUME phase' = "trick_result" PROVE EdgesWon'
  <2>1. K < LastTrick /\ K \in Int /\ LastTrick \in Int /\ ~Broken(w, plays, held)
    BY <1>1, <1>2, <1>12
  <2>2. K # LastTrick
    BY <2>1
  <2> QED
    BY <1>4, <1>6, <1>7, <1>10, <2>1, <2>2
<1> QED
  BY <1>11, <1>12

\* Mission 50: one member wins the first tricks, another the last, and none of
\* the two any in between.
LEMMA VerdictOf50 ==
  ASSUME Whole, Books, CountInv, PartsWon, mission = 50,
         NEW w, NEW plays, NEW held, TrickWon(w, plays, held)
  PROVE  Verdict /\ (phase' = "trick_result" => PartsWon')
<1> DEFINE K == trickNumber
           one == setup.selected
           two == setup.secondary
           S == WonBy(one)
           T == WonByNow(one)
           U == WonByNow(two)
<1>1. /\ setup' = setup /\ mission' = mission
      /\ K \in 1 .. LastTrick /\ LastTrick \in Nat
      /\ Tricks = 1 .. K - 1 /\ Tricks' = Tricks \cup {K} /\ K \notin Tricks
      /\ AllPlayed' <=> K = LastTrick
      /\ Exhausted(held) <=> K = LastTrick
      /\ T = IF one = w.player THEN S \cup {K} ELSE S
      /\ U = IF two = w.player THEN WonBy(two) \cup {K} ELSE WonBy(two)
  BY TrickFacts
<1>2. /\ phase' = "trick_result" => K < LastTrick /\ ~Broken(w, plays, held)
      /\ phase' = "success" <=> ~Broken(w, plays, held) /\ AllPlayed'
  BY Outcome DEF Ending
<1>3. S = Tricks \cap (1 .. LeadTricks) /\ WonBy(two) = {}
  BY DEF PartsWon
<1>4. one # two /\ LeadTricks \in Nat /\ LeadTricks < LastTrick
  BY TricksAssumption DEF Books, SetupInv
<1>5. Broken(w, plays, held) <=>
        \/ K <= LeadTricks /\ w.player # one
        \/ K > LeadTricks /\ K = LastTrick /\ w.player # two
        \/ K > LeadTricks /\ K # LastTrick /\ w.player \in {one, two}
  BY <1>1 DEF Broken, ConditionBroken, RoleBroken
<1>6. MissionMet' <=> AllPlayed' /\ T = 1 .. LeadTricks /\ U = {LastTrick}
  BY <1>1 DEF MissionMet, WonBy, WonByNow, LastTrick, Deck
<1>7. PartsWon' <=> T = Tricks' \cap (1 .. LeadTricks) /\ U = {}
  BY <1>1 DEF PartsWon, WonBy, WonByNow
<1> HIDE DEF S, T, U, K, one, two
<1>8. ASSUME K = LastTrick PROVE /\ Broken(w, plays, held) <=> w.player # two
                                 /\ T = 1 .. LeadTricks /\ U = {LastTrick} <=> w.player = two
  <2>1. S = 1 .. LeadTricks /\ K \notin 1 .. LeadTricks /\ K > LeadTricks /\ ~(K <= LeadTricks)
    BY <1>1, <1>3, <1>4, <1>8
  <2>2. Broken(w, plays, held) <=> w.player # two
    BY <1>5, <1>8, <2>1
  <2>3. CASE w.player = two
    <3>1. T = S /\ U = {K}
      BY <1>1, <1>3, <1>4, <2>3
    <3> QED
      BY <1>8, <2>1, <2>2, <2>3, <3>1
  <2>4. CASE w.player # two
    <3>1. U = {}
      BY <1>1, <1>3, <2>4
    <3> QED
      BY <2>2, <2>4, <3>1
  <2> QED
    BY <2>3, <2>4
<1>9. Verdict
  BY <1>1, <1>2, <1>6, <1>8 DEF Verdict
<1>10. ASSUME phase' = "trick_result" PROVE PartsWon'
  <2>1. K < LastTrick /\ K \in Int /\ LastTrick \in Int /\ ~Broken(w, plays, held)
    BY <1>1, <1>2, <1>10
  <2>2. CASE K <= LeadTricks
    <3>1. w.player = one /\ K \in 1 .. LeadTricks
      BY <1>1, <1>4, <1>5, <2>1, <2>2
    <3>2. T = S \cup {K} /\ U = {}
      BY <1>1, <1>3, <1>4, <3>1
    <3> QED
      BY <1>1, <1>3, <1>7, <3>1, <3>2
  <2>3. CASE ~(K <= LeadTricks)
    <3>1. K > LeadTricks /\ K # LastTrick /\ K \notin 1 .. LeadTricks
      BY <1>4, <2>1, <2>3
    <3>2. w.player \notin {one, two}
      BY <1>5, <2>1, <3>1
    <3>3. T = S /\ U = {}
      BY <1>1, <1>3, <3>2
    <3> QED
      BY <1>1, <1>3, <1>7, <3>1, <3>3
  <2> QED
    BY <2>2, <2>3
<1> QED
  BY <1>9, <1>10

-----------------------------------------------------------------------------
(* The missions about goals and counters.                                  *)

\* The missions with a condition of their own.
Special == {5, 16, 17, 29, 33, 34, 41, 50, 9, 26, 13, 44, 46, 48}

\* Every other mission is about its goals only.
LEMMA VerdictOfTasks ==
  ASSUME Whole, Books, CountInv, mission \notin Special,
         NEW w, NEW plays, NEW held, TrickWon(w, plays, held)
  PROVE  Verdict
<1>1. mission' = mission
  BY TrickFacts
<1>2. Ending(mission) = "tasks"
  BY DEF Ending, Special
<1>3. phase' = "success" <=> ~Broken(w, plays, held) /\ GoalsMet'
  BY <1>2, Outcome
<1>4. ~Broken(w, plays, held)
  BY DEF Broken, ConditionBroken, RoleBroken, Special
<1>5. MissionMet' <=> GoalsMet'
  BY <1>1 DEF MissionMet, Special
<1> QED
  BY <1>3, <1>4, <1>5 DEF Verdict

\* Mission 48: the goal with omega falls in the last trick.
OmegaLeft == mission = 48 =>
  \A t \in Goals : setup.token[t].kind = "omega" => setup.goal[t] \notin CardsWon

\* Mission 48: all goals met, the one with omega in the last trick.
LEMMA VerdictOf48 ==
  ASSUME Whole, Books, CountInv, OmegaLeft, mission = 48,
         NEW w, NEW plays, NEW held, TrickWon(w, plays, held)
  PROVE  Verdict /\ (phase' = "trick_result" => OmegaLeft')
<1> DEFINE K == trickNumber
           Omega(t) == setup.token[t].kind = "omega"
<1>1. /\ setup' = setup /\ mission' = mission
      /\ K \in 1 .. LastTrick /\ LastTrick \in Nat
      /\ Tricks' = Tricks \cup {K} /\ K \notin Tricks
      /\ AllPlayed' <=> K = LastTrick
      /\ \A k \in Tricks : history'[k] = history[k]
      /\ history'[K].plays = plays
      /\ CardsWon' = CardsWon \cup Cards(plays)
  BY TrickFacts
<1>2. Goals' = Goals
  BY <1>1 DEF Goals
<1>3. \A t \in Goals : t \in Caught(plays) <=> setup.goal[t] \in Cards(plays)
  <2>1. Caught(plays) = GoalsIn(setup.goal, plays)
    BY BookedRight DEF Books
  <2> QED
    BY <2>1 DEF GoalsIn, Goals
<1>4. /\ phase' = "trick_result" => K < LastTrick /\ ~Broken(w, plays, held)
      /\ phase' = "success" <=> ~Broken(w, plays, held) /\ GoalsMet'
  BY Outcome DEF Ending
<1>5. Broken(w, plays, held) <=> K # LastTrick /\ \E t \in Caught(plays) : Omega(t)
  BY DEF Broken, ConditionBroken, RoleBroken
<1>6. MissionMet' <=> /\ GoalsMet' /\ AllPlayed'
                      /\ \A t \in Goals : Omega(t) => setup.goal[t] \in Cards(history'[LastTrick].plays)
  BY <1>1, <1>2 DEF MissionMet, Cards, Plays, LastTrick, Deck
<1>7. GoalsMet' => /\ Goals # {}
                   /\ \A t \in Goals : setup.goal[t] \in CardsWon'
  <2>1. GoalsMet' => /\ Goals # {}
                     /\ \A t \in Goals : \E k \in Tricks' : setup.goal[t] \in Cards(history'[k].plays)
    BY <1>1, <1>2 DEF GoalsMet, WonBy, Cards, Plays
  <2> QED
    BY <2>1 DEF CardsWon, Tricks, Cards, Plays
<1>8. Goals # {} => \E t \in Goals : Omega(t)
  <2>1. GoalCount \in Nat /\ Goals = 1 .. GoalCount /\ setup.token \in TokensOf(48, GoalCount)
    BY GoalFacts DEF Books, SetupInv
  <2>2. setup.token = TokensDealt(48, GoalCount)
    BY <2>1 DEF TokensOf
  <2>3. AbsoluteCount(48) = 0 /\ RelativeCount(48) = 0 /\ HasOmega(48)
    BY DEF AbsoluteCount, RelativeCount, HasOmega
  <2>4. Goals # {} => 1 \in Goals
    BY <2>1
  <2>5. 1 \in Goals => Omega(1)
    BY <2>1, <2>2, <2>3 DEF TokensDealt, Token
  <2> QED
    BY <2>4, <2>5
<1>9. \A t \in Goals : Omega(t) => setup.goal[t] \notin CardsWon
  BY DEF OmegaLeft
<1>10. OmegaLeft' <=> \A t \in Goals : Omega(t) => setup.goal[t] \notin CardsWon'
  BY <1>1, <1>2 DEF OmegaLeft
<1> HIDE DEF K, Omega
<1>11. ASSUME phase' = "success" PROVE MissionMet'
  <2>1. PICK t \in Goals : Omega(t)
    BY <1>4, <1>7, <1>8, <1>11
  <2>2. \A u \in Goals : Omega(u) => setup.goal[u] \in Cards(plays)
    BY <1>1, <1>4, <1>7, <1>9, <1>11
  <2>3. K = LastTrick
    BY <1>3, <1>4, <1>5, <1>11, <2>1, <2>2 DEF Caught
  <2> QED
    BY <1>1, <1>4, <1>6, <1>11, <2>2, <2>3
<1>12. ASSUME MissionMet' PROVE phase' = "success"
  BY <1>1, <1>4, <1>5, <1>6, <1>12
<1>13. ASSUME phase' = "trick_result" PROVE OmegaLeft'
  <2>1. ~ \E t \in Caught(plays) : Omega(t)
    BY <1>1, <1>4, <1>5, <1>13
  <2> QED
    BY <1>1, <1>3, <1>9, <1>10, <2>1
<1> QED
  BY <1>11, <1>12, <1>13 DEF Verdict

\* The counters after a trick.
LEMMA CountersAre ==
  ASSUME Whole, NEW w, NEW plays, NEW held, TrickWon(w, plays, held)
  PROVE  LET counted == Counted(w, plays) IN
         /\ progress'.oneWins = counted.oneWins
         /\ progress'.rocketsWon = counted.rocketsWon
         /\ progress'.blackCardsWon = counted.blackCardsWon
         /\ counted.oneWins = IF mission \in {9, 26} /\ ~IsRocket(w.card) /\ w.card.rank = 1
                              THEN progress.oneWins + 1 ELSE progress.oneWins
         /\ counted.rocketsWon = IF mission \in {13, 44} /\ IsRocket(w.card)
                                 THEN Append(progress.rocketsWon, w.card.rank) ELSE progress.rocketsWon
         /\ counted.blackCardsWon =
              IF mission = 46 /\ w.player = setup.selected
              THEN progress.blackCardsWon + Cardinality({c \in Cards(plays) : c.suit = Black})
              ELSE progress.blackCardsWon
<1> DEFINE counted == Counted(w, plays)
<1>1. progress \in ProgressType
  BY DEF Whole, TypeOK
<1>2. counted \in ProgressType
  BY <1>1, CountedType DEF TrickWon
<1>3. /\ counted.oneWins = IF mission \in {9, 26} /\ ~IsRocket(w.card) /\ w.card.rank = 1
                              THEN progress.oneWins + 1 ELSE progress.oneWins
      /\ counted.rocketsWon = IF mission \in {13, 44} /\ IsRocket(w.card)
                                 THEN Append(progress.rocketsWon, w.card.rank) ELSE progress.rocketsWon
      /\ counted.blackCardsWon =
              IF mission = 46 /\ w.player = setup.selected
              THEN progress.blackCardsWon + Cardinality({c \in Cards(plays) : c.suit = Black})
              ELSE progress.blackCardsWon
  BY <1>1 DEF Counted, ProgressType
<1>4. progress' \in {counted, [counted EXCEPT !.transferApplied = TRUE]}
  BY DEF TrickWon
<1> HIDE DEF counted
<1>5. /\ progress'.oneWins = counted.oneWins
      /\ progress'.rocketsWon = counted.rocketsWon
      /\ progress'.blackCardsWon = counted.blackCardsWon
  BY <1>2, <1>4 DEF ProgressType
<1> QED
  BY <1>3, <1>5 DEF counted

\* Missions 9 and 26: tricks won with a one.
OneTricks  == {k \in Tricks : ~IsRocket(WonWith(k)) /\ WonWith(k).rank = 1}
OnesCounted == mission \in {9, 26} => progress.oneWins = Cardinality(OneTricks)

\* Missions 9 and 26: enough ones won tricks.
LEMMA VerdictOf9 ==
  ASSUME Whole, Books, CountInv, OnesCounted, mission \in {9, 26},
         NEW w, NEW plays, NEW held, TrickWon(w, plays, held)
  PROVE  Verdict /\ OnesCounted'
<1> DEFINE K == trickNumber
           counted == Counted(w, plays)
           Now == {k \in Tricks' : ~IsRocket(WonWithNow(k)) /\ WonWithNow(k).rank = 1}
<1>1. /\ setup' = setup /\ mission' = mission /\ K \in Nat
      /\ Tricks = 1 .. K - 1 /\ Tricks' = Tricks \cup {K} /\ K \notin Tricks
      /\ \A k \in Tricks : WonWithNow(k) = WonWith(k)
      /\ WonWithNow(K) = w.card
  BY TrickFacts
<1>2. /\ progress'.oneWins = counted.oneWins
      /\ counted.oneWins = IF ~IsRocket(w.card) /\ w.card.rank = 1
                           THEN progress.oneWins + 1 ELSE progress.oneWins
  BY ONLY Whole, TrickWon(w, plays, held), CountersAre, mission \in {9, 26}
<1>3. progress.oneWins = Cardinality(OneTricks) /\ progress.oneWins \in Nat
  BY DEF OnesCounted, Whole, TypeOK, ProgressType
<1>4. counted.oneWins = Cardinality(Now)
  <2>1. IsFiniteSet(OneTricks)
    <3>1. IsFiniteSet(1 .. K - 1)
      BY <1>1, FS_Interval
    <3> QED
      BY <1>1, <3>1, FS_Subset DEF OneTricks
  <2>2. OneTricks \subseteq Tricks
    BY DEF OneTricks
  <2>3. Now = IF ~IsRocket(w.card) /\ w.card.rank = 1 THEN OneTricks \cup {K} ELSE OneTricks
    BY <1>1 DEF OneTricks
  <2> HIDE DEF Now
  <2>4. Cardinality(OneTricks \cup {K}) = Cardinality(OneTricks) + 1
    BY <1>1, <2>1, <2>2, FS_AddElement
  <2> QED
    BY <1>2, <1>3, <2>3, <2>4
<1>5. OnesCounted' <=> progress'.oneWins = Cardinality(Now)
  BY <1>1 DEF OnesCounted, OneTricks, WonWith, WonWithNow, IsRocket
<1>6. MissionMet' <=> Cardinality(Now) >= OnesNeeded
  BY <1>1 DEF MissionMet, WonWith, WonWithNow, IsRocket, OnesNeeded
<1>7. phase' = "success" <=> ~Broken(w, plays, held) /\ counted.oneWins >= OnesNeeded
  <2>1. Ending(mission) = "one_wins"
    BY DEF Ending
  <2>2. Accomplished(status', held, counted) <=> counted.oneWins >= OnesNeeded
    BY <2>1 DEF Accomplished
  <2> HIDE DEF counted
  <2>3. phase' = "success" <=> ~Broken(w, plays, held) /\ Accomplished(status', held, counted)
    BY <2>1, Outcome DEF counted
  <2> QED
    BY <2>2, <2>3
<1>8. Broken(w, plays, held) <=> counted.oneWins + OnesLeft(held) < OnesNeeded
  BY DEF Broken, ConditionBroken, RoleBroken
<1>9. OnesLeft(held) \in Nat
  <2>1. UNION {Ones(held[p]) : p \in Players} \subseteq Deck
    BY DEF TrickWon, Ones
  <2> QED
    BY <2>1, HandFinite DEF OnesLeft
<1>10. counted.oneWins \in Nat /\ OnesNeeded \in Nat
  BY <1>2, <1>3 DEF OnesNeeded
<1> HIDE DEF counted, Now
<1> QED
  BY <1>2, <1>4, <1>5, <1>6, <1>7, <1>8, <1>9, <1>10 DEF Verdict

-----------------------------------------------------------------------------
(* Missions 13 and 44: every rocket wins a trick, in mission 44 in order.  *)

Ranks == {WonWith(k).rank : k \in RocketsWon}
RocketsCounted == mission \in {13, 44} =>
  {progress.rocketsWon[i] : i \in DOMAIN progress.rocketsWon} = Ranks
RocketsInOrder == mission = 44 =>
  /\ Ranks = 1 .. Len(progress.rocketsWon)
  /\ \A j, k \in RocketsWon : j < k => WonWith(j).rank < WonWith(k).rank

RocketsNow == {k \in Tricks' : IsRocket(WonWithNow(k))}
RanksNow   == {WonWithNow(k).rank : k \in RocketsNow}

\* A rocket is the only one of its rank.
LEMMA RocketIsUnique ==
  ASSUME NEW c \in Deck, NEW d \in Deck, IsRocket(c), IsRocket(d), c.rank = d.rank
  PROVE  c = d
BY TricksAssumption DEF Deck, IsRocket

\* Different tricks are won with different cards; so with rockets of different
\* ranks, and with every rocket exactly when with as many as there are.
LEMMA RocketRanks ==
  ASSUME NEW T, NEW card, \A k \in T : card[k] \in Deck,
         \A j, k \in T : card[j] = card[k] => j = k
  PROVE  LET R == {k \in T : IsRocket(card[k])} IN
         /\ \A j, k \in R : card[j].rank = card[k].rank => j = k
         /\ \A k \in R : card[k].rank \in 1 .. TopRocket
         /\ Cardinality(R) = TopRocket <=> {card[k].rank : k \in R} = 1 .. TopRocket
<1> DEFINE R == {k \in T : IsRocket(card[k])}
           f == [k \in R |-> card[k].rank]
           V == 1 .. TopRocket
<1>1. \A j, k \in R : card[j].rank = card[k].rank => j = k
  <2> SUFFICES ASSUME NEW j \in R, NEW k \in R, card[j].rank = card[k].rank PROVE j = k
    OBVIOUS
  <2>1. card[j] = card[k]
    BY RocketIsUnique
  <2> QED
    BY <2>1
<1>2. \A k \in R : card[k].rank \in V
  BY RocketRank
<1>3. f \in [R -> V] /\ \A j, k \in R : f[j] = f[k] => j = k
  BY <1>1, <1>2
<1>4. {card[k].rank : k \in R} = V <=> \A v \in V : \E k \in R : f[k] = v
  BY <1>2
<1>5. IsFiniteSet(V) /\ Cardinality(V) = TopRocket
  <2>1. TopRocket \in Nat /\ 1 \in Int /\ TopRocket \in Int /\ TopRocket >= 1
    BY TricksAssumption
  <2> QED
    BY <2>1, FS_Interval
<1> HIDE DEF f, V, R
<1>6. f \in Injection(R, V)
  BY <1>3, Fun_IsInj
<1>7. f \in Surjection(R, V) <=> \A v \in V : \E k \in R : f[k] = v
  BY <1>3 DEF Surjection
<1>8. Cardinality(R) = Cardinality(V) <=> f \in Surjection(R, V)
  BY <1>5, <1>6, FS_Injection
<1>9. Cardinality(R) = TopRocket <=> {card[k].rank : k \in R} = V
  BY <1>4, <1>5, <1>7, <1>8
<1> QED
  BY <1>1, <1>2, <1>9 DEF R, V

\* The tricks won with rockets, when the step is over: no two with the same
\* rocket, and all of them exactly when all ranks are there.
LEMMA RocketFacts ==
  ASSUME Whole, Books, CountInv, NEW w, NEW plays, NEW held, TrickWon(w, plays, held)
  PROVE  /\ RocketsNow = IF IsRocket(w.card) THEN RocketsWon \cup {trickNumber} ELSE RocketsWon
         /\ RanksNow = IF IsRocket(w.card) THEN Ranks \cup {w.card.rank} ELSE Ranks
         /\ IsRocket(w.card) => w.card.rank \notin Ranks
         /\ RanksNow \subseteq 1 .. TopRocket
         /\ \A c \in Cards(plays) : IsRocket(c) /\ c # w.card => c.rank \in 1 .. TopRocket /\ c.rank \notin RanksNow
         /\ Cardinality(RocketsNow) = TopRocket <=> RanksNow = 1 .. TopRocket
<1> DEFINE K == trickNumber
<1>1. /\ K \in Nat /\ Tricks' = 1 .. K /\ Tricks' = Tricks \cup {K} /\ K \notin Tricks
      /\ \A k \in Tricks : WonWithNow(k) = WonWith(k)
      /\ WonWithNow(K) = w.card
      /\ w.card \in Deck /\ history'[K].plays = plays
  BY TrickFacts
<1>2. /\ \A k \in Tricks' : WonWithNow(k) \in Cards(history'[k].plays)
      /\ \A j, k \in Tricks' : j # k => Cards(history'[j].plays) \cap Cards(history'[k].plays) = {}
  <2>1. TricksInv'
    BY TricksStayApart DEF Books
  <2> QED
    BY <2>1 DEF TricksInv, WonWith, WonWithNow, Cards, Plays
<1>3. \A k \in Tricks' : WonWithNow(k) \in Deck
  <2>1. \A k \in Tricks : WonWith(k) \in Deck
    <3>1. \A k \in Tricks : history[k] \in WonType
      BY DEF Whole, CardsInv, Tricks
    <3> QED
      BY <3>1 DEF WonWith, WonType
  <2> QED
    BY <1>1, <2>1
<1> HIDE DEF K
<1>4. /\ \A j, k \in RocketsNow : WonWithNow(j).rank = WonWithNow(k).rank => j = k
      /\ \A k \in RocketsNow : WonWithNow(k).rank \in 1 .. TopRocket
      /\ Cardinality(RocketsNow) = TopRocket <=> RanksNow = 1 .. TopRocket
  <2> DEFINE card == [k \in Tricks' |-> WonWithNow(k)]
             R == {k \in Tricks' : IsRocket(card[k])}
  <2>1. /\ \A k \in Tricks' : card[k] \in Deck
        /\ \A j, k \in Tricks' : card[j] = card[k] => j = k
    BY <1>2, <1>3
  <2>2. R = RocketsNow /\ {card[k].rank : k \in R} = RanksNow
    BY DEF RocketsNow, RanksNow
  <2>3. \A k \in RocketsNow : card[k] = WonWithNow(k)
    BY DEF RocketsNow
  <2> HIDE DEF card
  <2>4. /\ \A j, k \in R : card[j].rank = card[k].rank => j = k
        /\ \A k \in R : card[k].rank \in 1 .. TopRocket
        /\ Cardinality(R) = TopRocket <=> {card[k].rank : k \in R} = 1 .. TopRocket
    BY <2>1, RocketRanks
  <2> HIDE DEF R
  <2>5. \A j, k \in RocketsNow : card[j].rank = card[k].rank => j = k
    BY <2>2, <2>4
  <2>6. \A k \in RocketsNow : card[k].rank \in 1 .. TopRocket
    BY <2>2, <2>4
  <2>7. /\ \A j, k \in RocketsNow : WonWithNow(j).rank = WonWithNow(k).rank => j = k
        /\ \A k \in RocketsNow : WonWithNow(k).rank \in 1 .. TopRocket
    BY <2>3, <2>5, <2>6
  <2>8. Cardinality(RocketsNow) = TopRocket <=> RanksNow = 1 .. TopRocket
    BY <2>2, <2>4
  <2> QED
    BY <2>7, <2>8
<1>6. RocketsNow = IF IsRocket(w.card) THEN RocketsWon \cup {K} ELSE RocketsWon
  BY <1>1 DEF RocketsNow, RocketsWon
<1>7. \A k \in RocketsWon : k \in Tricks /\ k # K /\ WonWithNow(k) = WonWith(k)
  BY <1>1 DEF RocketsWon
<1>8. RanksNow = IF IsRocket(w.card) THEN Ranks \cup {w.card.rank} ELSE Ranks
  BY <1>1, <1>6, <1>7 DEF RanksNow, Ranks
<1>9. ASSUME IsRocket(w.card) PROVE w.card.rank \notin Ranks
  <2> SUFFICES ASSUME NEW k \in RocketsWon, WonWith(k).rank = w.card.rank PROVE FALSE
    BY DEF Ranks
  <2>1. k \in RocketsNow /\ K \in RocketsNow /\ k # K /\ WonWithNow(k).rank = WonWithNow(K).rank
    BY <1>1, <1>6, <1>7, <1>9
  <2> QED
    BY <1>4, <2>1
<1>10. ASSUME NEW c \in Cards(plays), IsRocket(c), c # w.card
       PROVE  c.rank \in 1 .. TopRocket /\ c.rank \notin RanksNow
  <2>1. c \in Deck
    BY CardsOfPlays DEF TrickWon
  <2>2. ASSUME NEW k \in RocketsNow, WonWithNow(k).rank = c.rank PROVE FALSE
    <3>1. k \in Tricks' /\ IsRocket(WonWithNow(k)) /\ WonWithNow(k) \in Deck
      BY <1>3 DEF RocketsNow
    <3>2. WonWithNow(k) = c
      BY <1>10, <2>1, <2>2, <3>1, RocketIsUnique
    <3>3. k # K /\ K \in Tricks' /\ c \in Cards(history'[k].plays) /\ c \in Cards(history'[K].plays)
      BY <1>1, <1>2, <1>10, <3>1, <3>2
    <3> QED
      BY <1>2, <3>1, <3>3
  <2> QED
    BY <1>10, <2>1, <2>2, RocketRank DEF RanksNow
<1> QED
  BY <1>4, <1>6, <1>8, <1>9, <1>10 DEF K, RanksNow

\* Of two rockets in a trick one does not win it.
LEMMA SecondRocket ==
  ASSUME NEW plays \in Seq(PlayType), NEW d,
         Cardinality({c \in Cards(plays) : IsRocket(c)}) > 1
  PROVE  \E c \in Cards(plays) : IsRocket(c) /\ c # d
<1> DEFINE both == {c \in Cards(plays) : IsRocket(c)}
<1>1. both \in SUBSET Deck
  BY CardsOfPlays
<1>2. Cardinality(both) \in Nat /\ IsFiniteSet({d}) /\ Cardinality({d}) = 1
  BY <1>1, HandFinite, FS_Singleton
<1>3. ~(both \subseteq {d})
  <2> SUFFICES ASSUME both \subseteq {d} PROVE FALSE
    OBVIOUS
  <2>1. Cardinality(both) <= 1
    BY <1>2, FS_Subset
  <2> QED
    BY <1>2, <2>1
<1> QED
  BY <1>3

\* Missions 13 and 44: every rocket won a trick, in 44 in rising order.
LEMMA VerdictOf13 ==
  ASSUME Whole, Books, CountInv, RocketsCounted, RocketsInOrder, mission \in {13, 44},
         NEW w, NEW plays, NEW held, TrickWon(w, plays, held)
  PROVE  Verdict /\ (phase' = "trick_result" => RocketsCounted' /\ RocketsInOrder')
<1> DEFINE K == trickNumber
           counted == Counted(w, plays)
           len == Len(progress.rocketsWon)
           two == Cardinality({c \in Cards(plays) : IsRocket(c)}) > 1
           rocket == IsRocket(w.card)
           s == progress.rocketsWon
           inOrder == \A j, k \in RocketsNow : j < k => WonWithNow(j).rank < WonWithNow(k).rank
<1>1. /\ setup' = setup /\ mission' = mission /\ K \in Nat
      /\ Tricks = 1 .. K - 1 /\ K \notin Tricks
      /\ \A k \in Tricks : WonWithNow(k) = WonWith(k)
      /\ WonWithNow(K) = w.card
      /\ w.card \in Deck /\ w.card \in Cards(plays)
  BY TrickFacts
<1>2. /\ progress'.rocketsWon = counted.rocketsWon
      /\ counted.rocketsWon = IF rocket THEN Append(s, w.card.rank) ELSE s
  <2>1. /\ progress'.rocketsWon = counted.rocketsWon
        /\ counted.rocketsWon = IF mission \in {13, 44} /\ IsRocket(w.card)
                                THEN Append(progress.rocketsWon, w.card.rank) ELSE progress.rocketsWon
    BY ONLY Whole, TrickWon(w, plays, held), CountersAre
  <2>2. s = progress.rocketsWon /\ rocket = IsRocket(w.card)
    OBVIOUS
  <2> HIDE DEF counted, s, rocket
  <2> QED
    BY ONLY <2>1, <2>2, mission \in {13, 44}
<1>3. /\ RocketsNow = IF rocket THEN RocketsWon \cup {K} ELSE RocketsWon
      /\ RanksNow = IF rocket THEN Ranks \cup {w.card.rank} ELSE Ranks
      /\ rocket => w.card.rank \notin Ranks
      /\ RanksNow \subseteq 1 .. TopRocket
      /\ \A c \in Cards(plays) : IsRocket(c) /\ c # w.card => c.rank \in 1 .. TopRocket /\ c.rank \notin RanksNow
      /\ Cardinality(RocketsNow) = TopRocket <=> RanksNow = 1 .. TopRocket
  BY RocketFacts
<1>4. two => RanksNow # 1 .. TopRocket
  BY <1>3, SecondRocket DEF TrickWon
<1>5. {counted.rocketsWon[i] : i \in DOMAIN counted.rocketsWon} = RanksNow
  <2>1. {s[i] : i \in DOMAIN s} = Ranks
    BY DEF RocketsCounted
  <2>2. s \in Seq(1 .. TopRocket)
    BY DEF Whole, TypeOK, ProgressType
  <2>3. CASE rocket
    <3>1. w.card.rank \in 1 .. TopRocket
      BY <1>1, <2>3, RocketRank
    <3> DEFINE r == w.card.rank
               more == Append(s, r)
    <3>2. /\ DOMAIN more = DOMAIN s \cup {Len(s) + 1}
          /\ \A i \in DOMAIN s : more[i] = s[i]
          /\ more[Len(s) + 1] = r
      BY <2>2, <3>1
    <3> HIDE DEF more
    <3>3. {more[i] : i \in DOMAIN more} = {s[i] : i \in DOMAIN s} \cup {r}
      BY <3>2
    <3> QED
      BY <1>2, <1>3, <2>1, <2>3, <3>3 DEF more
  <2>4. CASE ~rocket
    BY <1>2, <1>3, <2>1, <2>4
  <2> QED
    BY <2>3, <2>4
<1>6. RocketsCounted'
  <2>1. Ranks' = RanksNow
    BY DEF Ranks, RanksNow, RocketsWon, RocketsNow, WonWith, WonWithNow, IsRocket
  <2> QED
    BY <1>2, <1>5, <2>1 DEF RocketsCounted
<1>7. phase' = "success" <=> ~Broken(w, plays, held) /\ RanksNow = 1 .. TopRocket
  <2>1. Ending(mission) = "rockets"
    BY DEF Ending
  <2>2. Accomplished(status', held, counted) <=> RanksNow = 1 .. TopRocket
    BY <1>5, <2>1 DEF Accomplished
  <2> HIDE DEF counted
  <2>3. phase' = "success" <=> ~Broken(w, plays, held) /\ Accomplished(status', held, counted)
    BY <2>1, Outcome DEF counted
  <2> QED
    BY <2>2, <2>3
<1>8. phase' = "trick_result" => ~Broken(w, plays, held)
  BY Outcome
<1>9. Broken(w, plays, held) <=> two \/ (mission = 44 /\ rocket /\ w.card.rank # len + 1)
  BY DEF Broken, ConditionBroken, RoleBroken
<1>10. CASE mission = 13
  <2>1. MissionMet' <=> Cardinality(RocketsNow) = TopRocket
    BY <1>1, <1>10 DEF MissionMet, RocketsWon, RocketsNow, WonWith, WonWithNow, IsRocket
  <2>2. RocketsInOrder'
    BY <1>1, <1>10 DEF RocketsInOrder
  <2> HIDE DEF two
  <2> QED
    BY <1>3, <1>4, <1>6, <1>7, <1>9, <1>10, <2>1, <2>2 DEF Verdict
<1>11. CASE mission = 44
  <2>1. MissionMet' <=> Cardinality(RocketsNow) = TopRocket /\ inOrder
    BY <1>1, <1>11 DEF MissionMet, RocketsWon, RocketsNow, WonWith, WonWithNow, IsRocket
  <2>2. /\ Ranks = 1 .. len
        /\ \A j, k \in RocketsWon : j < k => WonWith(j).rank < WonWith(k).rank
        /\ len \in Nat
    BY <1>11 DEF RocketsInOrder, Whole, TypeOK, ProgressType
  <2>3. RocketsInOrder' <=> RanksNow = 1 .. Len(progress'.rocketsWon) /\ inOrder
    BY <1>1, <1>11 DEF RocketsInOrder, Ranks, RanksNow, RocketsWon, RocketsNow, WonWith, WonWithNow, IsRocket
  <2>4. \A k \in RocketsWon : k \in Tricks /\ k \in Nat /\ k < K /\ WonWithNow(k) = WonWith(k) /\ WonWith(k).rank \in 1 .. len
    BY <1>1, <2>2 DEF RocketsWon, Ranks
  <2>5. rocket => w.card.rank \in 1 .. TopRocket
    BY <1>1, RocketRank
  <2>6. rocket /\ w.card.rank # len + 1 => RanksNow # 1 .. TopRocket
    <3> SUFFICES ASSUME rocket, w.card.rank # len + 1 PROVE len + 1 \in 1 .. TopRocket /\ len + 1 \notin RanksNow
      OBVIOUS
    <3> DEFINE r == w.card.rank
    <3>1. r \in 1 .. TopRocket /\ r \notin 1 .. len /\ TopRocket \in Nat /\ RanksNow = (1 .. len) \cup {r}
      BY <1>3, <2>2, <2>5, TricksAssumption
    <3> HIDE DEF r, len
    <3>2. r > len + 1
      BY <2>2, <3>1 DEF r
    <3> QED
      BY <2>2, <3>1, <3>2
  <2>7. ASSUME ~Broken(w, plays, held)
        PROVE  inOrder /\ RanksNow = 1 .. Len(progress'.rocketsWon)
    <3>1. CASE rocket
      <4>1. w.card.rank = len + 1 /\ RocketsNow = RocketsWon \cup {K}
        BY <1>3, <1>9, <1>11, <2>7, <3>1
      <4>2. inOrder
        <5> SUFFICES ASSUME NEW j \in RocketsNow, NEW k \in RocketsNow, j < k
                     PROVE  WonWithNow(j).rank < WonWithNow(k).rank
          OBVIOUS
        <5>1. CASE k = K
          <6>1. j \in RocketsWon
            BY <1>1, <4>1, <5>1
          <6> HIDE DEF len, K
          <6> QED
            BY <1>1, <2>2, <2>4, <4>1, <5>1, <6>1
        <5>2. CASE k # K
          <6>1. k \in RocketsWon /\ k < K /\ j # K
            BY <1>1, <2>4, <4>1, <5>2
          <6>2. j \in RocketsWon
            BY <4>1, <6>1
          <6> QED
            BY <2>2, <2>4, <6>1, <6>2
        <5> QED
          BY <5>1, <5>2
      <4>3. Len(progress'.rocketsWon) = len + 1
        <5>1. s \in Seq(1 .. TopRocket)
          BY DEF Whole, TypeOK, ProgressType
        <5> QED
          BY <1>2, <2>5, <3>1, <5>1
      <4>4. RanksNow = (1 .. len) \cup {len + 1}
        BY <1>3, <2>2, <3>1, <4>1
      <4> HIDE DEF len
      <4> QED
        BY <2>2, <4>2, <4>3, <4>4
    <3>2. CASE ~rocket
      <4>1. RocketsNow = RocketsWon /\ RanksNow = 1 .. len /\ progress'.rocketsWon = s
        BY <1>2, <1>3, <2>2, <3>2
      <4> QED
        BY <2>2, <2>4, <4>1
    <3> QED
      BY <3>1, <3>2
  <2> HIDE DEF two, inOrder, rocket
  <2> QED
    BY <1>3, <1>4, <1>6, <1>7, <1>8, <1>9, <1>11, <2>1, <2>3, <2>6, <2>7 DEF Verdict
<1> QED
  BY <1>10, <1>11

-----------------------------------------------------------------------------
(* Mission 46: the member beside the highest black card wins all of them.  *)

BlackCards == {c \in Deck : c.suit = Black}
BlackWon   == {c \in CardsWon : c.suit = Black}
BlackCounted == mission = 46 =>
  /\ progress.blackCardsWon = Cardinality(BlackWon)
  /\ \A k \in Tricks : \A c \in Cards(history[k].plays) :
       c.suit = Black => history[k].by = setup.selected

\* There are as many black cards as ranks.
LEMMA BlackCardsAre == IsFiniteSet(BlackCards) /\ Cardinality(BlackCards) = TopRank
<1> DEFINE f == [r \in 1 .. TopRank |-> [suit |-> Black, rank |-> r]]
<1>1. /\ TopRank \in Nat /\ 1 \in Int /\ TopRank \in Int /\ TopRank >= 1
      /\ Black \in Colours /\ Black # Rocket
  BY TricksAssumption
<1>2. IsFiniteSet(1 .. TopRank) /\ Cardinality(1 .. TopRank) = TopRank
  BY <1>1, FS_Interval
<1>3. BlackCards = [suit : {Black}, rank : 1 .. TopRank]
  BY <1>1 DEF BlackCards, Deck
<1>4. /\ f \in [1 .. TopRank -> BlackCards]
      /\ \A q, r \in 1 .. TopRank : f[q] = f[r] => q = r
      /\ \A c \in BlackCards : \E r \in 1 .. TopRank : f[r] = c
  <2>1. f \in [1 .. TopRank -> BlackCards]
    BY <1>3
  <2>2. \A q, r \in 1 .. TopRank : f[q] = f[r] => q = r
    OBVIOUS
  <2>3. ASSUME NEW c \in BlackCards PROVE f[c.rank] = c /\ c.rank \in 1 .. TopRank
    BY <1>3
  <2> QED
    BY <2>1, <2>2, <2>3
<1> HIDE DEF f
<1>5. f \in Bijection(1 .. TopRank, BlackCards)
  BY <1>4, Fun_IsBij
<1>6. ExistsBijection(1 .. TopRank, BlackCards)
  BY <1>5 DEF ExistsBijection
<1> QED
  BY <1>2, <1>6, FS_Bijection

\* Mission 46: the selected member took every black card.
LEMMA VerdictOf46 ==
  ASSUME Whole, Books, CountInv, BlackCounted, mission = 46,
         NEW w, NEW plays, NEW held, TrickWon(w, plays, held)
  PROVE  Verdict /\ (phase' = "trick_result" => BlackCounted')
<1> DEFINE K == trickNumber
           one == setup.selected
           counted == Counted(w, plays)
           here == {c \in Cards(plays) : c.suit = Black}
           now == BlackWon \cup here
<1>1. /\ setup' = setup /\ mission' = mission
      /\ Tricks' = Tricks \cup {K} /\ K \notin Tricks
      /\ \A k \in Tricks : history'[k] = history[k]
      /\ history'[K].by = w.player /\ history'[K].plays = plays
      /\ CardsWon' = CardsWon \cup Cards(plays)
  BY TrickFacts
<1>2. /\ progress'.blackCardsWon = counted.blackCardsWon
      /\ counted.blackCardsWon = IF w.player = one THEN progress.blackCardsWon + Cardinality(here)
                                 ELSE progress.blackCardsWon
  BY ONLY Whole, TrickWon(w, plays, held), CountersAre, mission = 46
<1>3. /\ progress.blackCardsWon = Cardinality(BlackWon)
      /\ \A k \in Tricks : \A c \in Cards(history[k].plays) : c.suit = Black => history[k].by = one
  BY DEF BlackCounted
<1>4. /\ Cards(plays) \subseteq Deck /\ CardsWon \subseteq Deck
      /\ Cards(plays) \cap CardsWon = {}
  <2>1. CardsWon \subseteq Deck
    BY DEF Whole, CardsInv, Gone
  <2> QED
    BY <2>1, CardsOfPlays DEF TrickWon
<1>5. /\ \A j, k \in Tricks' : j # k => Cards(history'[j].plays) \cap Cards(history'[k].plays) = {}
  <2>1. TricksInv'
    BY TricksStayApart DEF Books
  <2> QED
    BY <2>1 DEF TricksInv, Cards, Plays
<1>6. /\ BlackWon \subseteq BlackCards /\ here \subseteq BlackCards /\ BlackWon \cap here = {}
      /\ now \subseteq BlackCards
  BY <1>4 DEF BlackWon, BlackCards
<1>7. /\ BlackCounted' <=> /\ progress'.blackCardsWon = Cardinality(now)
                           /\ \A k \in Tricks' : \A c \in Cards(history'[k].plays) :
                                c.suit = Black => history'[k].by = one
  <2>1. BlackWon' = now
    BY <1>1 DEF BlackWon
  <2> HIDE DEF now
  <2> QED
    BY <1>1, <2>1 DEF BlackCounted, Cards, Plays
<1>8. MissionMet' <=> \A c \in BlackCards :
                        \E k \in Tricks' : history'[k].by = one /\ c \in Cards(history'[k].plays)
  BY <1>1 DEF MissionMet, WonBy, BlackCards, Cards, Plays, Deck
<1>9. Broken(w, plays, held) <=> w.player # one /\ here # {}
  BY DEF Broken, ConditionBroken, RoleBroken
<1>10. phase' = "success" <=> ~Broken(w, plays, held) /\ counted.blackCardsWon = TopRank
  <2>1. Ending(mission) = "black_cards"
    BY DEF Ending
  <2>2. Accomplished(status', held, counted) <=> counted.blackCardsWon = TopRank
    BY <2>1 DEF Accomplished
  <2> HIDE DEF counted
  <2>3. phase' = "success" <=> ~Broken(w, plays, held) /\ Accomplished(status', held, counted)
    BY <2>1, Outcome DEF counted
  <2> QED
    BY <2>2, <2>3
<1>11. phase' = "trick_result" => ~Broken(w, plays, held)
  BY Outcome
<1>12. Broken(w, plays, held) => ~MissionMet'
  <2> SUFFICES ASSUME w.player # one, NEW c \in here, MissionMet' PROVE FALSE
    BY <1>9
  <2>1. PICK k \in Tricks' : history'[k].by = one /\ c \in Cards(history'[k].plays)
    BY <1>6, <1>8
  <2>2. k # K /\ K \in Tricks' /\ c \in Cards(history'[K].plays)
    BY <1>1, <2>1
  <2> QED
    BY <1>5, <2>1, <2>2
<1>13. ASSUME ~Broken(w, plays, held)
       PROVE  /\ counted.blackCardsWon = Cardinality(now)
              /\ \A k \in Tricks' : \A c \in Cards(history'[k].plays) :
                   c.suit = Black => history'[k].by = one
  <2>1. Cardinality(now) = Cardinality(BlackWon) + Cardinality(here)
    <3>1. IsFiniteSet(BlackWon) /\ IsFiniteSet(here)
      BY <1>6, BlackCardsAre, FS_Subset
    <3>2. Cardinality(BlackWon) \in Nat /\ Cardinality(here) \in Nat /\ Cardinality({}) = 0
      BY <3>1, FS_CardinalityType, FS_EmptySet
    <3> HIDE DEF here
    <3>3. Cardinality(BlackWon \cup here) = Cardinality(BlackWon) + Cardinality(here) - Cardinality(BlackWon \cap here)
      BY <3>1, FS_Union
    <3>4. Cardinality(BlackWon \cap here) = 0
      BY <1>6, <3>2
    <3> QED
      BY ONLY <3>2, <3>3, <3>4
  <2>2. ASSUME w.player # one PROVE here = {}
    BY <1>9, <1>13, <2>2
  <2>3. counted.blackCardsWon = Cardinality(now)
    <3> HIDE DEF here, counted
    <3>1. CASE w.player = one
      BY <1>2, <1>3, <2>1, <3>1
    <3>2. CASE w.player # one
      BY <1>2, <1>3, <2>2, <3>2
    <3> QED
      BY <3>1, <3>2
  <2>4. ASSUME NEW k \in Tricks', NEW c \in Cards(history'[k].plays), c.suit = Black
        PROVE  history'[k].by = one
    <3>1. CASE k = K
      BY <1>1, <2>2, <2>4, <3>1
    <3>2. CASE k # K
      BY <1>1, <1>3, <2>4, <3>2
    <3> QED
      BY <3>1, <3>2
  <2> QED
    BY <2>3, <2>4
<1>14. ASSUME ~Broken(w, plays, held)
       PROVE  counted.blackCardsWon = TopRank <=> MissionMet'
  <2>1. counted.blackCardsWon = TopRank <=> now = BlackCards
    <3> HIDE DEF now, counted
    <3> QED
      BY <1>6, <1>13, <1>14, BlackCardsAre, FS_Subset
  <2>2. \A c \in BlackCards : c \in now <=> \E k \in Tricks' : c \in Cards(history'[k].plays)
    <3>1. CardsWon' = UNION {Cards(history'[k].plays) : k \in Tricks'}
      BY DEF CardsWon, Tricks, Cards, Plays
    <3>2. \A c \in BlackCards : c.suit = Black
      BY DEF BlackCards
    <3>3. \A c \in BlackCards : c \in now <=> c \in CardsWon'
      BY <1>1, <3>2 DEF BlackWon
    <3> QED
      BY <3>1, <3>3
  <2>3. MissionMet' <=> \A c \in BlackCards : \E k \in Tricks' : c \in Cards(history'[k].plays)
    <3>1. \A c \in BlackCards : c.suit = Black
      BY DEF BlackCards
    <3> QED
      BY <1>8, <1>13, <1>14, <3>1
  <2> HIDE DEF now, counted
  <2> QED
    BY <1>6, <2>1, <2>2, <2>3
<1> HIDE DEF now, counted, here
<1> QED
  BY <1>2, <1>7, <1>10, <1>11, <1>12, <1>13, <1>14 DEF Verdict

-----------------------------------------------------------------------------
(* Every mission.                                                          *)

\* While an attempt goes on, its condition is alive and its counters are right.
Alive ==
  /\ NoneWon /\ NoTops /\ Even /\ FirstWon /\ OnceWon /\ EdgesWon /\ PartsWon
  /\ OmegaLeft /\ OnesCounted /\ RocketsCounted /\ RocketsInOrder /\ BlackCounted
AuditInv ==
  /\ CountInv
  /\ phase \in {"playing", "trick_result"} => Alive
  /\ VerdictIsRight

\* It is when play begins.
LEMMA InitAudit == Init => AuditInv
<1> SUFFICES ASSUME Init PROVE AuditInv
  OBVIOUS
<1>1. /\ history = <<>> /\ phase = "playing"
      /\ progress = [oneWins |-> 0, rocketsWon |-> <<>>, blackCardsWon |-> 0, transferApplied |-> FALSE]
  BY DEF Init
<1>2. Tricks = {} /\ CardsWon = {} /\ \A p : WonBy(p) = {}
  BY <1>1 DEF Tricks, CardsWon, WonBy
<1>3. /\ RocketsWon = {} /\ Ranks = {} /\ OneTricks = {} /\ BlackWon = {}
  BY <1>2 DEF RocketsWon, Ranks, OneTricks, BlackWon
<1>4. /\ progress.oneWins = 0 /\ progress.rocketsWon = <<>> /\ progress.blackCardsWon = 0
      /\ Len(progress.rocketsWon) = 0 /\ DOMAIN progress.rocketsWon = {}
  BY <1>1
<1>5. Cardinality({}) = 0
  BY FS_EmptySet
<1>6. NoneWon /\ NoTops /\ Even /\ FirstWon /\ OnceWon /\ EdgesWon /\ PartsWon
  BY <1>2 DEF NoneWon, NoTops, Even, FirstWon, OnceWon, EdgesWon, PartsWon, NoTopColourWon, Balanced
<1>7. OmegaLeft /\ OnesCounted /\ BlackCounted
  BY <1>2, <1>3, <1>4, <1>5 DEF OmegaLeft, OnesCounted, BlackCounted
<1>8. RocketsCounted /\ RocketsInOrder
  BY <1>3, <1>4 DEF RocketsCounted, RocketsInOrder
<1>9. CountInv
  BY InitCount
<1> QED
  BY <1>1, <1>6, <1>7, <1>8, <1>9 DEF AuditInv, Alive, VerdictIsRight

\* A trick: the verdict is right, and otherwise the condition stays alive.
LEMMA TrickAudit ==
  ASSUME Whole, Books, CountInv, Alive, NEW w, NEW plays, NEW held, TrickWon(w, plays, held)
  PROVE  Verdict /\ (phase' = "trick_result" => Alive')
<1>1. mission' = mission
  BY TrickFacts
<1>2. Verdict
  <2>1. CASE mission = 5
    BY <2>1, VerdictOf5 DEF Alive
  <2>2. CASE mission \in {16, 17}
    BY <2>2, VerdictOf16 DEF Alive
  <2>3. CASE mission \in {29, 34}
    BY <2>3, VerdictOf29 DEF Alive
  <2>4. CASE mission = 33
    BY <2>4, VerdictOf33 DEF Alive
  <2>5. CASE mission = 41
    BY <2>5, VerdictOf41 DEF Alive
  <2>6. CASE mission = 50
    BY <2>6, VerdictOf50 DEF Alive
  <2>7. CASE mission = 48
    BY <2>7, VerdictOf48 DEF Alive
  <2>8. CASE mission \in {9, 26}
    BY <2>8, VerdictOf9 DEF Alive
  <2>9. CASE mission \in {13, 44}
    BY <2>9, VerdictOf13 DEF Alive
  <2>10. CASE mission = 46
    BY <2>10, VerdictOf46 DEF Alive
  <2>11. CASE mission \notin Special
    BY <2>11, VerdictOfTasks
  <2> QED
    BY <2>1, <2>2, <2>3, <2>4, <2>5, <2>6, <2>7, <2>8, <2>9, <2>10, <2>11 DEF Special
<1>3. ASSUME phase' = "trick_result" PROVE Alive'
  <2>1. NoneWon'
    BY <1>1, <1>3, VerdictOf5 DEF Alive, NoneWon
  <2>2. NoTops'
    BY <1>1, <1>3, VerdictOf16 DEF Alive, NoTops
  <2>3. Even'
    BY <1>1, <1>3, VerdictOf29 DEF Alive, Even
  <2>4. FirstWon'
    BY <1>1, <1>3, VerdictOf29 DEF Alive, FirstWon
  <2>5. OnceWon'
    BY <1>1, <1>3, VerdictOf33 DEF Alive, OnceWon
  <2>6. EdgesWon'
    BY <1>1, <1>3, VerdictOf41 DEF Alive, EdgesWon
  <2>7. PartsWon'
    BY <1>1, <1>3, VerdictOf50 DEF Alive, PartsWon
  <2>8. OmegaLeft'
    BY <1>1, <1>3, VerdictOf48 DEF Alive, OmegaLeft
  <2>9. OnesCounted'
    BY <1>1, <1>3, VerdictOf9 DEF Alive, OnesCounted
  <2>10. RocketsCounted'
    BY <1>1, <1>3, VerdictOf13 DEF Alive, RocketsCounted
  <2>11. RocketsInOrder'
    BY <1>1, <1>3, VerdictOf13 DEF Alive, RocketsInOrder
  <2>12. BlackCounted'
    BY <1>1, <1>3, VerdictOf46 DEF Alive, BlackCounted
  <2> QED
    BY <2>1, <2>2, <2>3, <2>4, <2>5, <2>6, <2>7, <2>8, <2>9, <2>10, <2>11, <2>12 DEF Alive
<1> QED
  BY <1>2, <1>3

\* A step without a trick leaves all that as it was.
LEMMA QuietAudit ==
  ASSUME UNCHANGED <<setup, status, tricksWon, progress, history>>
  PROVE  (Alive' <=> Alive) /\ (MissionMet' <=> MissionMet)
<1>1. setup' = setup /\ status' = status /\ progress' = progress /\ history' = history
  OBVIOUS
<1>2. /\ mission' = mission /\ Goals' = Goals /\ Tricks' = Tricks /\ Batches' = Batches
      /\ AllPlayed' <=> AllPlayed
  BY <1>1 DEF mission, Goals, Tricks, Batches, AllPlayed, LastTrick, Deck
<1>3. /\ CardsWon' = CardsWon /\ BlackWon' = BlackWon
  <2>1. CardsWon' = CardsWon
    BY <1>1 DEF CardsWon, Cards, Plays
  <2> QED
    BY <2>1 DEF BlackWon
<1>4. /\ RocketsWon' = RocketsWon /\ Ranks' = Ranks /\ OneTricks' = OneTricks
      /\ NoTopColourWon' <=> NoTopColourWon
  BY <1>1 DEF RocketsWon, Ranks, OneTricks, NoTopColourWon, Tricks, WonWith, IsRocket
<1>5. \A p : WonBy(p)' = WonBy(p)
  BY <1>1 DEF WonBy, Tricks
<1>6. Balanced' <=> Balanced
  BY <1>1 DEF Balanced, WonBy, Tricks, Players
<1>7. GoalsMet' <=> GoalsMet
  BY <1>1, <1>2 DEF GoalsMet, WonBy, Tricks, Cards, Plays
<1>8. MissionMet' <=> MissionMet
  <2>0. /\ \A p : WonByNow(p) = WonBy(p)
        /\ \A k : WonWithNow(k) = WonWith(k)
    BY <1>1 DEF WonByNow, WonBy, WonWithNow, WonWith, Tricks
  <2>1. CASE mission = 5
    BY <1>1, <1>2, <1>4, <1>6, <1>7, <2>1 DEF MissionMet, WonBy
  <2>2. CASE mission = 16
    BY <1>1, <1>2, <1>4, <1>6, <1>7, <2>2 DEF MissionMet
  <2>3. CASE mission = 17
    BY <1>1, <1>2, <1>4, <1>6, <1>7, <2>3 DEF MissionMet
  <2>4. CASE mission = 29
    BY <1>1, <1>2, <1>4, <1>6, <1>7, <2>4 DEF MissionMet
  <2>5. CASE mission = 33
    BY <1>1, <1>2, <1>4, <1>6, <1>7, <2>5 DEF MissionMet, WonBy, WonWith, IsRocket
  <2>6. CASE mission = 34
    BY <1>1, <1>2, <1>4, <1>6, <1>7, <2>6 DEF MissionMet, WonBy, LastTrick, Deck
  <2>7. CASE mission = 41
    <3>1. MissionMet' <=> /\ AllPlayed' /\ WonByNow(setup.selected) = {1, LastTrick}
                          /\ \A k \in WonByNow(setup.selected) : ~IsRocket(WonWithNow(k))
      BY <1>1, <1>2, <2>7 DEF MissionMet, WonBy, WonByNow, WonWith, WonWithNow, IsRocket, LastTrick, Deck
    <3> QED
      BY <1>2, <2>0, <2>7, <3>1 DEF MissionMet
  <2>8. CASE mission = 50
    <3>1. MissionMet' <=> /\ AllPlayed' /\ WonByNow(setup.selected) = 1 .. LeadTricks
                          /\ WonByNow(setup.secondary) = {LastTrick}
      BY <1>1, <1>2, <2>8 DEF MissionMet, WonBy, WonByNow, LastTrick, Deck
    <3> QED
      BY <1>2, <2>0, <2>8, <3>1 DEF MissionMet
  <2>9. CASE mission \in {9, 26}
    BY <1>1, <1>2, <1>4, <1>6, <1>7, <2>9 DEF MissionMet, WonWith, IsRocket, OnesNeeded
  <2>10. CASE mission = 13
    BY <1>1, <1>2, <1>4, <1>6, <1>7, <2>10 DEF MissionMet
  <2>11. CASE mission = 44
    BY <1>1, <1>2, <1>4, <1>6, <1>7, <2>11 DEF MissionMet, WonWith
  <2>12. CASE mission = 46
    BY <1>1, <1>2, <1>4, <1>6, <1>7, <2>12 DEF MissionMet, WonBy, Cards, Plays, Deck
  <2>13. CASE mission = 48
    <3>1. MissionMet' <=> /\ GoalsMet' /\ AllPlayed'
                          /\ \A t \in Goals : setup.token[t].kind = "omega" =>
                                setup.goal[t] \in Cards(history'[LastTrick].plays)
      BY <1>1, <1>2, <2>13 DEF MissionMet, Cards, Plays, LastTrick, Deck
    <3> QED
      BY <1>1, <1>2, <1>7, <2>13, <3>1 DEF MissionMet
  <2>14. CASE mission \notin Special
    BY <1>1, <1>2, <1>4, <1>6, <1>7, <2>14 DEF MissionMet, Special
  <2> QED
    BY <2>1, <2>2, <2>3, <2>4, <2>5, <2>6, <2>7, <2>8, <2>9, <2>10, <2>11, <2>12, <2>13, <2>14 DEF Special
<1>9. /\ NoneWon' <=> NoneWon
      /\ NoTops' <=> NoTops
      /\ Even' <=> Even
      /\ FirstWon' <=> FirstWon
      /\ OnceWon' <=> OnceWon
      /\ EdgesWon' <=> EdgesWon
      /\ PartsWon' <=> PartsWon
  BY <1>1, <1>2, <1>4, <1>6 DEF NoneWon, NoTops, Even, FirstWon, OnceWon, EdgesWon, PartsWon, WonBy, WonWith, IsRocket
<1>10. /\ OmegaLeft' <=> OmegaLeft
       /\ OnesCounted' <=> OnesCounted
       /\ RocketsCounted' <=> RocketsCounted
       /\ RocketsInOrder' <=> RocketsInOrder
  BY <1>1, <1>2, <1>3, <1>4 DEF OmegaLeft, OnesCounted, RocketsCounted, RocketsInOrder, WonWith
<1>11. BlackCounted' <=> BlackCounted
  BY <1>1, <1>2, <1>3 DEF BlackCounted, Cards, Plays
<1> QED
  BY <1>8, <1>9, <1>10, <1>11 DEF Alive

\* Every step keeps the audit.
LEMMA NextAudit == Whole /\ Books /\ AuditInv /\ [Next]_vars => AuditInv'
<1> SUFFICES ASSUME Whole, Books, AuditInv, [Next]_vars PROVE AuditInv'
  OBVIOUS
<1>1. CountInv'
  BY NextCount DEF AuditInv
<1>2. CASE Quiet
  <2>1. (Alive' <=> Alive) /\ (MissionMet' <=> MissionMet)
    BY <1>2, QuietAudit DEF Quiet
  <2> QED
    BY <1>1, <1>2, <2>1 DEF AuditInv, VerdictIsRight, Quiet
<1>3. ASSUME NEW w, NEW plays, NEW held, TrickWon(w, plays, held) PROVE AuditInv'
  <2>1. phase = "playing" /\ phase' \in {"trick_result", "success", "failure"}
    BY <1>3 DEF TrickWon
  <2>2. Verdict /\ (phase' = "trick_result" => Alive')
    BY <1>3, <2>1, TrickAudit DEF AuditInv
  <2> QED
    BY <1>1, <2>1, <2>2 DEF AuditInv, VerdictIsRight, Verdict
<1> QED
  BY <1>2, <1>3, EveryStep

\* The verdict of every attempt, in every mission, is the one the tricks won
\* call for: success after the trick that completes what the log book asks and
\* never before or after, however the engine arrives at it (resolve).
THEOREM VerdictAlwaysRight == Spec => []VerdictIsRight
<1>1. Init => AuditInv
  BY InitAudit
<1>2. Whole /\ Books /\ AuditInv /\ [Next]_vars => AuditInv'
  BY NextAudit
<1>3. AuditInv => VerdictIsRight
  BY DEF AuditInv
<1> QED
  BY <1>1, <1>2, <1>3, AlwaysBooked, PTL DEF Spec

-----------------------------------------------------------------------------
(* A failure is final: what makes the engine give up cannot be made good.  *)

\* In an attempt prepared as s, the k-th trick t spoils the mission for good.
Spoils(s, t, k) ==
  LET m    == s.mission
      mine == t.by = s.selected
  IN
  \/ m = 5 /\ mine
  \/ m \in {16, 17} /\ ~IsRocket(t.card) /\ t.card.rank = TopRank
  \/ m = 34 /\ k = 1 /\ t.by # s.commander
  \/ m \in {33, 41} /\ mine /\ IsRocket(t.card)
  \/ m = 41 /\ (IF mine THEN k \notin {1, LastTrick} ELSE k = 1)
  \/ m = 50 /\ (mine <=> k > LeadTricks)
  \/ m = 50 /\ t.by = s.secondary /\ k # LastTrick
  \/ m \in {13, 44} /\ \E c \in Cards(t.plays) : IsRocket(c) /\ c # t.card
  \/ m = 46 /\ ~mine /\ \E c \in Cards(t.plays) : c.suit = Black
  \/ Ending(m) = "tasks" /\
       \E g \in DOMAIN s.goal :
         /\ s.goal[g] \in Cards(t.plays)
         /\ s.owner[g] # t.by \/ (m = 48 /\ s.token[g].kind = "omega" /\ k # LastTrick)
Spoilt == \E k \in Tricks : Spoils(setup, history[k], k)

\* The tricks won, taken together, leave no way to meet the mission.
OnesToCome == Ones(Deck \ CardsWon)
NoOrder   == Ending(mission) = "tasks" /\ ~Book!OrderExists(setup.token, Batches)
Uneven    == mission \in {29, 34} /\ ~Balanced
WonTwice  == mission = 33 /\ \E j, k \in WonBy(setup.selected) : j # k
TooFew    == mission \in {9, 26} /\ Cardinality(OneTricks) + Cardinality(OnesToCome) < OnesNeeded
Overtaken == mission = 44 /\ \E k \in RocketsWon : \E r \in 1 .. WonWith(k).rank - 1 :
               \A j \in RocketsWon : j < k => WonWith(j).rank # r
Hopeless == Spoilt \/ NoOrder \/ Uneven \/ WonTwice \/ TooFew \/ Overtaken
Doomed   == Hopeless \/ (AllPlayed /\ ~MissionMet)

\* More captures leave fewer orderings.
LEMMA FewerOrders ==
  ASSUME NEW S, NEW tok, NEW batches \in Seq(S), NEW b \in S,
         Book!OrderExists(tok, Append(batches, b))
  PROVE  Book!OrderExists(tok, batches)
<1> DEFINE more == Append(batches, b)
           goals == DOMAIN tok
           places == 1 .. Book!Cardinality(goals)
           Before(bs) == {p \in goals \X goals :
                            \E k \in 1 .. Len(bs) : /\ p[1] \in bs[k].goals
                                                    /\ \A j \in 1 .. k : p[2] \notin bs[j].goals}
<1>1. \A bs : Book!Orderings(goals, bs) =
        {pos \in [goals -> places] : /\ {pos[t] : t \in goals} = places
                                     /\ \A p \in Before(bs) : pos[p[1]] < pos[p[2]]}
  BY DEF Book!Orderings
<1>2. Before(batches) \subseteq Before(more)
  <2>1. Len(batches) \in Nat /\ Len(more) = Len(batches) + 1 /\ \A k \in 1 .. Len(batches) : more[k] = batches[k]
    OBVIOUS
  <2> HIDE DEF more
  <2> SUFFICES ASSUME NEW p \in goals \X goals, NEW k \in 1 .. Len(batches),
                      p[1] \in batches[k].goals, \A j \in 1 .. k : p[2] \notin batches[j].goals
               PROVE  \E i \in 1 .. Len(more) : p[1] \in more[i].goals /\ \A j \in 1 .. i : p[2] \notin more[j].goals
    OBVIOUS
  <2>2. k \in 1 .. Len(more) /\ more[k] = batches[k] /\ \A j \in 1 .. k : more[j] = batches[j]
    BY <2>1
  <2> QED
    BY <2>2
<1>3. PICK pos \in Book!Orderings(goals, more) : Book!Obeys(pos, tok)
  BY DEF Book!OrderExists
<1> HIDE DEF Before, more, places
<1>4. pos \in Book!Orderings(goals, batches)
  BY <1>1, <1>2, <1>3
<1> QED
  BY <1>3, <1>4 DEF Book!OrderExists

\* What spoils a mission is there to stay, and what is hopeless as a whole too.
LEMMA SpoiltStays ==
  ASSUME Whole, NEW w, NEW plays, NEW held, TrickWon(w, plays, held), Spoilt
  PROVE  Spoilt'
<1>1. /\ Tricks' = Tricks \cup {Len(history) + 1} /\ \A k \in Tricks : history'[k] = history[k]
  BY HistoryGrows
<1>2. setup' = setup
  BY DEF TrickWon
<1>3. PICK k \in Tricks : Spoils(setup, history[k], k)
  BY DEF Spoilt
<1>4. k \in Tricks' /\ Spoils(setup', history'[k], k)
  BY <1>1, <1>2, <1>3
<1> QED
  BY <1>4 DEF Spoilt

\* Goals captured later bring no ordering back.
LEMMA NoOrderStays ==
  ASSUME Whole, SetupInv, NEW w, NEW plays, NEW held, TrickWon(w, plays, held), NoOrder
  PROVE  NoOrder'
<1> DEFINE n == GoalCount
           t == Trick(w, plays)
<1>1. n \in Nat /\ DOMAIN setup.goal = 1 .. n
  BY GoalFacts DEF Goals
<1>2. history \in Seq(WonType) /\ t \in WonType /\ history' = Append(history, t) /\ setup' = setup
  BY DEF TrickWon, Whole, CardsInv
<1>3. Batches' = BatchesOf(Append(history, t), setup.goal)
  BY <1>2 DEF Batches
<1>4. Batches \in Seq(Batch(n))
  BY <1>1, <1>2, BatchesType DEF Batches
<1>5. BatchOf(t, setup.goal) \in Batch(n)
  BY <1>1, <1>2 DEF BatchOf, Batch, GoalsIn, WonType
<1> HIDE DEF t, n
<1>6. \/ Batches' = Batches
      \/ Batches' = Append(Batches, BatchOf(t, setup.goal))
  BY <1>1, <1>2, <1>3, BatchesGrow DEF Batches
<1>7. ~Book!OrderExists(setup.token, Batches')
  <2>1. CASE Batches' = Batches
    BY <2>1 DEF NoOrder
  <2>2. CASE Batches' = Append(Batches, BatchOf(t, setup.goal))
    BY <1>4, <1>5, <2>2, FewerOrders DEF NoOrder
  <2> QED
    BY <1>6, <2>1, <2>2
<1> QED
  BY <1>2, <1>7 DEF NoOrder, mission

\* Who was two tricks ahead once was so for ever.
LEMMA UnevenStays ==
  ASSUME Whole, CountInv, NEW w, NEW plays, NEW held, TrickWon(w, plays, held), Uneven
  PROVE  Uneven'
<1> DEFINE K == trickNumber
<1>1. /\ Tricks = 1 .. K - 1 /\ Tricks' = Tricks \cup {K} /\ K \in Nat
      /\ \A p : WonByNow(p) = IF p = w.player THEN WonBy(p) \cup {K} ELSE WonBy(p)
      /\ mission' = mission
  BY TrickFacts
<1> HIDE DEF K
<1>2. PICK k \in Tricks : \E p, q \in Players :
        ~(Cardinality(WonBy(p) \cap 1 .. k) <= Cardinality(WonBy(q) \cap 1 .. k) + 1)
  BY DEF Uneven, Balanced
<1>3. K \notin 1 .. k
  BY <1>1
<1>4. \A p : WonByNow(p) \cap 1 .. k = WonBy(p) \cap 1 .. k
  BY <1>1, <1>3
<1>5. ~ \A p, q \in Players : Cardinality(WonByNow(p) \cap 1 .. k) <= Cardinality(WonByNow(q) \cap 1 .. k) + 1
  BY <1>2, <1>4
<1>6. Balanced' <=> \A i \in Tricks' : \A p, q \in Players :
                      Cardinality(WonByNow(p) \cap 1 .. i) <= Cardinality(WonByNow(q) \cap 1 .. i) + 1
  BY DEF Balanced, WonBy, WonByNow, Players
<1>7. k \in Tricks'
  BY <1>1
<1> QED
  BY <1>1, <1>5, <1>6, <1>7 DEF Uneven

\* Two tricks do not become one.
LEMMA WonTwiceStays ==
  ASSUME Whole, CountInv, NEW w, NEW plays, NEW held, TrickWon(w, plays, held), WonTwice
  PROVE  WonTwice'
<1>1. /\ \A p : WonBy(p) \subseteq WonByNow(p)
      /\ mission' = mission /\ setup' = setup
  BY TrickFacts
<1>2. WonBy(setup.selected)' = WonByNow(setup.selected)
  BY <1>1 DEF WonBy, WonByNow
<1> QED
  BY <1>1, <1>2 DEF WonTwice

\* A one that wins a trick is no longer to come.
LEMMA TooFewStays ==
  ASSUME Whole, CountInv, NEW w, NEW plays, NEW held, TrickWon(w, plays, held), TooFew
  PROVE  TooFew'
<1> DEFINE K == trickNumber
           one == ~IsRocket(w.card) /\ w.card.rank = 1
<1>1. /\ K \in Nat /\ Tricks = 1 .. K - 1 /\ Tricks' = Tricks \cup {K} /\ K \notin Tricks
      /\ \A k \in Tricks : WonWithNow(k) = WonWith(k)
      /\ WonWithNow(K) = w.card
      /\ CardsWon' = CardsWon \cup Cards(plays)
      /\ w.card \in Deck /\ w.card \in Cards(plays)
      /\ mission' = mission
  BY TrickFacts
<1>2. Cards(plays) \cap CardsWon = {}
  BY DEF TrickWon
<1> HIDE DEF K
<1>3. OneTricks' = IF one THEN OneTricks \cup {K} ELSE OneTricks
  <2>1. OneTricks' = {k \in Tricks' : ~IsRocket(WonWithNow(k)) /\ WonWithNow(k).rank = 1}
    BY DEF OneTricks, WonWith, WonWithNow, IsRocket
  <2> QED
    BY <1>1, <2>1 DEF OneTricks
<1>4. /\ OnesToCome' = Ones(Deck \ (CardsWon \cup Cards(plays)))
      /\ OnesToCome' \subseteq OnesToCome
      /\ one => w.card \in OnesToCome /\ w.card \notin OnesToCome'
  <2>1. OnesToCome' = Ones(Deck \ CardsWon')
    BY DEF OnesToCome, Ones, Deck, IsRocket
  <2> QED
    BY <1>1, <1>2, <2>1 DEF OnesToCome, Ones
<1>5. OnesToCome \in SUBSET Deck
  BY DEF OnesToCome, Ones
<1>6. /\ IsFiniteSet(OnesToCome) /\ Cardinality(OnesToCome) \in Nat
      /\ IsFiniteSet(OnesToCome') /\ Cardinality(OnesToCome') \in Nat
      /\ Cardinality(OnesToCome') <= Cardinality(OnesToCome)
  BY <1>4, <1>5, HandFinite, FS_Subset
<1>7. /\ IsFiniteSet(OneTricks) /\ Cardinality(OneTricks) \in Nat /\ K \notin OneTricks
  <2>1. IsFiniteSet(1 .. K - 1)
    BY <1>1, FS_Interval
  <2>2. OneTricks \subseteq 1 .. K - 1
    BY <1>1 DEF OneTricks
  <2> QED
    BY <1>1, <2>1, <2>2, FS_Subset, FS_CardinalityType
<1>8. Cardinality(OneTricks') + Cardinality(OnesToCome') <= Cardinality(OneTricks) + Cardinality(OnesToCome)
  <2>1. CASE one
    <3>1. Cardinality(OneTricks') = Cardinality(OneTricks) + 1
      BY <1>3, <1>7, <2>1, FS_AddElement
    <3>2. OnesToCome' \subseteq OnesToCome \ {w.card}
      BY <1>4, <2>1
    <3>3. Cardinality(OnesToCome \ {w.card}) = Cardinality(OnesToCome) - 1 /\ IsFiniteSet(OnesToCome \ {w.card})
      BY <1>4, <1>6, <2>1, FS_RemoveElement, FS_Subset
    <3>4. Cardinality(OnesToCome') <= Cardinality(OnesToCome \ {w.card})
      BY <3>2, <3>3, FS_Subset
    <3> QED
      BY <1>6, <1>7, <3>1, <3>3, <3>4
  <2>2. CASE ~one
    BY <1>3, <1>6, <1>7, <2>2
  <2> QED
    BY <2>1, <2>2
<1>9. Cardinality(OneTricks') \in Nat
  <2>1. Cardinality(OneTricks \cup {K}) = Cardinality(OneTricks) + 1
    BY <1>7, FS_AddElement
  <2> QED
    BY <1>3, <1>7, <2>1
<1>10. OnesNeeded' = OnesNeeded /\ OnesNeeded \in Nat
  BY <1>1 DEF OnesNeeded
<1>11. mission \in {9, 26} /\ Cardinality(OneTricks) + Cardinality(OnesToCome) < OnesNeeded
  BY DEF TooFew
<1>12. Cardinality(OneTricks') + Cardinality(OnesToCome') < OnesNeeded
  BY <1>6, <1>7, <1>8, <1>9, <1>10, <1>11
<1> QED
  BY <1>1, <1>10, <1>11, <1>12 DEF TooFew

\* What was overtaken cannot go first any more.
LEMMA OvertakenStays ==
  ASSUME Whole, CountInv, NEW w, NEW plays, NEW held, TrickWon(w, plays, held), Overtaken
  PROVE  Overtaken'
<1> DEFINE K == trickNumber
<1>1. /\ K \in Nat /\ Tricks = 1 .. K - 1 /\ Tricks' = Tricks \cup {K} /\ K \notin Tricks
      /\ \A k \in Tricks : WonWithNow(k) = WonWith(k)
      /\ mission' = mission
  BY TrickFacts
<1> HIDE DEF K
<1>2. PICK k \in RocketsWon : \E r \in 1 .. WonWith(k).rank - 1 :
        \A j \in RocketsWon : j < k => WonWith(j).rank # r
  BY DEF Overtaken
<1>3. PICK r \in 1 .. WonWith(k).rank - 1 : \A j \in RocketsWon : j < k => WonWith(j).rank # r
  BY <1>2
<1>4. k \in Tricks /\ k < K /\ IsRocket(WonWith(k))
  BY <1>1 DEF RocketsWon
<1>5. k \in RocketsNow /\ r \in 1 .. WonWithNow(k).rank - 1
  BY <1>1, <1>4 DEF RocketsNow
<1>6. ASSUME NEW j \in RocketsNow, j < k PROVE WonWithNow(j).rank # r
  <2>1. j \in Tricks
    BY <1>1, <1>4, <1>6 DEF RocketsNow
  <2>2. j \in RocketsWon /\ WonWithNow(j) = WonWith(j)
    BY <1>1, <1>6, <2>1 DEF RocketsNow, RocketsWon
  <2> QED
    BY <1>3, <1>6, <2>2
<1>7. Overtaken' <=> mission' = 44 /\ \E i \in RocketsNow : \E x \in 1 .. WonWithNow(i).rank - 1 :
                       \A j \in RocketsNow : j < i => WonWithNow(j).rank # x
  BY DEF Overtaken, RocketsWon, RocketsNow, WonWith, WonWithNow, IsRocket
<1> QED
  BY <1>1, <1>5, <1>6, <1>7 DEF Overtaken

\* A trick leaves what was hopeless so.
LEMMA HopelessStays ==
  ASSUME Whole, SetupInv, CountInv, Hopeless, NEW w, NEW plays, NEW held, TrickWon(w, plays, held)
  PROVE  Hopeless'
BY SpoiltStays, NoOrderStays, UnevenStays, WonTwiceStays, TooFewStays, OvertakenStays DEF Hopeless

\* Steps without a trick do too.
LEMMA HopelessKept ==
  ASSUME history' = history, setup' = setup
  PROVE  (Hopeless' <=> Hopeless) /\ (AllPlayed' <=> AllPlayed)
<1>1. /\ mission' = mission /\ Tricks' = Tricks /\ Batches' = Batches
      /\ AllPlayed' <=> AllPlayed
  BY DEF mission, Tricks, Batches, AllPlayed, LastTrick, Deck
<1>2. Spoilt' <=> Spoilt
  BY <1>1 DEF Spoilt
<1>3. NoOrder' <=> NoOrder
  BY <1>1 DEF NoOrder
<1>4. \A p : WonBy(p)' = WonBy(p)
  BY <1>1 DEF WonBy
<1>5. Uneven' <=> Uneven
  BY <1>1, <1>4 DEF Uneven, Balanced, WonBy, Players
<1>6. WonTwice' <=> WonTwice
  <2>1. WonBy(setup.selected)' = WonBy(setup.selected)
    BY <1>1 DEF WonBy
  <2> QED
    BY <1>1, <2>1 DEF WonTwice
<1>7. TooFew' <=> TooFew
  <2>1. OneTricks' = OneTricks
    BY <1>1 DEF OneTricks, WonWith, IsRocket
  <2>2. CardsWon' = CardsWon
    BY DEF CardsWon, Cards, Plays
  <2>3. OnesToCome' = OnesToCome
    BY <2>2 DEF OnesToCome, Ones, Deck, IsRocket
  <2> QED
    BY <1>1, <2>1, <2>3 DEF TooFew, OnesNeeded
<1>8. Overtaken' <=> Overtaken
  <2>1. RocketsWon' = RocketsWon
    BY <1>1 DEF RocketsWon, WonWith, IsRocket
  <2> QED
    BY <1>1, <2>1 DEF Overtaken, WonWith
<1> QED
  BY <1>1, <1>2, <1>3, <1>5, <1>6, <1>7, <1>8 DEF Hopeless

\* The cards that tricks were won with.
LEMMA WinningCards ==
  ASSUME Whole, TricksInv
  PROVE  /\ \A k \in Tricks : /\ WonWith(k) \in Deck /\ WonWith(k) \in Cards(history[k].plays)
                              /\ history[k] \in WonType
         /\ \A j, k \in Tricks : WonWith(j) = WonWith(k) => j = k
         /\ \A j, k \in RocketsWon : WonWith(j).rank = WonWith(k).rank => j = k
         /\ \A k \in RocketsWon : WonWith(k).rank \in 1 .. TopRocket
         /\ Cardinality(RocketsWon) = TopRocket <=> Ranks = 1 .. TopRocket
<1>1. \A k \in Tricks : history[k] \in WonType /\ WonWith(k) \in Deck
  <2>1. \A k \in Tricks : history[k] \in WonType
    BY DEF Whole, CardsInv, Tricks
  <2> QED
    BY <2>1 DEF WonType, WonWith
<1>2. \A k \in Tricks : WonWith(k) \in Cards(history[k].plays)
  BY DEF TricksInv
<1>3. \A j, k \in Tricks : WonWith(j) = WonWith(k) => j = k
  BY <1>2 DEF TricksInv
<1> DEFINE card == [k \in Tricks |-> WonWith(k)]
           R == {k \in Tricks : IsRocket(card[k])}
<1>4. /\ \A j, k \in R : card[j].rank = card[k].rank => j = k
      /\ \A k \in R : card[k].rank \in 1 .. TopRocket
      /\ Cardinality(R) = TopRocket <=> {card[k].rank : k \in R} = 1 .. TopRocket
  <2>1. /\ \A k \in Tricks : card[k] \in Deck
        /\ \A j, k \in Tricks : card[j] = card[k] => j = k
    BY <1>1, <1>3
  <2> HIDE DEF card
  <2> QED
    BY <2>1, RocketRanks
<1>5. R = RocketsWon /\ {card[k].rank : k \in R} = Ranks
  BY DEF RocketsWon, Ranks
<1>6. \A k \in RocketsWon : card[k] = WonWith(k)
  BY DEF RocketsWon
<1> HIDE DEF card, R
<1>7. \A j, k \in RocketsWon : card[j].rank = card[k].rank => j = k
  BY <1>4, <1>5
<1>8. \A k \in RocketsWon : card[k].rank \in 1 .. TopRocket
  BY <1>4, <1>5
<1>9. /\ \A j, k \in RocketsWon : WonWith(j).rank = WonWith(k).rank => j = k
      /\ \A k \in RocketsWon : WonWith(k).rank \in 1 .. TopRocket
  BY <1>6, <1>7, <1>8
<1>10. Cardinality(RocketsWon) = TopRocket <=> Ranks = 1 .. TopRocket
  BY <1>4, <1>5
<1> QED
  BY <1>1, <1>2, <1>3, <1>9, <1>10

\* A goal captured by the wrong member, or in the wrong trick, is not met.
LEMMA GoalsLost ==
  ASSUME SetupInv, TricksInv, NEW k \in Tricks, NEW g \in Goals,
         setup.goal[g] \in Cards(history[k].plays)
  PROVE  /\ setup.owner[g] # history[k].by => ~GoalsMet
         /\ \A j \in Tricks : setup.goal[g] \in Cards(history[j].plays) => j = k
<1>1. \A j \in Tricks : setup.goal[g] \in Cards(history[j].plays) => j = k
  BY DEF TricksInv
<1>2. ASSUME GoalsMet PROVE setup.owner[g] = history[k].by
  <2>1. PICK j \in WonBy(setup.owner[g]) : setup.goal[g] \in Cards(history[j].plays)
    BY <1>2 DEF GoalsMet
  <2> QED
    BY <1>1, <2>1 DEF WonBy
<1> QED
  BY <1>1, <1>2

\* One trick that spoils the mission is enough.
LEMMA SpoiltIsLost ==
  ASSUME Whole, SetupInv, TricksInv, CountInv, Spoilt
  PROVE  ~MissionMet
<1>1. PICK k \in Tricks : Spoils(setup, history[k], k)
  BY DEF Spoilt
<1> DEFINE one == WonBy(setup.selected)
           mine == history[k].by = setup.selected
<1>2. /\ mine <=> k \in one
      /\ \A p : history[k].by = p => k \in WonBy(p)
      /\ \A p : k \in WonBy(p) => history[k].by = p
  BY DEF WonBy
<1>3. /\ \A j \in Tricks : /\ WonWith(j) \in Deck /\ WonWith(j) \in Cards(history[j].plays)
                           /\ history[j] \in WonType
      /\ \A j \in RocketsWon : WonWith(j).rank \in 1 .. TopRocket
      /\ Cardinality(RocketsWon) = TopRocket <=> Ranks = 1 .. TopRocket
  BY WinningCards
<1>4. \A j \in Tricks : j # k => Cards(history[j].plays) \cap Cards(history[k].plays) = {}
  BY DEF TricksInv
<1>5. history[k].card = WonWith(k)
  BY DEF WonWith
<1>6. /\ Tricks = 1 .. Len(history) /\ Len(history) \in Nat /\ LastTrick \in Nat /\ k \in Nat
      /\ LeadTricks \in Nat /\ k >= 1
  <2>1. history \in Seq(WonType)
    BY DEF Whole, CardsInv
  <2>2. Len(history) \in Nat /\ Tricks = 1 .. Len(history)
    BY <2>1 DEF Tricks
  <2> QED
    BY <2>2, TableFacts, TricksAssumption
<1> HIDE DEF one, mine
<1>11. CASE mission = 5
  <2>1. mine
    BY <1>1, <1>11 DEF Spoils, mine, mission, Ending
  <2> QED
    BY <1>2, <1>11, <2>1 DEF MissionMet, one
<1>12. CASE mission \in {16, 17}
  <2>1. CASE ~IsRocket(WonWith(k)) /\ WonWith(k).rank = TopRank
    <3>1. ~NoTopColourWon
      BY <2>1 DEF NoTopColourWon
    <3> QED
      BY <1>12, <3>1 DEF MissionMet
  <2>2. CASE mission = 17 /\ \E g \in Goals : setup.goal[g] \in Cards(history[k].plays) /\ setup.owner[g] # history[k].by
    <3>1. ~GoalsMet
      BY <2>2, GoalsLost
    <3> QED
      BY <2>2, <3>1 DEF MissionMet
  <2> QED
    BY <1>1, <1>5, <1>12, <2>1, <2>2 DEF Spoils, mission, Ending, Goals
<1>13. CASE mission = 34
  <2>1. k = 1 /\ history[k].by # setup.commander
    BY <1>1, <1>13 DEF Spoils, mission, Ending
  <2>2. 1 \notin WonBy(setup.commander)
    BY <1>2, <2>1
  <2> QED
    BY <1>13, <2>2 DEF MissionMet
<1>14. CASE mission = 33
  <2>1. mine /\ IsRocket(WonWith(k))
    BY <1>1, <1>5, <1>14 DEF Spoils, mine, mission, Ending
  <2>2. ~ \E j \in Tricks : one = {j} /\ ~IsRocket(WonWith(j))
    BY <1>2, <2>1
  <2> QED
    BY <1>14, <2>2 DEF MissionMet, one
<1>15. CASE mission = 41
  <2>1. \/ mine /\ IsRocket(WonWith(k))
        \/ mine /\ k \notin {1, LastTrick}
        \/ ~mine /\ k = 1
    BY <1>1, <1>5, <1>15 DEF Spoils, mine, mission, Ending
  <2>2. ~ (one = {1, LastTrick} /\ \A j \in one : ~IsRocket(WonWith(j)))
    BY <1>2, <2>1
  <2> QED
    BY <1>15, <2>2 DEF MissionMet, one
<1>16. CASE mission = 50
  <2>1. \/ mine <=> k > LeadTricks
        \/ history[k].by = setup.secondary /\ k # LastTrick
    BY <1>1, <1>16 DEF Spoils, mine, mission, Ending
  <2>2. k \in 1 .. LeadTricks <=> ~(k > LeadTricks)
    BY <1>6
  <2>3. ~ (one = 1 .. LeadTricks /\ WonBy(setup.secondary) = {LastTrick})
    BY <1>2, <2>1, <2>2
  <2> QED
    BY <1>16, <2>3 DEF MissionMet, one
<1>17. CASE mission \in {13, 44}
  <2>1. PICK c \in Cards(history[k].plays) : IsRocket(c) /\ c # WonWith(k)
    BY <1>1, <1>5, <1>17 DEF Spoils, mission, Ending
  <2>2. c \in Deck
    BY <1>3, CardsOfPlays DEF WonType
  <2>3. c.rank \in 1 .. TopRocket
    BY <2>1, <2>2, RocketRank
  <2>4. ASSUME NEW j \in RocketsWon, WonWith(j).rank = c.rank PROVE FALSE
    <3>1. j \in Tricks /\ IsRocket(WonWith(j)) /\ WonWith(j) \in Deck
      BY <1>3 DEF RocketsWon
    <3>2. WonWith(j) = c
      BY <2>1, <2>2, <2>4, <3>1, RocketIsUnique
    <3> QED
      BY <1>3, <1>4, <2>1, <3>1, <3>2
  <2>5. c.rank \notin Ranks
    BY <2>4 DEF Ranks
  <2>6. Cardinality(RocketsWon) # TopRocket
    BY <1>3, <2>3, <2>5
  <2> QED
    BY <1>17, <2>6 DEF MissionMet
<1>18. CASE mission = 46
  <2>1. PICK c \in Cards(history[k].plays) : ~mine /\ c.suit = Black
    BY <1>1, <1>18 DEF Spoils, mine, mission, Ending
  <2>2. c \in Deck
    BY <1>3, CardsOfPlays DEF WonType
  <2>3. \A j \in one : c \notin Cards(history[j].plays)
    BY <1>2, <1>4, <2>1 DEF one, WonBy
  <2>4. ~(\A d \in Deck : d.suit = Black => \E j \in one : d \in Cards(history[j].plays))
    BY <2>1, <2>2, <2>3
  <2> QED
    BY <1>18, <2>4 DEF MissionMet, one
<1>19. CASE mission = 48
  <2>1. PICK g \in Goals : /\ setup.goal[g] \in Cards(history[k].plays)
                           /\ setup.owner[g] # history[k].by \/ (setup.token[g].kind = "omega" /\ k # LastTrick)
    BY <1>1, <1>19 DEF Spoils, mission, Ending, Goals
  <2>2. \A j \in Tricks : setup.goal[g] \in Cards(history[j].plays) => j = k
    BY <2>1, GoalsLost
  <2>3. CASE setup.owner[g] # history[k].by
    <3>1. ~GoalsMet
      BY <2>1, <2>3, GoalsLost
    <3> QED
      BY <1>19, <3>1 DEF MissionMet
  <2>4. CASE setup.token[g].kind = "omega" /\ k # LastTrick
    <3>1. AllPlayed => LastTrick \in Tricks
      <4>1. LastTrick >= 1
        BY TricksAssumption, <1>6
      <4> QED
        BY <1>6, <4>1 DEF AllPlayed
    <3>2. ~(AllPlayed /\ setup.goal[g] \in Cards(history[LastTrick].plays))
      BY <2>2, <2>4, <3>1
    <3> QED
      BY <1>19, <2>4, <3>2 DEF MissionMet
  <2> QED
    BY <2>1, <2>3, <2>4
<1>20. CASE mission \notin {5, 16, 17, 34, 33, 41, 50, 13, 44, 46, 48}
  <2>1. Ending(mission) = "tasks" /\ mission \notin {9, 26, 29}
        /\ \E g \in Goals : setup.goal[g] \in Cards(history[k].plays) /\ setup.owner[g] # history[k].by
    BY <1>1, <1>20 DEF Spoils, mission, Goals, Ending
  <2>2. ~GoalsMet
    BY <2>1, GoalsLost
  <2> QED
    BY <1>20, <2>1, <2>2 DEF MissionMet
<1> QED
  BY <1>11, <1>12, <1>13, <1>14, <1>15, <1>16, <1>17, <1>18, <1>19, <1>20

\* Where an attempt is hopeless, its mission is not met.
LEMMA HopelessIsLost ==
  ASSUME Whole, SetupInv, TricksInv, CountInv, Hopeless
  PROVE  ~MissionMet
<1>1. /\ \A j \in Tricks : WonWith(j) \in Deck
      /\ \A j \in RocketsWon : WonWith(j).rank \in 1 .. TopRocket
      /\ \A j, k \in RocketsWon : WonWith(j).rank = WonWith(k).rank => j = k
      /\ Cardinality(RocketsWon) = TopRocket <=> Ranks = 1 .. TopRocket
  BY WinningCards
<1>2. CASE Spoilt
  BY <1>2, SpoiltIsLost
<1>3. CASE NoOrder
  <2>1. Ending(mission) = "tasks" /\ ~GoalsMet
    BY <1>3 DEF NoOrder, GoalsMet
  <2>2. mission \notin {5, 9, 13, 16, 26, 29, 33, 34, 41, 44, 46, 50}
    BY <2>1 DEF Ending
  <2> QED
    BY <2>1, <2>2 DEF MissionMet
<1>4. CASE Uneven
  BY <1>4 DEF Uneven, MissionMet
<1>5. CASE WonTwice
  <2>1. \A k : WonBy(setup.selected) # {k}
    BY <1>5 DEF WonTwice
  <2> QED
    BY <1>5, <2>1 DEF WonTwice, MissionMet
<1>6. CASE TooFew
  <2>1. mission \in {9, 26} /\ Cardinality(OneTricks) + Cardinality(OnesToCome) < OnesNeeded
    BY <1>6 DEF TooFew
  <2>2. Cardinality(OnesToCome) \in Nat /\ Cardinality(OneTricks) \in Nat
    <3>1. OnesToCome \in SUBSET Deck
      BY DEF OnesToCome, Ones
    <3>2. Len(history) \in Nat /\ Tricks = 1 .. Len(history)
      BY DEF Whole, CardsInv, Tricks
    <3>3. OneTricks \subseteq 1 .. Len(history) /\ IsFiniteSet(1 .. Len(history))
      BY <3>2, FS_Interval DEF OneTricks
    <3> QED
      BY <3>1, <3>3, HandFinite, FS_Subset, FS_CardinalityType
  <2>3. ~(Cardinality(OneTricks) >= OnesNeeded)
    BY <2>1, <2>2 DEF OnesNeeded
  <2> QED
    BY <2>1, <2>3 DEF MissionMet, OneTricks
<1>7. CASE Overtaken
  <2>1. PICK k \in RocketsWon : \E r \in 1 .. WonWith(k).rank - 1 :
          \A j \in RocketsWon : j < k => WonWith(j).rank # r
    BY <1>7 DEF Overtaken
  <2>2. PICK r \in 1 .. WonWith(k).rank - 1 : \A j \in RocketsWon : j < k => WonWith(j).rank # r
    BY <2>1
  <2>3. mission = 44 /\ \A j \in RocketsWon : j \in Nat
    BY <1>7 DEF Overtaken, RocketsWon, Tricks, Whole, CardsInv
  <2>4. ASSUME Ranks = 1 .. TopRocket, \A i, j \in RocketsWon : i < j => WonWith(i).rank < WonWith(j).rank
        PROVE  FALSE
    <3>1. WonWith(k).rank \in 1 .. TopRocket /\ TopRocket \in Nat
      BY <1>1, TricksAssumption
    <3>2. r \in 1 .. TopRocket /\ r < WonWith(k).rank
      BY <2>2, <3>1
    <3>3. PICK j \in RocketsWon : WonWith(j).rank = r
      BY <2>4, <3>2 DEF Ranks
    <3>4. ~(j < k) /\ j # k
      BY <2>2, <3>1, <3>2, <3>3
    <3>5. k < j
      BY <2>3, <3>4
    <3>6. WonWith(k).rank < r
      BY <2>4, <3>3, <3>5
    <3> QED
      BY <3>1, <3>2, <3>6
  <2> QED
    BY <1>1, <2>3, <2>4 DEF MissionMet
<1> QED
  BY <1>2, <1>3, <1>4, <1>5, <1>6, <1>7 DEF Hopeless

\* The trick that spoils the mission spoils it from now on.
LEMMA SpoiltNow ==
  ASSUME Whole, CountInv, NEW w, NEW plays, NEW held, TrickWon(w, plays, held),
         Spoils(setup, Trick(w, plays), trickNumber)
  PROVE  Spoilt'
<1>1. trickNumber \in Tricks' /\ setup' = setup /\ Len(history) + 1 = trickNumber
  <2>1. trickNumber \in Tricks' /\ setup' = setup /\ trickNumber \in 1 .. LastTrick
    BY TrickFacts
  <2>2. Len(history) = trickNumber - 1
    BY DEF TrickWon, CountInv
  <2> QED
    BY <2>1, <2>2
<1>2. history'[trickNumber] = Trick(w, plays)
  BY <1>1, HistoryGrows
<1> QED
  BY <1>1, <1>2 DEF Spoilt

\* Goals that are missed leave the attempt hopeless.
LEMMA MissedIsHopeless ==
  ASSUME Whole, Books, CountInv, NEW w, NEW plays, NEW held, TrickWon(w, plays, held), Missed(w, plays)
  PROVE  Hopeless'
<1> DEFINE caught == Caught(plays)
           batch  == [by |-> w.player, goals |-> caught]
<1>1. /\ caught = GoalsIn(setup.goal, plays) /\ caught # {}
      /\ Batches' = Append(Batches, batch)
      /\ \/ \E t \in caught : setup.owner[t] # w.player
         \/ ~Book!OrderExists(setup.token, Append(Batches, batch))
  BY BookedRight DEF Books
<1>2. Ending(mission) = "tasks" /\ setup' = setup /\ mission' = mission
  <2>1. Ending(mission) # "tasks" => TaskCount[mission] = 0
    BY TricksAssumption DEF Books, SetupInv
  <2>2. Ending(mission) # "tasks" => Goals = {}
    BY <2>1 DEF Books, SetupInv, GoalCount, Goals
  <2>3. Goals # {}
    BY <1>1 DEF GoalsIn, Goals
  <2> QED
    BY <2>2, <2>3, TrickFacts
<1>3. CASE ~Book!OrderExists(setup.token, Append(Batches, batch))
  BY <1>1, <1>2, <1>3 DEF NoOrder, Hopeless
<1>4. CASE \E t \in caught : setup.owner[t] # w.player
  <2>1. PICK t \in GoalsIn(setup.goal, plays) : setup.owner[t] # w.player
    BY <1>1, <1>4
  <2>2. Trick(w, plays).by = w.player /\ Trick(w, plays).plays = plays
    BY DEF Trick
  <2>3. t \in DOMAIN setup.goal /\ setup.goal[t] \in Cards(Trick(w, plays).plays)
        /\ setup.owner[t] # Trick(w, plays).by
    BY <2>1, <2>2 DEF GoalsIn
  <2>4. Spoils(setup, Trick(w, plays), trickNumber)
    BY <1>2, <2>3 DEF Spoils, mission
  <2> QED
    BY <2>4, SpoiltNow DEF Hopeless
<1> QED
  BY <1>1, <1>3, <1>4

\* Mission 33: a second trick is one too many.
LEMMA SecondTrick ==
  ASSUME Whole, CountInv, NEW w, NEW plays, NEW held, TrickWon(w, plays, held),
         mission = 33, w.player = setup.selected, tricksWon'[w.player] > 1
  PROVE  WonTwice'
<1> DEFINE K == trickNumber
           p == w.player
<1>1. /\ WonByNow(p) = WonBy(p) \cup {K} /\ K \notin Tricks /\ p \in Players
      /\ setup' = setup /\ mission' = mission
  BY TrickFacts
<1>2. tricksWon'[p] = Cardinality(WonByNow(p)) /\ WonBy(p) \subseteq Tricks
  BY <1>1, CountedTricks
<1>3. WonBy(p) # {}
  <2> SUFFICES ASSUME WonBy(p) = {} PROVE FALSE
    OBVIOUS
  <2>1. Cardinality(WonByNow(p)) = 1
    BY <1>1, FS_Singleton
  <2> QED
    BY <1>2, <2>1
<1>4. PICK j \in WonBy(p) : j # K
  BY <1>1, <1>2, <1>3
<1>5. WonBy(setup.selected)' = WonByNow(setup.selected)
  BY <1>1 DEF WonBy, WonByNow
<1> QED
  BY <1>1, <1>4, <1>5 DEF WonTwice

\* Missions 9 and 26: not enough ones are left.
LEMMA OnesRunOut ==
  ASSUME Whole, Books, CountInv, OnesCounted, mission \in {9, 26},
         NEW w, NEW plays, NEW held, TrickWon(w, plays, held),
         Counted(w, plays).oneWins + OnesLeft(held) < OnesNeeded
  PROVE  TooFew'
<1>1. OnesCounted' /\ mission' = mission
  BY VerdictOf9, TrickFacts
<1>2. Cardinality(OneTricks') = Counted(w, plays).oneWins
  BY <1>1, CountersAre DEF OnesCounted
<1>3. OnesLeft(held) = Cardinality(OnesToCome')
  <2>1. CardsWon' = CardsWon \cup Cards(plays)
    BY TrickFacts
  <2>2. OnesToCome' = Ones(Deck \ (CardsWon \cup Cards(plays)))
    BY <2>1 DEF OnesToCome, Ones, Deck, IsRocket
  <2>3. UNION {held[p] : p \in Players} = Deck \ (CardsWon \cup Cards(plays))
    BY DEF TrickWon
  <2>4. UNION {Ones(held[p]) : p \in Players} = Ones(UNION {held[p] : p \in Players})
    BY DEF Ones
  <2> QED
    BY <2>2, <2>3, <2>4 DEF OnesLeft
<1> QED
  BY <1>1, <1>2, <1>3 DEF TooFew, OnesNeeded

\* Mission 44: a rocket that wins too early leaves another behind.
LEMMA RocketTooEarly ==
  ASSUME Whole, Books, CountInv, RocketsInOrder, mission = 44,
         NEW w, NEW plays, NEW held, TrickWon(w, plays, held),
         IsRocket(w.card), w.card.rank # Len(progress.rocketsWon) + 1
  PROVE  Overtaken'
<1> DEFINE K == trickNumber
           len == Len(progress.rocketsWon)
           r == w.card.rank
<1>1. /\ K \in Nat /\ Tricks = 1 .. K - 1 /\ K \notin Tricks
      /\ \A k \in Tricks : WonWithNow(k) = WonWith(k)
      /\ WonWithNow(K) = w.card
      /\ w.card \in Deck /\ mission' = mission
  BY TrickFacts
<1>2. /\ RocketsNow = RocketsWon \cup {K}
      /\ r \notin Ranks
  BY RocketFacts
<1>3. Ranks = 1 .. len /\ len \in Nat
  BY DEF RocketsInOrder, Whole, TypeOK, ProgressType
<1>4. r \in 1 .. TopRocket /\ TopRocket \in Nat
  BY <1>1, RocketRank, TricksAssumption
<1>5. \A j \in RocketsNow : j < K => WonWithNow(j).rank \in 1 .. len
  <2> SUFFICES ASSUME NEW j \in RocketsNow, j < K PROVE WonWithNow(j).rank \in 1 .. len
    OBVIOUS
  <2>1. j \in RocketsWon /\ j \in Tricks
    BY <1>1, <1>2 DEF RocketsWon
  <2> QED
    BY <1>1, <1>3, <2>1 DEF Ranks
<1>6. Overtaken' <=> mission' = 44 /\ \E i \in RocketsNow : \E x \in 1 .. WonWithNow(i).rank - 1 :
                       \A j \in RocketsNow : j < i => WonWithNow(j).rank # x
  BY DEF Overtaken, RocketsWon, RocketsNow, WonWith, WonWithNow, IsRocket
<1> HIDE DEF K, len
<1>7. len + 1 \in 1 .. r - 1 /\ len + 1 \notin 1 .. len
  BY <1>2, <1>3, <1>4 DEF len
<1>8. \E i \in RocketsNow : \E x \in 1 .. WonWithNow(i).rank - 1 :
        \A j \in RocketsNow : j < i => WonWithNow(j).rank # x
  <2>1. K \in RocketsNow /\ len + 1 \in 1 .. WonWithNow(K).rank - 1
    BY <1>1, <1>2, <1>7
  <2>2. \A j \in RocketsNow : j < K => WonWithNow(j).rank # len + 1
    BY <1>5, <1>7
  <2> QED
    BY <2>1, <2>2
<1> QED
  BY <1>1, <1>6, <1>8

\* Whatever breaks the condition of a mission before the last trick leaves the
\* attempt hopeless.
LEMMA BrokenIsHopeless ==
  ASSUME Whole, Books, CountInv, Alive, NEW w, NEW plays, NEW held, TrickWon(w, plays, held),
         Broken(w, plays, held), trickNumber # LastTrick
  PROVE  Hopeless'
<1> DEFINE K == trickNumber
           t == Trick(w, plays)
           mine == w.player = setup.selected
           rocket == IsRocket(w.card)
<1>1. /\ K \in Nat /\ LastTrick \in Nat /\ LeadTricks \in Nat
      /\ ~Exhausted(held) /\ mission' = mission /\ setup' = setup
  <2>1. /\ K \in 1 .. LastTrick /\ LastTrick \in Nat
        /\ Exhausted(held) <=> K = LastTrick
        /\ mission' = mission /\ setup' = setup
    BY TrickFacts
  <2> QED
    BY <2>1, TricksAssumption
<1>2. t.by = w.player /\ t.card = w.card /\ t.plays = plays
  BY DEF Trick
<1>3. Spoils(setup, t, K) => Hopeless'
  BY SpoiltNow DEF Hopeless
<1>4. setup.mission = mission
  BY DEF mission
<1>5. \/ RoleBroken(w, Exhausted(held), tricksWon')
      \/ mission \in {16, 17} /\ ~rocket /\ w.card.rank = TopRank
      \/ mission \in {29, 34} /\ \E p, q \in Players : tricksWon'[p] > tricksWon'[q] + 1
      \/ mission = 34 /\ (K = 1 \/ Exhausted(held)) /\ w.player # setup.commander
      \/ mission \in {9, 26} /\ Counted(w, plays).oneWins + OnesLeft(held) < OnesNeeded
      \/ mission \in {13, 44} /\ Cardinality({c \in Cards(plays) : IsRocket(c)}) > 1
      \/ mission = 44 /\ rocket /\ w.card.rank # Len(progress.rocketsWon) + 1
      \/ mission = 46 /\ ~mine /\ \E c \in Cards(plays) : c.suit = Black
      \/ mission = 48 /\ \E g \in Caught(plays) : setup.token[g].kind = "omega"
  BY Zenon DEF Broken, ConditionBroken
<1>6. \/ mission = 5 /\ mine
      \/ mission \in {33, 41} /\ mine /\ rocket
      \/ mission = 33 /\ mine /\ tricksWon'[w.player] > 1
      \/ mission = 41 /\ mine # (K = 1)
      \/ mission = 50 /\ K <= LeadTricks /\ ~mine
      \/ mission = 50 /\ K > LeadTricks /\ w.player \in {setup.selected, setup.secondary}
      \/ ~RoleBroken(w, Exhausted(held), tricksWon')
  BY <1>1 DEF RoleBroken
<1> HIDE DEF t, K
<1>7. ASSUME mission = 5 /\ mine PROVE Hopeless'
  BY <1>2, <1>3, <1>4, <1>7 DEF Spoils
<1>8. ASSUME mission \in {33, 41} /\ mine /\ rocket PROVE Hopeless'
  BY <1>2, <1>3, <1>4, <1>8 DEF Spoils
<1>9. ASSUME mission = 33 /\ mine /\ tricksWon'[w.player] > 1 PROVE Hopeless'
  BY <1>9, SecondTrick DEF Hopeless
<1>10. ASSUME mission = 41 /\ mine # (K = 1) PROVE Hopeless'
  <2>1. IF mine THEN K \notin {1, LastTrick} ELSE K = 1
    BY <1>10 DEF K
  <2> QED
    BY <1>2, <1>3, <1>4, <1>10, <2>1 DEF Spoils
<1>11. ASSUME mission = 50 /\ K <= LeadTricks /\ ~mine PROVE Hopeless'
  <2>1. mine <=> K > LeadTricks
    BY <1>1, <1>11
  <2> QED
    BY <1>2, <1>3, <1>4, <1>11, <2>1 DEF Spoils
<1>12. ASSUME mission = 50 /\ K > LeadTricks /\ w.player \in {setup.selected, setup.secondary}
       PROVE  Hopeless'
  <2>1. CASE mine
    <3>1. mine <=> K > LeadTricks
      BY <1>12, <2>1
    <3> QED
      BY <1>2, <1>3, <1>4, <1>12, <3>1 DEF Spoils
  <2>2. CASE w.player = setup.secondary
    <3>1. K # LastTrick
      BY DEF K
    <3> QED
      BY <1>2, <1>3, <1>4, <1>12, <2>2, <3>1 DEF Spoils
  <2> QED
    BY <1>12, <2>1, <2>2
<1>13. ASSUME mission \in {16, 17} /\ ~rocket /\ w.card.rank = TopRank PROVE Hopeless'
  BY <1>2, <1>3, <1>4, <1>13 DEF Spoils
<1>14. ASSUME mission \in {29, 34} /\ \E p, q \in Players : tricksWon'[p] > tricksWon'[q] + 1
       PROVE  Hopeless'
  <2>1. Balanced
    BY <1>14 DEF Alive, Even
  <2>2. ~Balanced'
    BY <1>14, <2>1, BalanceGrows
  <2> QED
    BY <1>1, <1>14, <2>2 DEF Uneven, Hopeless
<1>15. ASSUME mission = 34 /\ K = 1 /\ w.player # setup.commander PROVE Hopeless'
  BY <1>2, <1>3, <1>4, <1>15 DEF Spoils
<1>16. ASSUME mission \in {9, 26} /\ Counted(w, plays).oneWins + OnesLeft(held) < OnesNeeded
       PROVE  Hopeless'
  BY <1>16, OnesRunOut DEF Alive, Hopeless
<1>17. ASSUME mission \in {13, 44} /\ Cardinality({c \in Cards(plays) : IsRocket(c)}) > 1
       PROVE  Hopeless'
  <2>1. \E c \in Cards(plays) : IsRocket(c) /\ c # w.card
    BY <1>17, SecondRocket DEF TrickWon
  <2> QED
    BY <1>2, <1>3, <1>4, <1>17, <2>1 DEF Spoils
<1>18. ASSUME mission = 44 /\ rocket /\ w.card.rank # Len(progress.rocketsWon) + 1 PROVE Hopeless'
  BY <1>18, RocketTooEarly DEF Alive, Hopeless
<1>19. ASSUME mission = 46 /\ ~mine /\ \E c \in Cards(plays) : c.suit = Black PROVE Hopeless'
  BY <1>2, <1>3, <1>4, <1>19 DEF Spoils
<1>20. ASSUME mission = 48 /\ \E g \in Caught(plays) : setup.token[g].kind = "omega" PROVE Hopeless'
  <2>1. PICK g \in Goals : setup.token[g].kind = "omega" /\ setup.goal[g] \in Cards(plays)
    BY <1>20 DEF Caught
  <2>2. Ending(mission) = "tasks" /\ g \in DOMAIN setup.goal /\ K # LastTrick
    BY <1>20 DEF Ending, Goals, K
  <2> QED
    BY <1>2, <1>3, <1>4, <1>20, <2>1, <2>2 DEF Spoils
<1> HIDE DEF mine, rocket
<1> QED
  BY <1>1, <1>5, <1>6, <1>7, <1>8, <1>9, <1>10, <1>11, <1>12, <1>13, <1>14, <1>15, <1>16, <1>17, <1>18, <1>19, <1>20

-----------------------------------------------------------------------------
(* Playing on after a failure.                                             *)

\* Nothing is said of the goals and counters once the attempt is lost, except
\* that the mission is out of reach.
FinalInv ==
  /\ Whole /\ SetupInv /\ TricksInv /\ CountInv
  /\ lost \in BOOLEAN
  /\ IF lost THEN Doomed ELSE phase # "failure" /\ BookInv /\ AuditInv

\* A trick leaves an attempt that is doomed doomed.
LEMMA DoomedStays ==
  ASSUME Whole, SetupInv, CountInv, Doomed, NEW w, NEW plays, NEW held, TrickWon(w, plays, held)
  PROVE  Doomed'
<1>1. ~AllPlayed
  <2>1. trickNumber \in 1 .. LastTrick /\ LastTrick \in Nat
    BY TrickFacts
  <2>2. Len(history) = trickNumber - 1
    BY DEF TrickWon, CountInv
  <2> QED
    BY <2>1, <2>2 DEF AllPlayed
<1> QED
  BY <1>1, HopelessStays DEF Doomed

\* The trick with which the engine gives up leaves it doomed.
LEMMA FailureIsDoom ==
  ASSUME Whole, Books, AuditInv, NEW w, NEW plays, NEW held, TrickWon(w, plays, held), phase' = "failure"
  PROVE  Doomed'
<1>1. CountInv /\ Alive
  BY DEF AuditInv, TrickWon
<1>2. CASE trickNumber = LastTrick
  <2>1. AllPlayed'
    BY <1>1, <1>2, TrickFacts
  <2>2. ~MissionMet'
    BY <1>1, TrickAudit DEF Verdict
  <2> QED
    BY <2>1, <2>2 DEF Doomed
<1>3. CASE trickNumber # LastTrick
  <2>1. Missed(w, plays) \/ Broken(w, plays, held)
    BY <1>1, <1>3, TrickFacts DEF TrickWon
  <2> QED
    BY <1>1, <1>3, <2>1, MissedIsHopeless, BrokenIsHopeless DEF Doomed
<1> QED
  BY <1>2, <1>3

\* A step of the engine keeps all that.
LEMMA NextFinal == FinalInv /\ [Next]_vars /\ lost' = (lost \/ phase' = "failure") => FinalInv'
<1> SUFFICES ASSUME FinalInv, [Next]_vars, lost' = (lost \/ phase' = "failure") PROVE FinalInv'
  OBVIOUS
<1>1. Whole /\ SetupInv /\ TricksInv /\ CountInv /\ lost \in BOOLEAN
  BY DEF FinalInv
<1>2. Whole'
  BY <1>1, NextType, NextHands, NextCards, NextApart DEF Whole
<1>3. CountInv' /\ setup' = setup
  BY <1>1, NextCount, SetupStays
<1>4. SetupInv'
  BY <1>1, <1>3 DEF SetupInv, mission, GoalCount, Players, Deck
<1>5. CASE Quiet
  <2>1. history' = history /\ setup' = setup /\ (phase' = phase \/ phase' = "playing")
    BY <1>5 DEF Quiet
  <2>2. TricksInv'
    BY <1>1, <2>1 DEF TricksInv, Tricks, WonWith, Cards, Plays
  <2>3. CASE lost
    <3>1. MissionMet' <=> MissionMet
      BY <1>5, QuietAudit DEF Quiet
    <3>2. Doomed'
      BY <2>1, <2>3, <3>1, HopelessKept DEF FinalInv, Doomed
    <3> QED
      BY <1>2, <1>3, <1>4, <2>2, <2>3, <3>2 DEF FinalInv
  <2>4. CASE ~lost
    <3>1. Books /\ AuditInv /\ phase # "failure"
      BY <1>1, <2>4 DEF FinalInv, Books
    <3>2. BookInv' /\ AuditInv'
      BY <1>1, <3>1, NextBooks, NextAudit DEF Books
    <3>3. phase' # "failure" /\ lost' = FALSE
      BY <2>1, <2>4, <3>1
    <3> QED
      BY <1>2, <1>3, <1>4, <2>2, <3>2, <3>3 DEF FinalInv
  <2> QED
    BY <2>3, <2>4
<1>6. ASSUME NEW w, NEW plays, NEW held, TrickWon(w, plays, held) PROVE FinalInv'
  <2>1. TricksInv'
    BY <1>1, <1>6, TricksStayApart
  <2>2. CASE lost
    <3>1. Doomed'
      BY <1>1, <1>6, <2>2, DoomedStays DEF FinalInv
    <3> QED
      BY <1>2, <1>3, <1>4, <2>1, <2>2, <3>1 DEF FinalInv
  <2>3. CASE ~lost
    <3>1. Books /\ AuditInv
      BY <1>1, <2>3 DEF FinalInv, Books
    <3>2. BookInv' /\ AuditInv'
      BY <1>1, <3>1, NextBooks, NextAudit DEF Books
    <3>3. phase' = "failure" => Doomed'
      BY <1>1, <1>6, <3>1, FailureIsDoom
    <3>4. lost' = (phase' = "failure")
      BY <2>3
    <3> QED
      BY <1>2, <1>3, <1>4, <2>1, <3>2, <3>3, <3>4 DEF FinalInv
  <2> QED
    BY <2>2, <2>3
<1> QED
  BY <1>1, <1>5, <1>6, EveryStep

\* So does playing on, which only takes the failure back.
LEMMA PlayOnFinal == FinalInv /\ PlayOn => FinalInv'
<1> SUFFICES ASSUME FinalInv, PlayOn PROVE FinalInv'
  OBVIOUS
<1>1. /\ Whole /\ SetupInv /\ TricksInv /\ CountInv /\ lost /\ Doomed
  BY DEF FinalInv, PlayOn
<1>2. /\ phase = "failure" /\ phase' = "trick_result" /\ ~Exhausted(hands)
      /\ UNCHANGED <<setup, hands, trick, trickNumber, turn, status, communication,
                     tricksWon, progress, history, lost>>
  BY DEF PlayOn
<1>3. SetupInv' /\ TricksInv' /\ CountInv'
  <2>1. SetupInv'
    BY <1>1, <1>2 DEF SetupInv, mission, GoalCount, Players, Deck
  <2>2. TricksInv'
    <3>1. TricksInv /\ history' = history
      BY <1>1, <1>2
    <3> QED
      BY <3>1, Zenon DEF TricksInv, Tricks, WonWith
  <2>3. CountInv'
    BY <1>1, <1>2 DEF CountInv, WonBy, Tricks, Players
  <2> QED
    BY <2>1, <2>2, <2>3
<1>4. TypeOK' /\ TableInv'
  BY <1>1, <1>2 DEF Whole, TypeOK, TableInv, Goals, Players, Deck, PlayType, SaidType, ProgressType
<1>5. HandsInv'
  <2>1. trickNumber <= LastTrick /\ trickNumber \in Nat /\ LastTrick \in Nat
    BY <1>1, TableFacts DEF Whole, TypeOK, HandsInv
  <2>2. trickNumber # LastTrick
    <3> SUFFICES ASSUME trickNumber = LastTrick PROVE FALSE
      OBVIOUS
    <3>1. N - 1 \in Players /\ Dealt(N - 1) = LastTrick
      BY DealtFacts, TableFacts DEF Players
    <3>2. Cardinality(hands[N - 1]) = 0
      BY <1>1, <1>2, <2>1, <3>1 DEF Whole, HandsInv, Holding
    <3> QED
      BY <1>1, <1>2, <3>1, <3>2, HandFinite DEF Whole, TypeOK, Exhausted
  <2>3. \A p \in Players : Holding(p) = Dealt(p) - trickNumber /\ Holding(p)' = Dealt(p) - trickNumber
    BY <1>2 DEF Holding, Dealt, Leftover, LastTrick, Deck
  <2>4. \A p \in Players : Cardinality(hands[p]) = Dealt(p) - trickNumber
    BY <1>1, <2>3 DEF Whole, HandsInv
  <2>5. Disjoint(hands)' /\ LastTrick' = LastTrick
    BY <1>1, <1>2 DEF Whole, HandsInv, Disjoint, Players, LastTrick, Deck
  <2>6. \A p \in Players' : Cardinality(hands'[p]) = Holding(p)'
    BY <1>2, <2>3, <2>4 DEF Players
  <2> QED
    BY <1>2, <2>1, <2>2, <2>5, <2>6 DEF HandsInv
<1>6. CardsInv' /\ Apart'
  <2>1. /\ OnTable = {} /\ OnTable' = {} /\ CardsWon' = CardsWon
        /\ UNION {hands'[p] : p \in Players} = UNION {hands[p] : p \in Players}
    BY <1>2 DEF OnTable, CardsWon, Cards, Plays
  <2> QED
    BY <1>1, <1>2, <2>1 DEF Whole, CardsInv, Apart, Gone, WonType, PlayType, Players, Deck
<1>7. Doomed'
  <2>1. MissionMet' <=> MissionMet
    BY <1>2, QuietAudit
  <2> QED
    BY <1>1, <1>2, <2>1, HopelessKept DEF Doomed
<1> QED
  BY <1>1, <1>2, <1>3, <1>4, <1>5, <1>6, <1>7 DEF FinalInv, Whole

\* Whoever plays on after a failure learns that the mission was lost: however
\* the crew had played, it could not have met what the log book asks, so the
\* engine never gives up too early (resolve, ConditionBroken).
THEOREM FailureAlwaysFinal == WhatIfSpec => []FailureIsFinal
<1>1. Init /\ lost = FALSE => FinalInv
  <2> SUFFICES ASSUME Init, lost = FALSE PROVE FinalInv
    OBVIOUS
  <2>1. Whole
    <3>1. Apart
      BY DEF Init, Apart, OnTable, Cards, Plays
    <3> QED
      BY <3>1, InitType, InitHands, InitCards DEF Whole
  <2>2. Books /\ AuditInv /\ phase = "playing"
    BY InitSetup, InitBooks, InitAudit DEF Init
  <2> QED
    BY <2>1, <2>2 DEF FinalInv, Books, AuditInv
<1>2. FinalInv /\ [\/ Next /\ lost' = (lost \/ phase' = "failure")
                   \/ PlayOn]_<<vars, lost>> => FinalInv'
  <2>1. ASSUME FinalInv, UNCHANGED <<vars, lost>> PROVE FinalInv'
    <3>1. [Next]_vars /\ lost' = (lost \/ phase' = "failure")
      BY <2>1 DEF FinalInv, vars
    <3> QED
      BY <2>1, <3>1, NextFinal
  <2> QED
    BY <2>1, NextFinal, PlayOnFinal
<1>3. FinalInv => FailureIsFinal
  <2> SUFFICES ASSUME FinalInv, lost PROVE ~MissionMet
    BY DEF FailureIsFinal
  <2> QED
    BY HopelessIsLost DEF FinalInv, Doomed
<1> QED
  BY <1>1, <1>2, <1>3, PTL DEF WhatIfSpec
=============================================================================
