--------------------------- MODULE TaskOrderProofs --------------------------
(***************************************************************************)
(* The test of the engine on the order of the goals is exact, and so are   *)
(* the marks of the table, for every layout of tokens that has an ordering *)
(* at all, however many goals there are.                                   *)
(***************************************************************************)
EXTENDS TaskOrder, FiniteSetTheorems, WellFoundedInduction, TLAPS

TokenType == [kind : TokenKinds, value : Nat]
BatchType(n) == [by : Owners \cup {0}, goals : SUBSET (1 .. n)]

-----------------------------------------------------------------------------
(* Sets of numbers in their order.                                         *)

Below(P, x) == {y \in P : y < x}

\* A set of numbers that is not empty has a least one.
LEMMA LeastNumber ==
  ASSUME NEW T \in SUBSET Nat, T # {}
  PROVE  \E x \in T : \A y \in T : x <= y
<1>1. PICK x \in T : \A y \in T : ~(<<y, x>> \in OpToRel(<, Nat))
  BY NatLessThanWellFounded, WFMin
<1>2. \A y \in T : ~(y < x)
  BY <1>1 DEF OpToRel
<1> QED
  BY <1>2


\* The part of a set of numbers below a bound is finite too, and so has a size.
LEMMA BelowIsFinite ==
  ASSUME NEW n \in Nat, NEW P \in SUBSET (1 .. n)
  PROVE  /\ P \subseteq Nat /\ IsFiniteSet(P) /\ Cardinality(P) \in Nat
         /\ \A x : Below(P, x) \subseteq P /\ IsFiniteSet(Below(P, x)) /\ Cardinality(Below(P, x)) \in Nat
<1>1. IsFiniteSet(1 .. n)
  BY FS_Interval
<1>2. P \subseteq 1 .. n
  OBVIOUS
<1>3. IsFiniteSet(P)
  BY <1>1, <1>2, FS_Subset
<1>4. ASSUME NEW x PROVE Below(P, x) \subseteq P /\ IsFiniteSet(Below(P, x))
  <2>1. Below(P, x) \subseteq P
    BY DEF Below
  <2> QED
    BY <1>3, <2>1, FS_Subset
<1> QED
  BY <1>2, <1>3, <1>4, FS_CardinalityType

\* For every k less than the size of a set of numbers up to n, one of them has
\* exactly k lesser ones.
LEMMA KthNumber ==
  ASSUME NEW n \in Nat, NEW P \in SUBSET (1 .. n), NEW k \in Nat, k < Cardinality(P)
  PROVE  \E x \in P : Cardinality(Below(P, x)) = k
<1> DEFINE T == {m \in Nat : k < Cardinality(Below(P, m))}
<1>1. /\ P \subseteq Nat
      /\ \A m \in Nat : IsFiniteSet(Below(P, m)) /\ Cardinality(Below(P, m)) \in Nat
  BY BelowIsFinite
<1>2. T # {}
  <2>1. Below(P, n + 1) = P
    <3>1. \A y \in P : y \in 1 .. n /\ y < n + 1
      OBVIOUS
    <3> QED
      BY <3>1 DEF Below
  <2> QED
    BY <2>1
<1>3. PICK m \in T : \A z \in T : m <= z
  <2>1. T \in SUBSET Nat
    OBVIOUS
  <2> QED
    BY <1>2, <2>1, LeastNumber
<1>4. m \in Nat /\ m > 0
  <2>1. Below(P, 0) = {}
    <3>1. \A y \in P : ~(y < 0)
      BY <1>1
    <3> QED
      BY <3>1 DEF Below
  <2>2. Cardinality(Below(P, 0)) = 0
    BY <2>1, FS_EmptySet
  <2>3. m \in Nat /\ k < Cardinality(Below(P, m))
    BY <1>3
  <2>4. m # 0
    BY <2>2, <2>3
  <2> QED
    BY <2>3, <2>4
<1> DEFINE c == m - 1
<1>5. c \in Nat /\ m = c + 1 /\ Cardinality(Below(P, c)) <= k
  <2>1. c \in Nat /\ m = c + 1 /\ ~(m <= c)
    BY <1>4
  <2>2. ~(k < Cardinality(Below(P, c)))
    BY <1>3, <2>1
  <2> QED
    BY <1>1, <2>1, <2>2
<1> HIDE DEF c
<1>6. k < Cardinality(Below(P, c + 1))
  BY <1>3, <1>5
<1>7. Below(P, c + 1) = IF c \in P THEN Below(P, c) \cup {c} ELSE Below(P, c)
  <2>1. \A y \in P : y < c + 1 <=> y < c \/ y = c
    BY <1>1, <1>5
  <2> QED
    BY <2>1, <1>5 DEF Below
<1>8. c \in P
  BY <1>1, <1>5, <1>6, <1>7
<1>9. Cardinality(Below(P, c + 1)) = Cardinality(Below(P, c)) + 1
  <2>1. c \notin Below(P, c)
    BY <1>5 DEF Below
  <2>2. Below(P, c + 1) = Below(P, c) \cup {c}
    BY <1>7, <1>8
  <2>3. IsFiniteSet(Below(P, c))
    BY <1>1, <1>5
  <2> QED
    BY <2>1, <2>2, <2>3, FS_AddElement
<1>10. Cardinality(Below(P, c)) = k
  BY <1>1, <1>5, <1>6, <1>9
<1> QED
  BY <1>8, <1>10

Keys(U) == {key \in [U -> Nat] : \A t, u \in U : key[t] = key[u] => t = u}
Fillings(P, U, key) == {f \in [U -> P] : /\ \A x \in P : \E t \in U : f[t] = x
                                         /\ \A t, u \in U : key[t] < key[u] => f[t] < f[u]}

\* The elements of a set can take the numbers of a set of the same size in the
\* order of their keys.
LEMMA Fill ==
  ASSUME NEW n \in Nat, NEW P \in SUBSET (1 .. n), NEW U, IsFiniteSet(U), Cardinality(U) = Cardinality(P),
         NEW key \in Keys(U)
  PROVE  Fillings(P, U, key) # {}
<1> DEFINE Less(t) == {u \in U : key[u] < key[t]}
           Rank(t) == Cardinality(Less(t))
<1>1. /\ P \subseteq Nat /\ IsFiniteSet(P) /\ Cardinality(P) \in Nat
      /\ \A x : IsFiniteSet(Below(P, x)) /\ Cardinality(Below(P, x)) \in Nat
  BY BelowIsFinite
<1>0. (\A t \in U : key[t] \in Nat) /\ \A t, u \in U : key[t] = key[u] => t = u
  BY DEF Keys
<1>2. ASSUME NEW t \in U PROVE IsFiniteSet(Less(t)) /\ Rank(t) \in Nat /\ Rank(t) < Cardinality(P)
  <2>1. Less(t) \subseteq U \ {t}
    BY <1>0
  <2>2. IsFiniteSet(U \ {t}) /\ Cardinality(U \ {t}) = Cardinality(U) - 1 /\ Cardinality(U) \in Nat
    BY FS_RemoveElement, FS_CardinalityType
  <2>3. IsFiniteSet(Less(t)) /\ Cardinality(Less(t)) <= Cardinality(U \ {t})
    BY <2>1, <2>2, FS_Subset
  <2>4. Cardinality(Less(t)) \in Nat
    BY <2>3, FS_CardinalityType
  <2> QED
    BY <2>2, <2>3, <2>4
<1>3. \A t \in U : \E x \in P : Cardinality(Below(P, x)) = Rank(t)
  <2> HIDE DEF Rank
  <2> QED
    BY <1>2, KthNumber
<1> DEFINE f == [t \in U |-> CHOOSE x \in P : Cardinality(Below(P, x)) = Rank(t)]
<1>4. f \in [U -> P] /\ \A t \in U : Cardinality(Below(P, f[t])) = Rank(t)
  <2> HIDE DEF Rank
  <2> QED
    BY <1>3
<1> HIDE DEF f
<1>5. ASSUME NEW t \in U, NEW u \in U, key[t] < key[u] PROVE f[t] < f[u]
  <2>1. Less(t) \subseteq Less(u) \ {t} /\ t \in Less(u)
    BY <1>0, <1>5
  <2>2. Rank(t) < Rank(u)
    <3>1. IsFiniteSet(Less(u) \ {t}) /\ Cardinality(Less(u) \ {t}) = Rank(u) - 1
      BY <1>2, <2>1, FS_RemoveElement
    <3>2. Rank(t) <= Cardinality(Less(u) \ {t})
      BY <2>1, <3>1, FS_Subset
    <3>3. Rank(t) \in Nat /\ Rank(u) \in Nat
      BY <1>2
    <3> HIDE DEF Rank, Less
    <3> QED
      BY <3>1, <3>2, <3>3
  <2>3. Rank(t) \in Nat /\ Rank(u) \in Nat
    BY <1>2
  <2>4. f[u] \in P /\ f[t] \in P /\ f[u] \in Nat /\ f[t] \in Nat
    BY <1>1, <1>4
  <2>5. Cardinality(Below(P, f[t])) = Rank(t) /\ Cardinality(Below(P, f[u])) = Rank(u)
    BY <1>4
  <2> HIDE DEF Rank, Less
  <2>6. ASSUME f[u] <= f[t] PROVE FALSE
    <3>1. \A y \in P : y \in Nat
      BY <1>1
    <3>2. \A y \in P : y < f[u] => y < f[t]
      BY <2>4, <2>6, <3>1
    <3>3. Below(P, f[u]) \subseteq Below(P, f[t])
      BY <3>2 DEF Below
    <3>4. Cardinality(Below(P, f[u])) <= Cardinality(Below(P, f[t]))
      BY <1>1, <3>3, FS_Subset
    <3> QED
      BY <2>2, <2>3, <2>5, <3>4
  <2> QED
    BY <2>4, <2>6
<1>6. ASSUME NEW t \in U, NEW u \in U, f[t] = f[u] PROVE t = u
  <2>0. f[t] \in P /\ f[t] \in Nat
    BY <1>1, <1>4
  <2>1. ~(f[t] < f[u]) /\ ~(f[u] < f[t])
    BY <1>6, <2>0
  <2>2. ~(key[t] < key[u]) /\ ~(key[u] < key[t])
    BY <1>5, <2>1
  <2>3. key[t] = key[u]
    BY <1>0, <2>2
  <2> QED
    BY <1>0, <2>3
<1>7. f \in Injection(U, P)
  BY <1>4, <1>6 DEF Injection, IsInjective
<1>8. f \in Surjection(U, P)
  BY <1>1, <1>7, FS_Injection
<1> QED
  BY <1>4, <1>5, <1>8 DEF Surjection, Fillings

-----------------------------------------------------------------------------
(* Goals in places: every place of 1..n has a goal.                        *)

Placing(n) == {pos \in [1 .. n -> 1 .. n] : \A x \in 1 .. n : \E t \in 1 .. n : pos[t] = x}

\* No two goals share a place.
LEMMA PlacesDiffer ==
  ASSUME NEW n \in Nat, NEW pos \in Placing(n)
  PROVE  \A t, u \in 1 .. n : pos[t] = pos[u] => t = u
<1>1. IsFiniteSet(1 .. n)
  BY FS_Interval
<1>2. pos \in Surjection(1 .. n, 1 .. n)
  BY DEF Placing, Surjection
<1>3. pos \in Injection(1 .. n, 1 .. n)
  BY <1>1, <1>2, FS_Surjection
<1> QED
  BY <1>3 DEF Injection, IsInjective

\* As many goals as places up to e have a place up to e.
LEMMA GoalsUpTo ==
  ASSUME NEW n \in Nat, NEW pos \in Placing(n), NEW e \in 0 .. n
  PROVE  Cardinality({t \in 1 .. n : pos[t] <= e}) = e
<1> DEFINE V == {t \in 1 .. n : pos[t] <= e}
           g == [t \in V |-> pos[t]]
<1>1. pos \in [1 .. n -> 1 .. n] /\ \A x \in 1 .. n : \E t \in 1 .. n : pos[t] = x
  BY DEF Placing
<1>2. g \in [V -> 1 .. e]
  BY <1>1
<1>3. \A t, u \in V : g[t] = g[u] => t = u
  BY PlacesDiffer
<1>4. ASSUME NEW x \in 1 .. e PROVE \E t \in V : g[t] = x
  <2>1. x \in 1 .. n /\ x <= e
    OBVIOUS
  <2>2. PICK t \in 1 .. n : pos[t] = x
    BY <1>1, <2>1
  <2> QED
    BY <2>1, <2>2
<1>5. g \in Bijection(V, 1 .. e)
  <2> HIDE DEF g, V
  <2> QED
    BY <1>2, <1>3, <1>4 DEF Bijection, Injection, Surjection, IsInjective
<1>6. IsFiniteSet(V)
  <2>1. V \subseteq 1 .. n /\ IsFiniteSet(1 .. n)
    BY FS_Interval
  <2> QED
    BY <2>1, FS_Subset
<1>7. Cardinality(V) = Cardinality(1 .. e)
  BY <1>5, <1>6, FS_Bijection DEF ExistsBijection
<1>8. Cardinality(1 .. e) = e
  BY FS_Interval
<1> QED
  BY <1>7, <1>8

\* Two sets of the same size that do not differ in both directions are equal.
LEMMA SameSize ==
  ASSUME NEW n \in Nat, NEW C \in SUBSET (1 .. n), NEW V \in SUBSET (1 .. n),
         Cardinality(C) = Cardinality(V), C \subseteq V \/ V \subseteq C
  PROVE  C = V
<1>1. IsFiniteSet(C) /\ IsFiniteSet(V)
  BY BelowIsFinite
<1> QED
  BY <1>1, FS_Subset

\* A set of goals that all come before the others has the first places.
LEMMA FirstPlaces ==
  ASSUME NEW n \in Nat, NEW pos \in Placing(n), NEW C \in SUBSET (1 .. n),
         \A t \in C, u \in (1 .. n) \ C : pos[t] < pos[u]
  PROVE  \A t \in 1 .. n : t \in C <=> pos[t] <= Cardinality(C)
<1> DEFINE e == Cardinality(C)
           V == {t \in 1 .. n : pos[t] <= e}
<1>0. \A t \in 1 .. n : pos[t] \in 1 .. n
  BY DEF Placing
<1>1. IsFiniteSet(1 .. n) /\ Cardinality(1 .. n) = n /\ IsFiniteSet(C) /\ e \in 0 .. n
  <2>1. IsFiniteSet(1 .. n) /\ Cardinality(1 .. n) = n /\ C \subseteq 1 .. n
    BY FS_Interval
  <2>2. IsFiniteSet(C) /\ Cardinality(C) <= n
    BY <2>1, FS_Subset
  <2>3. Cardinality(C) \in Nat
    BY <2>2, FS_CardinalityType
  <2> QED
    BY <2>1, <2>2, <2>3
<1>2. V \subseteq 1 .. n /\ Cardinality(V) = e
  <2>1. V \subseteq 1 .. n
    OBVIOUS
  <2> QED
    BY <1>1, <2>1, GoalsUpTo
<1>3. C \subseteq V \/ V \subseteq C
  <2>1. SUFFICES ASSUME NEW t \in C, t \notin V, NEW u \in V, u \notin C PROVE FALSE
    OBVIOUS
  <2>2. pos[t] < pos[u] /\ pos[u] <= e /\ ~(pos[t] <= e)
    BY <2>1
  <2>3. pos[t] \in Nat /\ pos[u] \in Nat /\ e \in Nat
    BY <1>0, <1>1, <2>1
  <2> HIDE DEF e
  <2> QED
    BY <2>2, <2>3
<1>4. C = V
  BY <1>2, <1>3, SameSize
<1> QED
  BY <1>4

-----------------------------------------------------------------------------
(* The orderings of a sequence of batches.                                 *)

GoalsOf(batches) == UNION {batches[k].goals : k \in 1 .. Len(batches)}

Follows(n, pos, batches) ==
  \A t, u \in 1 .. n : \A k \in 1 .. Len(batches) :
    t \in batches[k].goals /\ (\A j \in 1 .. k : u \notin batches[j].goals) => pos[t] < pos[u]

\* The orderings are the placings that follow the batches.
LEMMA OrderingsArePlacings ==
  ASSUME NEW n \in Nat, NEW batches, NEW tok, DOMAIN tok = 1 .. n
  PROVE  /\ OrderExists(tok, batches)
              <=> \E pos \in Placing(n) : Follows(n, pos, batches) /\ Obeys(pos, tok)
         /\ Cardinality(1 .. n) = n
<1>1. Cardinality(1 .. n) = n
  BY FS_Interval
<1>2. ASSUME NEW pos
      PROVE  pos \in Orderings(1 .. n, batches) <=> pos \in Placing(n) /\ Follows(n, pos, batches)
  <2>1. ASSUME pos \in [1 .. n -> 1 .. n]
        PROVE  {pos[t] : t \in 1 .. n} = 1 .. n <=> \A x \in 1 .. n : \E t \in 1 .. n : pos[t] = x
    BY <2>1
  <2> DEFINE before == {p \in (1 .. n) \X (1 .. n) :
                         \E k \in 1 .. Len(batches) :
                           /\ p[1] \in batches[k].goals
                           /\ \A j \in 1 .. k : p[2] \notin batches[j].goals}
  <2>2. (\A p \in before : pos[p[1]] < pos[p[2]]) <=> Follows(n, pos, batches)
    <3>1. \A t, u \in 1 .. n : <<t, u>>[1] = t /\ <<t, u>>[2] = u /\ <<t, u>> \in (1 .. n) \X (1 .. n)
      OBVIOUS
    <3>2. \A p \in (1 .. n) \X (1 .. n) : p[1] \in 1 .. n /\ p[2] \in 1 .. n
      OBVIOUS
    <3>3. ASSUME \A p \in before : pos[p[1]] < pos[p[2]] PROVE Follows(n, pos, batches)
      <4>1. SUFFICES ASSUME NEW t \in 1 .. n, NEW u \in 1 .. n, NEW k \in 1 .. Len(batches),
                            t \in batches[k].goals, \A j \in 1 .. k : u \notin batches[j].goals
                     PROVE  pos[t] < pos[u]
        BY Zenon DEF Follows
      <4>2. <<t, u>> \in before
        BY <3>1, <4>1
      <4> QED
        BY <3>1, <3>3, <4>2
    <3>4. ASSUME Follows(n, pos, batches) PROVE \A p \in before : pos[p[1]] < pos[p[2]]
      BY <3>2, <3>4, Zenon DEF Follows
    <3> QED
      BY <3>3, <3>4
  <2>3. pos \in Orderings(1 .. n, batches)
          <=> /\ pos \in [1 .. n -> 1 .. n] /\ {pos[t] : t \in 1 .. n} = 1 .. n
              /\ \A p \in before : pos[p[1]] < pos[p[2]]
    <3> HIDE DEF before
    <3> QED
      BY <1>1 DEF Orderings, before
  <2> HIDE DEF before
  <2> QED
    BY <2>1, <2>2, <2>3 DEF Placing
<1> QED
  BY <1>1, <1>2 DEF OrderExists

\* A batch is added at the end.
LEMMA OneMoreBatch ==
  ASSUME NEW n \in Nat, NEW batches \in Seq(BatchType(n)), NEW b \in BatchType(n)
  PROVE  LET more == Append(batches, b)
         IN  /\ Len(batches) \in Nat /\ Len(more) = Len(batches) + 1
             /\ \A k \in 1 .. Len(batches) : more[k] = batches[k] /\ k \in 1 .. Len(more)
             /\ more[Len(batches) + 1] = b
             /\ more \in Seq(BatchType(n))
             /\ GoalsOf(more) = GoalsOf(batches) \cup b.goals
             /\ GoalsOf(batches) \in SUBSET (1 .. n)
<1> DEFINE more == Append(batches, b)
<1>1. /\ Len(batches) \in Nat /\ Len(more) = Len(batches) + 1 /\ more \in Seq(BatchType(n))
      /\ \A k \in 1 .. Len(batches) : more[k] = batches[k] /\ k \in 1 .. Len(more)
      /\ more[Len(batches) + 1] = b
      /\ \A k \in 1 .. Len(batches) : batches[k] \in BatchType(n)
  OBVIOUS
<1> HIDE DEF more
<1>2. \A k \in 1 .. Len(batches) + 1 : k \in 1 .. Len(batches) \/ k = Len(batches) + 1
  BY <1>1
<1>3. Len(batches) + 1 \in 1 .. Len(more)
  BY <1>1
<1>4. GoalsOf(more) \subseteq GoalsOf(batches) \cup b.goals
  BY <1>1, <1>2, Zenon DEF GoalsOf
<1>5. GoalsOf(batches) \cup b.goals \subseteq GoalsOf(more)
  BY <1>1, <1>3, Zenon DEF GoalsOf
<1>6. GoalsOf(batches) \in SUBSET (1 .. n)
  BY <1>1 DEF GoalsOf, BatchType
<1> QED
  BY <1>1, <1>4, <1>5, <1>6 DEF more

\* The goals of the batches have the first places.
LEMMA BatchesComeFirst ==
  ASSUME NEW n \in Nat, NEW batches \in Seq(BatchType(n)), NEW pos \in Placing(n), Follows(n, pos, batches)
  PROVE  \A t \in 1 .. n : t \in GoalsOf(batches) <=> pos[t] <= Cardinality(GoalsOf(batches))
<1>1. \A k \in 1 .. Len(batches) : batches[k] \in BatchType(n)
  OBVIOUS
<1>2. GoalsOf(batches) \in SUBSET (1 .. n)
  BY <1>1 DEF GoalsOf, BatchType
<1>3. ASSUME NEW t \in GoalsOf(batches), NEW u \in (1 .. n) \ GoalsOf(batches) PROVE pos[t] < pos[u]
  <2>1. PICK k \in 1 .. Len(batches) : t \in batches[k].goals
    BY DEF GoalsOf
  <2>2. Len(batches) \in Nat
    OBVIOUS
  <2>3. \A j \in 1 .. k : j \in 1 .. Len(batches)
    BY <2>2
  <2>4. \A j \in 1 .. k : u \notin batches[j].goals
    BY <2>3 DEF GoalsOf
  <2> QED
    BY <1>2, <2>1, <2>4 DEF Follows
<1> QED
  BY <1>2, <1>3, FirstPlaces

-----------------------------------------------------------------------------
(* The test of the engine.                                                 *)

\* The size of two disjoint sets of goals.
LEMMA SizeOfBoth ==
  ASSUME NEW n \in Nat, NEW C \in SUBSET (1 .. n), NEW D \in SUBSET (1 .. n), C \cap D = {}
  PROVE  /\ Cardinality(C) \in Nat /\ Cardinality(D) \in Nat /\ Cardinality(1 .. n) = n
         /\ Cardinality(C) + Cardinality(D) \in Nat /\ Cardinality(C) + Cardinality(D) <= n
         /\ Cardinality(C \cup D) = Cardinality(C) + Cardinality(D)
<1>1. IsFiniteSet(C) /\ IsFiniteSet(D) /\ Cardinality(C) \in Nat /\ Cardinality(D) \in Nat
  BY BelowIsFinite
<1>2. Cardinality(C \cap D) = 0
  BY FS_EmptySet
<1>3. Cardinality(C \cup D) = Cardinality(C) + Cardinality(D) - 0
  BY <1>1, <1>2, FS_Union
<1>4. IsFiniteSet(1 .. n) /\ Cardinality(1 .. n) = n
  BY FS_Interval
<1>5. Cardinality(C \cup D) <= n
  BY <1>4, FS_Subset, ZenonT(40)
<1> QED
  BY ONLY <1>1, <1>3, <1>4, <1>5

\* A batch the test rejects leaves no ordering.
LEMMA TestIsNecessary ==
  ASSUME NEW n \in Nat, NEW tok \in [1 .. n -> TokenType],
         NEW batches \in Seq(BatchType(n)), NEW b \in BatchType(n),
         b.goals \cap GoalsOf(batches) = {},
         OrderExists(tok, Append(batches, b))
  PROVE  ~BadTaskOrder(tok, GoalsOf(batches), b.goals)
<1> DEFINE done == GoalsOf(batches)
           caught == b.goals
           more == Append(batches, b)
           d == Cardinality(done)
           e == d + Cardinality(caught)
<1>1. /\ DOMAIN tok = 1 .. n /\ done \in SUBSET (1 .. n) /\ caught \in SUBSET (1 .. n)
      /\ GoalsOf(more) = done \cup caught /\ more \in Seq(BatchType(n))
  <2>1. caught \in SUBSET (1 .. n)
    BY DEF BatchType
  <2>2. GoalsOf(more) = done \cup caught /\ more \in Seq(BatchType(n)) /\ done \in SUBSET (1 .. n)
    BY OneMoreBatch
  <2> QED
    BY <2>1, <2>2
<1>2. d \in Nat /\ Cardinality(caught) \in Nat /\ e \in Nat /\ Cardinality(done \cup caught) = e
      /\ e <= n /\ Cardinality(1 .. n) = n
  <2>1. /\ done \in SUBSET (1 .. n) /\ caught \in SUBSET (1 .. n)
        /\ done \cap caught = {}
    BY <1>1
  <2>2. d = Cardinality(done) /\ e = Cardinality(done) + Cardinality(caught)
    OBVIOUS
  <2> HIDE DEF done, caught, d, e
  <2>3. /\ Cardinality(done) \in Nat /\ Cardinality(caught) \in Nat /\ Cardinality(1 .. n) = n
        /\ Cardinality(done) + Cardinality(caught) <= n
        /\ Cardinality(done \cup caught) = Cardinality(done) + Cardinality(caught)
    BY ONLY <2>1, n \in Nat, SizeOfBoth, ZenonT(60)
  <2> QED
    BY ONLY <2>2, <2>3
<1>3. PICK pos \in Placing(n) : Follows(n, pos, more) /\ Obeys(pos, tok)
  BY <1>1, OrderingsArePlacings
<1>4. \A t \in 1 .. n : t \in done \cup caught <=> pos[t] <= e
  <2>1. \A t \in 1 .. n : t \in GoalsOf(more) <=> pos[t] <= Cardinality(GoalsOf(more))
    BY <1>1, <1>3, BatchesComeFirst
  <2> QED
    BY <1>1, <1>2, <2>1
<1>5. \A t \in 1 .. n : t \in done <=> pos[t] <= d
  <2>1. Follows(n, pos, batches)
    BY <1>3, OneMoreBatch DEF Follows
  <2> QED
    BY <1>3, <2>1, BatchesComeFirst
<1>6. \A t \in 1 .. n : pos[t] \in 1 .. n
  BY DEF Placing
<1> SUFFICES ASSUME NEW t \in (1 .. n) \ done,
                    \/ /\ tok[t].kind = "absolute"
                       /\ (t \in caught) # (tok[t].value \in d + 1 .. e)
                    \/ /\ tok[t].kind = "relative" /\ t \in caught
                       /\ \E u \in ((1 .. n) \ done) \ caught :
                            tok[u].kind = "relative" /\ tok[u].value < tok[t].value
                    \/ /\ tok[t].kind = "omega" /\ t \in caught /\ e # n
             PROVE  FALSE
  BY <1>1, <1>2 DEF BadTaskOrder
<1> HIDE DEF done, caught, more, d, e
<1>7. CASE tok[t].kind = "absolute" /\ (t \in caught) # (tok[t].value \in d + 1 .. e)
  <2>1. pos[t] = tok[t].value /\ pos[t] \in 1 .. n
    BY <1>1, <1>3, <1>6, <1>7 DEF Obeys
  <2>2. ~(pos[t] <= d) /\ (t \in caught <=> pos[t] <= e)
    BY <1>4, <1>5
  <2> QED
    BY <1>2, <1>7, <2>1, <2>2
<1>8. CASE /\ tok[t].kind = "relative" /\ t \in caught
           /\ \E u \in ((1 .. n) \ done) \ caught :
                tok[u].kind = "relative" /\ tok[u].value < tok[t].value
  <2>1. PICK u \in ((1 .. n) \ done) \ caught : tok[u].kind = "relative" /\ tok[u].value < tok[t].value
    BY <1>8
  <2>2. pos[u] < pos[t]
    BY <1>1, <1>3, <1>8, <2>1 DEF Obeys
  <2>3. pos[t] <= e /\ ~(pos[u] <= e)
    BY <1>4, <1>8, <2>1
  <2> QED
    BY <1>2, <1>6, <2>1, <2>2, <2>3
<1>9. CASE tok[t].kind = "omega" /\ t \in caught /\ e # n
  <2>1. pos[t] = n
    BY <1>1, <1>2, <1>3, <1>9 DEF Obeys
  <2> QED
    BY <1>2, <1>4, <1>9, <2>1
<1> QED
  BY <1>7, <1>8, <1>9

\* A batch the test accepts leaves an ordering, when there was one before: the
\* pending goals without an absolute token are put into the places those goals
\* had, the goals of the batch first.
LEMMA TestIsSufficient ==
  ASSUME NEW n \in Nat, NEW tok \in [1 .. n -> TokenType],
         NEW batches \in Seq(BatchType(n)), NEW b \in BatchType(n),
         b.goals \cap GoalsOf(batches) = {},
         OrderExists(tok, batches),
         ~BadTaskOrder(tok, GoalsOf(batches), b.goals)
  PROVE  OrderExists(tok, Append(batches, b))
<1> DEFINE done == GoalsOf(batches)
           caught == b.goals
           more == Append(batches, b)
           d == Cardinality(done)
           e == d + Cardinality(caught)
<1>1. /\ DOMAIN tok = 1 .. n /\ done \in SUBSET (1 .. n) /\ caught \in SUBSET (1 .. n)
      /\ done \cap caught = {}
  <2>1. caught \in SUBSET (1 .. n)
    BY DEF BatchType
  <2> QED
    BY <2>1, OneMoreBatch
<1>2. d \in Nat /\ Cardinality(caught) \in Nat /\ e \in Nat /\ Cardinality(done \cup caught) = e
      /\ e <= n /\ Cardinality(1 .. n) = n
  <2>1. done \in SUBSET (1 .. n) /\ caught \in SUBSET (1 .. n) /\ done \cap caught = {}
    BY <1>1
  <2>2. d = Cardinality(done) /\ e = Cardinality(done) + Cardinality(caught)
    OBVIOUS
  <2> HIDE DEF done, caught, d, e
  <2>3. /\ Cardinality(done) \in Nat /\ Cardinality(caught) \in Nat /\ Cardinality(1 .. n) = n
        /\ Cardinality(done) + Cardinality(caught) <= n
        /\ Cardinality(done \cup caught) = Cardinality(done) + Cardinality(caught)
    BY ONLY <2>1, n \in Nat, SizeOfBoth, ZenonT(60)
  <2> QED
    BY ONLY <2>2, <2>3
<1>3. PICK pos \in Placing(n) : Follows(n, pos, batches) /\ Obeys(pos, tok)
  BY <1>1, OrderingsArePlacings
<1>4. \A t \in 1 .. n : t \in done <=> pos[t] <= d
  BY <1>3, BatchesComeFirst
<1>5. /\ \A t \in 1 .. n : pos[t] \in 1 .. n
      /\ \A x \in 1 .. n : \E t \in 1 .. n : pos[t] = x
      /\ \A t, u \in 1 .. n : pos[t] = pos[u] => t = u
  BY <1>3, PlacesDiffer DEF Placing
<1>6. /\ \A t \in (1 .. n) \ done : tok[t].kind = "absolute" => (t \in caught <=> tok[t].value \in d + 1 .. e)
      /\ \A t \in caught, u \in (1 .. n) \ (done \cup caught) :
           tok[t].kind = "relative" /\ tok[u].kind = "relative" => ~(tok[u].value < tok[t].value)
      /\ \A t \in caught : tok[t].kind = "omega" => e = n
  BY <1>1, <1>2 DEF BadTaskOrder
<1>7. \A t \in 1 .. n :
        /\ tok[t].kind = "absolute" => pos[t] = tok[t].value
        /\ tok[t].kind = "omega" => pos[t] = n
        /\ \A u \in 1 .. n : tok[t].kind = "relative" /\ tok[u].kind = "relative"
                                /\ tok[t].value < tok[u].value => pos[t] < pos[u]
  BY <1>1, <1>2, <1>3 DEF Obeys
<1>8. Len(batches) \in Nat /\ more \in Seq(BatchType(n)) /\ Len(more) = Len(batches) + 1
      /\ (\A k \in 1 .. Len(batches) : more[k] = batches[k])
      /\ more[Len(batches) + 1].goals = caught
  BY OneMoreBatch
<1> DEFINE U == {t \in (1 .. n) \ done : tok[t].kind # "absolute"}
           P == {pos[t] : t \in U}
           key == [t \in U |-> IF t \in caught THEN pos[t] ELSE n + pos[t]]
<1>9. P \in SUBSET (1 .. n) /\ IsFiniteSet(U) /\ Cardinality(U) = Cardinality(P)
  <2>1. U \in SUBSET (1 .. n)
    OBVIOUS
  <2>2. \A t \in U : pos[t] \in P
    OBVIOUS
  <2>3. \A x \in P : \E t \in U : pos[t] = x
    OBVIOUS
  <2> HIDE DEF U, P
  <2>4. IsFiniteSet(U)
    BY <2>1, BelowIsFinite
  <2> DEFINE g == [t \in U |-> pos[t]]
  <2>5. g \in [U -> P] /\ \A t \in U : g[t] = pos[t]
    BY <2>2
  <2> HIDE DEF g
  <2>6. \A t, u \in U : g[t] = g[u] => t = u
    BY <1>5, <2>1, <2>5
  <2>7. g \in Bijection(U, P)
    BY <2>3, <2>5, <2>6 DEF Bijection, Injection, Surjection, IsInjective
  <2>8. Cardinality(U) = Cardinality(P)
    BY <2>4, <2>7, FS_Bijection DEF ExistsBijection
  <2>9. P \in SUBSET (1 .. n)
    <3>1. SUFFICES ASSUME NEW x \in P PROVE x \in 1 .. n
      OBVIOUS
    <3>2. PICK t \in U : pos[t] = x
      BY <2>3
    <3> QED
      BY <1>5, <2>1, <3>2
  <2> QED
    BY <2>4, <2>8, <2>9
<1>10. key \in [U -> Nat] /\ \A t, u \in U : key[t] = key[u] => t = u
  <2>1. \A t \in U : pos[t] \in 1 .. n
    BY <1>5
  <2>2. key \in [U -> Nat]
    BY <2>1
  <2>3. ASSUME NEW t \in U, NEW u \in U, key[t] = key[u] PROVE pos[t] = pos[u]
    BY <2>1, <2>3
  <2>4. U \subseteq 1 .. n
    OBVIOUS
  <2> HIDE DEF key, U
  <2> QED
    BY <1>5, <2>2, <2>3, <2>4
<1>11. PICK f \in [U -> P] : /\ \A x \in P : \E t \in U : f[t] = x
                             /\ \A t, u \in U : key[t] < key[u] => f[t] < f[u]
  <2>1. P \in SUBSET (1 .. n) /\ IsFiniteSet(U) /\ Cardinality(U) = Cardinality(P)
    BY <1>9
  <2>2. key \in Keys(U)
    BY <1>10 DEF Keys
  <2> HIDE DEF U, P, key
  <2>3. Fillings(P, U, key) # {}
    BY <2>1, <2>2, Fill
  <2> QED
    BY <2>3 DEF Fillings
<1> DEFINE new == [t \in 1 .. n |-> IF t \in U THEN f[t] ELSE pos[t]]
<1>12. \A t \in 1 .. n : /\ t \in U => new[t] = f[t] /\ new[t] \in P
                         /\ t \notin U => new[t] = pos[t]
                         /\ new[t] \in 1 .. n
  BY <1>5, <1>9, <1>11
<1>13. new \in Placing(n)
  <2>1. ASSUME NEW x \in 1 .. n PROVE \E t \in 1 .. n : new[t] = x
    <3>1. PICK t \in 1 .. n : pos[t] = x
      BY <1>5
    <3>2. CASE t \in U
      BY <1>11, <1>12, <3>1, <3>2
    <3> QED
      BY <1>12, <3>1, <3>2
  <2>2. new \in [1 .. n -> 1 .. n]
    BY <1>12
  <2> HIDE DEF U, new
  <2> QED
    BY <2>1, <2>2 DEF Placing
<1>14. /\ \A t \in U : \E u \in U : new[t] = pos[u]
       /\ \A t \in U : t \in 1 .. n /\ t \notin done /\ tok[t].kind # "absolute"
       /\ \A t \in (1 .. n) \ done : t \notin U => tok[t].kind = "absolute"
       /\ \A t, u \in U : key[t] < key[u] => new[t] < new[u]
  BY <1>11, <1>12
<1>15. \A t \in U : key[t] = IF t \in caught THEN pos[t] ELSE n + pos[t]
  OBVIOUS
<1> HIDE DEF done, caught, more, d, e, U, P, key, new
\* The goals of the batches keep the first places, and those of the new one come
\* next: otherwise one of them would have given way to a goal outside of it.
<1>16. \A t \in 1 .. n : t \in done <=> new[t] <= d
  <2>1. ASSUME NEW t \in U PROVE ~(new[t] <= d)
    BY <1>4, <1>14, <2>1
  <2> QED
    BY <1>4, <1>12, <1>14, <2>1
<1>17. ASSUME NEW t \in U, NEW u \in U, t \in caught, u \notin caught PROVE new[t] < new[u]
  <2>1. key[t] = pos[t] /\ key[u] = n + pos[u] /\ pos[t] \in 1 .. n /\ pos[u] \in 1 .. n
    BY <1>5, <1>14, <1>15, <1>17
  <2>2. key[t] < key[u]
    BY <2>1
  <2> QED
    BY <1>14, <2>2
<1>18. \A t \in 1 .. n : t \in done \cup caught <=> new[t] <= e
  <2> DEFINE E == done \cup caught
             V == {t \in 1 .. n : new[t] <= e}
  <2>1. E \in SUBSET (1 .. n) /\ V \in SUBSET (1 .. n) /\ Cardinality(E) = Cardinality(V)
    <3>1. e \in 0 .. n
      BY <1>2
    <3> QED
      BY <1>1, <1>2, <1>13, <3>1, GoalsUpTo
  <2>2. E \subseteq V \/ V \subseteq E
    <3>1. SUFFICES ASSUME NEW t \in E, t \notin V, NEW u \in V, u \notin E PROVE FALSE
      OBVIOUS
    <3>2. t \in 1 .. n /\ u \in 1 .. n /\ ~(new[t] <= e) /\ new[u] <= e /\ u \notin done /\ u \notin caught
      BY <2>1, <3>1
    <3>3. t \notin done
      BY <1>2, <1>12, <1>16, <3>2
    <3>4. t \in caught /\ t \in (1 .. n) \ done /\ u \in (1 .. n) \ done
      BY <3>1, <3>2, <3>3
    <3>5. t \in U
      <4>1. SUFFICES ASSUME t \notin U PROVE FALSE
        OBVIOUS
      <4>2. tok[t].kind = "absolute" /\ new[t] = tok[t].value
        BY <1>7, <1>12, <1>14, <3>4, <4>1
      <4>3. tok[t].value \in d + 1 .. e
        BY <1>6, <3>4, <4>2
      <4> QED
        BY <1>2, <3>2, <4>2, <4>3
    <3>6. u \in U
      <4>1. SUFFICES ASSUME u \notin U PROVE FALSE
        OBVIOUS
      <4>2. tok[u].kind = "absolute" /\ new[u] = tok[u].value /\ new[u] \in 1 .. n
        BY <1>7, <1>12, <1>14, <3>4, <4>1
      <4>3. ~(new[u] <= d) /\ ~(tok[u].value \in d + 1 .. e)
        BY <1>6, <1>16, <3>2, <4>2
      <4> QED
        BY <1>2, <3>2, <4>2, <4>3
    <3>7. new[t] < new[u]
      BY <1>17, <3>2, <3>4, <3>5, <3>6
    <3> QED
      BY <1>2, <1>12, <3>2, <3>7
  <2>3. E = V
    <3> HIDE DEF E, V
    <3> QED
      BY <2>1, <2>2, SameSize
  <2> QED
    BY <2>3
<1>19. Follows(n, new, more)
  <2>1. SUFFICES ASSUME NEW t \in 1 .. n, NEW u \in 1 .. n, NEW k \in 1 .. Len(more),
                        t \in more[k].goals, \A j \in 1 .. k : u \notin more[j].goals
                 PROVE  new[t] < new[u]
    BY Zenon DEF Follows
  <2>2. CASE k = Len(batches) + 1
    <3>1. t \in caught
      BY <1>8, <2>1, <2>2
    <3>2. u \notin done \cup caught
      <4>1. \A j \in 1 .. Len(batches) : u \notin batches[j].goals
        BY <1>8, <2>1, <2>2
      <4>2. u \notin caught
        BY <1>8, <2>1, <2>2
      <4> QED
        BY <4>1, <4>2 DEF done, GoalsOf
    <3> QED
      BY <1>2, <1>12, <1>18, <3>1, <3>2
  <2>3. CASE k \in 1 .. Len(batches)
    <3>1. t \in batches[k].goals /\ \A j \in 1 .. k : u \notin batches[j].goals
      BY <1>8, <2>1, <2>3, SMTT(30)
    <3>2. t \in done
      BY <2>3, <3>1 DEF done, GoalsOf
    <3>3. CASE u \in done
      <4>1. pos[t] < pos[u]
        BY <1>3, <2>3, <3>1 DEF Follows
      <4> QED
        BY <1>12, <1>14, <3>2, <3>3, <4>1
    <3>4. CASE u \notin done
      BY <1>2, <1>12, <1>16, <3>2, <3>4
    <3> QED
      BY <3>3, <3>4
  <2> QED
    BY <1>8, <2>2, <2>3
<1>20. ASSUME NEW t \in 1 .. n, tok[t].kind = "absolute" PROVE new[t] = tok[t].value
  BY <1>7, <1>12, <1>14, <1>20
<1>21. ASSUME NEW t \in 1 .. n, tok[t].kind = "omega" PROVE new[t] = n
  <2>1. pos[t] = n
    BY <1>7, <1>21
  <2>2. SUFFICES ASSUME t \in U PROVE new[t] = n
    BY <1>12, <2>1
  <2>3. ASSUME NEW u \in U, u # t PROVE new[u] < new[t]
    <3>1. pos[u] \in 1 .. n /\ pos[u] < n
      <4>1. u \in 1 .. n /\ pos[u] \in 1 .. n
        BY <1>5, <1>14, <2>3
      <4>2. pos[u] # n
        BY <1>5, <2>1, <2>3, <4>1
      <4> QED
        BY <4>1, <4>2
    <3>2. key[u] < key[t]
      <4>1. CASE t \in caught
        <5>1. e = n
          BY <1>6, <1>21, <4>1
        <5>2. u \in caught
          BY <1>12, <1>14, <1>18, <2>3, <5>1, SMTT(40)
        <5> QED
          BY <1>15, <2>1, <2>2, <3>1, <4>1, <5>2
      <4>2. CASE t \notin caught
        BY <1>15, <2>1, <2>2, <3>1, <4>2
      <4> QED
        BY <4>1, <4>2
    <3> QED
      BY <1>14, <2>2, <3>2
  <2>4. PICK u \in U : new[u] = n
    <3>1. n \in P
      BY <2>1, <2>2 DEF P
    <3>2. PICK u \in U : f[u] = n
      BY <1>11, <3>1
    <3> QED
      BY <1>12, <1>14, <3>2
  <2>5. u = t
    <3>1. SUFFICES ASSUME u # t PROVE FALSE
      OBVIOUS
    <3>2. new[u] < new[t]
      BY <2>3, <3>1
    <3>3. new[t] \in 1 .. n
      BY <1>12
    <3> QED
      BY <2>4, <3>2, <3>3
  <2> QED
    BY <2>4, <2>5
<1>22. ASSUME NEW t \in 1 .. n, NEW u \in 1 .. n, tok[t].kind = "relative", tok[u].kind = "relative",
              tok[t].value < tok[u].value
       PROVE  new[t] < new[u]
  <2>1. pos[t] < pos[u] /\ pos[t] \in 1 .. n /\ pos[u] \in 1 .. n
    BY <1>5, <1>7, <1>22
  <2>2. (t \in done \/ t \in U) /\ (u \in done \/ u \in U)
    BY <1>14, <1>22
  <2>3. CASE t \in done /\ u \in done
    BY <1>12, <1>14, <2>1, <2>3
  <2>4. CASE t \in done /\ u \notin done
    BY <1>2, <1>12, <1>16, <2>4
  <2>5. CASE t \notin done /\ u \in done
    BY <1>2, <1>4, <2>1, <2>5
  <2>6. CASE t \in U /\ u \in U
    <3>1. t \notin done /\ u \notin done
      BY <1>14, <2>6
    <3>2. u \in caught => t \in caught
      BY <1>6, <1>22, <3>1
    <3>3. key[t] < key[u]
      BY <1>15, <2>1, <2>6, <3>2
    <3> QED
      BY <1>14, <2>6, <3>3
  <2> QED
    BY <2>2, <2>3, <2>4, <2>5, <2>6
<1>23. Obeys(new, tok)
  BY <1>1, <1>2, <1>20, <1>21, <1>22 DEF Obeys
<1> QED
  BY <1>1, <1>13, <1>19, <1>23, OrderingsArePlacings DEF more

-----------------------------------------------------------------------------
(* The captures.                                                           *)

NoneFailed == \A t \in Goals : status[t] # "failed"
NumberOfGoals == Cardinality(Goals)

\* While nothing has failed an ordering exists, and what was captured succeeded.
OrderInv ==
  /\ NumberOfGoals \in Nat /\ token \in [1 .. NumberOfGoals -> TokenType]
  /\ taken \in Seq(BatchType(NumberOfGoals))
  /\ status \in [Goals -> {"pending", "success", "failed"}]
  /\ NoneFailed => /\ OrderExists(token, taken)
                   /\ \A t \in Goals : status[t] = "success" <=> t \in Captured

\* Nothing is captured at the start, so every ordering is still open.
LEMMA InitOrder == OrderAssumption /\ Init => OrderInv
<1> SUFFICES ASSUME OrderAssumption, Init PROVE OrderInv
  OBVIOUS
<1>1. token \in TokenLayouts /\ taken = <<>> /\ status = [t \in Goals |-> "pending"]
  BY DEF Init
<1>2. NumberOfGoals \in Nat /\ token \in [1 .. NumberOfGoals -> TokenType] /\ OrderExists(token, <<>>)
  BY <1>1 DEF OrderAssumption, NumberOfGoals, Goals, TokenType
<1>3. Captured = {}
  BY <1>1 DEF Captured
<1> QED
  BY <1>1, <1>2, <1>3 DEF OrderInv

\* A capture keeps all this, whatever the engine's test says of it.
LEMMA OrderStep == OrderInv /\ [Next]_vars => OrderInv'
<1> SUFFICES ASSUME OrderInv, [Next]_vars PROVE OrderInv'
  OBVIOUS
<1> DEFINE n == NumberOfGoals
<1>0. Goals = 1 .. n
  BY DEF OrderInv, Goals
<1>1. ASSUME NEW w \in Owners, NEW batch \in SUBSET Goals, Capture(w, batch) PROVE OrderInv'
  <2> DEFINE b == [by |-> w, goals |-> batch]
  <2>1. /\ token' = token /\ taken' = Append(taken, b) /\ batch # {}
        /\ NoneFailed
        /\ status' = [t \in Goals |-> IF t \notin batch THEN status[t]
                                      ELSE IF (\A u \in batch : owner[u] = w) /\ OrderExists(token, taken')
                                      THEN "success" ELSE "failed"]
    BY <1>1 DEF Capture, NoneFailed
  <2>2. Goals' = Goals /\ NumberOfGoals' = n
    BY <2>1 DEF Goals, NumberOfGoals
  <2>3. b \in BatchType(n) /\ b.goals = batch
    BY <1>0 DEF BatchType
  <2>4. taken' \in Seq(BatchType(n)) /\ Captured' = Captured \cup batch
    BY <2>1, <2>3, OneMoreBatch, SMTT(30) DEF OrderInv, Captured, GoalsOf
  <2>5. status' \in [Goals -> {"pending", "success", "failed"}]
    BY <2>1 DEF OrderInv
  <2>6. ASSUME NoneFailed' PROVE /\ OrderExists(token, taken')
                                 /\ \A t \in Goals : status'[t] = "success" <=> t \in Captured'
    <3>1. OrderExists(token, taken') /\ \A t \in batch : status'[t] = "success"
      BY <2>1, <2>2, <2>6 DEF NoneFailed
    <3>2. \A t \in Goals \ batch : status'[t] = status[t]
      BY <2>1
    <3> QED
      BY <2>1, <2>4, <3>1, <3>2 DEF OrderInv
  <2> HIDE DEF n
  <2> QED
    BY <2>1, <2>2, <2>4, <2>5, <2>6 DEF OrderInv, n
<1>2. ASSUME UNCHANGED vars PROVE OrderInv'
  BY <1>2 DEF vars, OrderInv, NoneFailed, NumberOfGoals, Goals, Captured
<1> QED
  BY <1>1, <1>2 DEF Next

\* The invariant holds in every state.
LEMMA OrderKept == OrderAssumption => (Spec => []OrderInv)
<1>1. Init /\ OrderAssumption => OrderInv
  BY InitOrder
<1> SUFFICES ASSUME OrderAssumption PROVE Spec => []OrderInv
  OBVIOUS
<1>2. Init => OrderInv
  BY <1>1
<1> QED
  BY <1>2, OrderStep, PTL DEF Spec

\* The test of the engine and the existence of an ordering say the same of every
\* batch of pending goals, for every number of goals and all tokens that have an
\* ordering: badTaskOrder needs no more than counts and the goals still pending.
THEOREM OrderTestAlwaysExact == OrderAssumption => (Spec => []OrderTestIsExact)
<1>1. ASSUME OrderInv PROVE OrderTestIsExact
  <2> SUFFICES ASSUME NoneFailed, NEW batch \in SUBSET (Goals \ Captured)
               PROVE  BadTaskOrder(token, Captured, batch)
                        <=> ~OrderExists(token, Append(taken, [by |-> 0, goals |-> batch]))
    BY DEF OrderTestIsExact, NoneFailed
  <2> DEFINE n == NumberOfGoals
             b == [by |-> 0, goals |-> batch]
  <2>1. n \in Nat /\ token \in [1 .. n -> TokenType] /\ taken \in Seq(BatchType(n)) /\ OrderExists(token, taken)
    BY <1>1 DEF OrderInv
  <2>2. Goals = 1 .. n /\ Captured = GoalsOf(taken)
    BY <2>1 DEF Goals, Captured, GoalsOf
  <2>3. b \in BatchType(n) /\ b.goals = batch /\ b.goals \cap GoalsOf(taken) = {}
    BY <2>2 DEF BatchType
  <2> HIDE DEF n, b
  <2> QED
    BY <2>1, <2>2, <2>3, TestIsNecessary, TestIsSufficient DEF b
<1> SUFFICES ASSUME OrderAssumption PROVE Spec => []OrderTestIsExact
  OBVIOUS
<1> QED
  BY <1>1, OrderKept, PTL

\* The marks of the table agree with the engine: the marked goals are exactly
\* those that a trick with no other goal may capture next, for every number of
\* goals and all tokens that have an ordering.
THEOREM MarksAlwaysAgree == OrderAssumption => (Spec => []MarksAgreeWithTheEngine)
<1>1. ASSUME OrderInv PROVE MarksAgreeWithTheEngine
  <2> SUFFICES ASSUME NoneFailed
               PROVE  PriorityTaskIds = {t \in Pending : ~BadTaskOrder(token, Captured, {t})}
    BY DEF MarksAgreeWithTheEngine, NoneFailed
  <2> DEFINE n == NumberOfGoals
             d == Cardinality(Captured)
  <2>1. /\ n \in Nat /\ Goals = 1 .. n /\ token \in [1 .. n -> TokenType]
        /\ Captured = GoalsOf(taken) /\ OrderExists(token, taken)
        /\ \A t \in Goals : status[t] \in {"pending", "success"} /\ (status[t] = "success" <=> t \in Captured)
        /\ taken \in Seq(BatchType(n))
    BY <1>1 DEF OrderInv, Goals, Captured, GoalsOf, NoneFailed
  <2>2. Captured \in SUBSET (1 .. n) /\ IsFiniteSet(Captured) /\ d \in Nat
        /\ IsFiniteSet(1 .. n) /\ Cardinality(1 .. n) = n
    <3> HIDE DEF n
    <3>1. \A k \in 1 .. Len(taken) : taken[k].goals \in SUBSET (1 .. n)
      <4>1. \A k \in 1 .. Len(taken) : taken[k] \in BatchType(n)
        BY <2>1
      <4> QED
        BY <4>1 DEF BatchType
    <3>2. Captured \in SUBSET (1 .. n)
      BY <2>1, <3>1 DEF GoalsOf
    <3>3. IsFiniteSet(Captured) /\ d \in Nat
      BY <2>1, <3>2, BelowIsFinite
    <3>4. IsFiniteSet(1 .. n) /\ Cardinality(1 .. n) = n
      BY <2>1, FS_Interval
    <3> QED
      BY <3>2, <3>3, <3>4
  <2>3. Pending = (1 .. n) \ Captured /\ Pending \subseteq 1 .. n
    BY <2>1 DEF Pending
  <2>4. NextOrder = d + 1
    <3>1. {t \in Goals : status[t] = "success"} = Captured
      BY <2>1, <2>2
    <3> QED
      BY <3>1 DEF NextOrder
  <2>5. \A t, u \in 1 .. n : token[t].kind = "absolute" /\ token[u].kind = "absolute"
                               /\ token[t].value = token[u].value => t = u
    <3>1. DOMAIN token = 1 .. n
      BY <2>1
    <3> HIDE DEF n
    <3>2. PICK pos \in Placing(n) : Obeys(pos, token)
      BY <2>1, <3>1, OrderingsArePlacings
    <3>3. \A t \in 1 .. n : token[t].kind = "absolute" => pos[t] = token[t].value
      BY <3>1, <3>2 DEF Obeys
    <3> QED
      BY <2>1, <3>2, <3>3, PlacesDiffer
  <2>6. \A t \in 1 .. n : token[t].value \in Nat
    BY <2>1 DEF TokenType
  <2>7. ASSUME NEW t \in Pending PROVE Pending = {t} <=> d + 1 = n
    <3>1. t \in 1 .. n /\ t \notin Captured
      BY <2>3
    <3>2. Captured \cup {t} \in SUBSET (1 .. n) /\ Cardinality(Captured \cup {t}) = d + 1
      BY <2>2, <3>1, FS_AddElement
    <3>3. d + 1 = n => Captured \cup {t} = 1 .. n
      BY <2>2, <3>2, FS_Subset
    <3>4. Pending = {t} => Captured \cup {t} = 1 .. n
      BY <2>2, <2>3, <3>1
    <3>5. Captured \cup {t} = 1 .. n => Pending = {t}
      BY <2>3, <3>1
    <3> QED
      BY <2>2, <3>2, <3>3, <3>4, <3>5
  <2>8. ASSUME NEW t \in Pending
        PROVE  ~BadTaskOrder(token, Captured, {t})
                 <=> /\ \A u \in Pending : token[u].kind = "absolute" => (u = t <=> token[u].value = d + 1)
                     /\ token[t].kind = "relative" =>
                          \A u \in Pending : token[u].kind = "relative" => ~(token[u].value < token[t].value)
                     /\ token[t].kind = "omega" => d + 1 = n
    <3>1. Cardinality({t}) = 1
      BY FS_Singleton
    <3>2. DOMAIN token = 1 .. n
      BY <2>1
    <3>3. \A x \in Nat : x \in d + 1 .. d + 1 <=> x = d + 1
      BY <2>2
    <3> HIDE DEF n, d
    <3>4. \A u \in Pending : token[u].value \in d + 1 .. d + 1 <=> token[u].value = d + 1
      BY <2>3, <2>6, <3>3
    <3>5. ~(token[t].value < token[t].value)
      BY <2>3, <2>6
    <3> QED
      BY <2>2, <2>3, <3>1, <3>2, <3>4, <3>5 DEF BadTaskOrder, d
  <2> HIDE DEF n, d
  <2>9. ~(\E t \in Goals : status[t] = "failed")
    BY DEF NoneFailed
  <2>10. CASE AbsoluteNext # {}
    <3>1. PICK a \in AbsoluteNext : TRUE
      BY <2>10
    <3>2. a \in Pending /\ token[a].kind = "absolute" /\ token[a].value = d + 1
      BY <2>4, <3>1 DEF AbsoluteNext, PendingWith
    <3>3. \A u \in Pending : token[u].kind = "absolute" /\ token[u].value = d + 1 => u = a
      BY <2>3, <2>5, <3>2
    <3>4. AbsoluteNext = {a}
      BY <2>4, <3>1, <3>3 DEF AbsoluteNext, PendingWith
    <3>5. PriorityTaskIds = {a}
      BY <2>9, <2>10, <3>4 DEF PriorityTaskIds
    <3>6. \A t \in Pending : ~BadTaskOrder(token, Captured, {t}) <=> t = a
      BY <2>8, <3>2, <3>3
    <3> QED
      BY <3>2, <3>5, <3>6
  <2>11. CASE AbsoluteNext = {}
    <3>1. \A u \in Pending : token[u].kind = "absolute" => token[u].value # d + 1
      BY <2>4, <2>11 DEF AbsoluteNext, PendingWith
    <3>2. PriorityTaskIds = PendingWith("none") \cup RelativeNext \cup OmegaNext
      BY <2>9, <2>11 DEF PriorityTaskIds
    <3>3. \A t \in Pending : token[t].kind \in TokenKinds
      BY <2>1, <2>3 DEF TokenType
    <3>4. PriorityTaskIds \subseteq Pending
      BY <3>2 DEF PendingWith, RelativeNext, OmegaNext
    <3>5. ASSUME NEW t \in Pending
          PROVE  t \in PriorityTaskIds <=> ~BadTaskOrder(token, Captured, {t})
      <4>1. CASE token[t].kind = "none"
        BY <2>8, <3>1, <3>2, <4>1 DEF PendingWith
      <4>2. CASE token[t].kind = "absolute"
        BY <2>8, <3>1, <3>2, <4>2 DEF PendingWith, RelativeNext, OmegaNext
      <4>3. CASE token[t].kind = "relative"
        <5>1. t \in PriorityTaskIds
                <=> \A u \in Pending : token[u].kind = "relative" => token[t].value <= token[u].value
          BY <3>2, <4>3 DEF PendingWith, RelativeNext, OmegaNext
        <5>2. \A u \in Pending : token[t].value <= token[u].value <=> ~(token[u].value < token[t].value)
          BY <2>3, <2>6
        <5>3. \A u \in Pending : token[u].kind = "absolute" => (u = t <=> token[u].value = d + 1)
          BY <3>1, <4>3
        <5> QED
          BY <2>8, <4>3, <5>1, <5>2, <5>3
      <4>4. CASE token[t].kind = "omega"
        <5>1. t \in PriorityTaskIds <=> Pending = {t}
          BY <3>2, <4>4 DEF PendingWith, RelativeNext, OmegaNext
        <5> QED
          BY <2>7, <2>8, <3>1, <4>4, <5>1
      <4> QED
        BY <3>3, <4>1, <4>2, <4>3, <4>4 DEF TokenKinds
    <3> QED
      BY <3>4, <3>5
  <2> QED
    BY <2>10, <2>11
<1> SUFFICES ASSUME OrderAssumption PROVE Spec => []MarksAgreeWithTheEngine
  OBVIOUS
<1> QED
  BY <1>1, OrderKept, PTL
=============================================================================
