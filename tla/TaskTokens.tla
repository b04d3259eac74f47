----------------------------- MODULE TaskTokens -----------------------------
(***************************************************************************)
(* The rules a mission number stands for (src/shared/missionRules.ts) and  *)
(* the test the engine applies to the order in which goals are captured    *)
(* (badTaskOrder in src/src/game/engine.ts).                               *)
(*                                                                         *)
(* The goals of a mission are numbered 1..n.  A token sequence is kept as  *)
(* a function from goals to tokens; the null token has kind "none".        *)
(***************************************************************************)
EXTENDS Integers, FiniteSets

TokenKinds == {"none", "absolute", "relative", "omega"}
Token(kind, value) == [kind |-> kind, value |-> value]

\* missionRules(m).tokens: absolute 1..k, then relative 1..k, then omega.
AbsoluteCount(m) ==
  CASE m \in {11, 19, 28} -> 1
    [] m \in {3, 21, 36}  -> 2
    [] m \in {8, 31, 40}  -> 3
    [] m = 15             -> 4
    [] m = 23             -> 5
    [] OTHER              -> 0
RelativeCount(m) ==
  CASE m \in {6, 25}                  -> 2
    [] m \in {14, 30, 35, 39, 45, 49} -> 3
    [] m = 22                         -> 4
    [] OTHER                          -> 0
HasOmega(m) == m \in {7, 12, 28, 48}

TokensDealt(m, n) ==
  LET a == AbsoluteCount(m)
      r == RelativeCount(m)
  IN [i \in 1 .. n |->
        IF i <= a THEN Token("absolute", i)
        ELSE IF i <= a + r THEN Token("relative", i - a)
        ELSE IF HasOmega(m) /\ i = a + r + 1 THEN Token("omega", 0)
        ELSE Token("none", 0)]

\* missionRules(m).communication, assignment and ending.
FromTrick(m) ==
  CASE m \in {18, 30} -> 2 [] m \in {19, 28, 38} -> 3 [] OTHER -> 1
HiddenMarker(m) == m \in {6, 14, 21, 25, 29, 39}
Assignment(m) ==
  CASE m \in {20, 27, 37}     -> "decision"
    [] m \in {24, 32, 36, 43} -> "distribution"
    [] OTHER                  -> "draft"
Ending(m) ==
  CASE m \in {5, 16, 29, 33, 34, 41, 50} -> "full_hand"
    [] m \in {9, 26}                     -> "one_wins"
    [] m \in {13, 44}                    -> "rockets"
    [] m = 46                            -> "black_cards"
    [] OTHER                             -> "tasks"
FivePlayerTransfer(m) == m \in {25, 27, 28} \cup 30 .. 32 \cup 35 .. 40
                               \cup {42, 43, 45, 47, 48, 49}
-----------------------------------------------------------------------------
\* badTaskOrder: done are the goals captured in earlier tricks, caught those
\* captured, together, in this one.
\* Mutants: the goals of this trick are not counted; a lower relative token
\* captured in the same trick does not count as captured.
BadTaskOrder_EndBefore(token, done, caught) ==
  LET completed == Cardinality(done)
  IN \E t \in (DOMAIN token) \ done :
       \/ /\ token[t].kind = "absolute"
          /\ (t \in caught) # (token[t].value = completed + 1)
       \/ /\ token[t].kind = "relative" /\ t \in caught
          /\ \E u \in (DOMAIN token) \ (done \cup caught) :
               token[u].kind = "relative" /\ token[u].value < token[t].value
       \/ /\ token[t].kind = "omega" /\ t \in caught
          /\ completed + Cardinality(caught) # Cardinality(DOMAIN token)
BadTaskOrder_TogetherIsEarly(token, done, caught) ==
  LET completed == Cardinality(done)
      end       == completed + Cardinality(caught)
  IN \E t \in (DOMAIN token) \ done :
       \/ /\ token[t].kind = "absolute"
          /\ (t \in caught) # (token[t].value \in completed + 1 .. end)
       \/ /\ token[t].kind = "relative" /\ t \in caught
          /\ \E u \in (DOMAIN token) \ done :
               token[u].kind = "relative" /\ token[u].value < token[t].value
       \/ /\ token[t].kind = "omega" /\ t \in caught
          /\ end # Cardinality(DOMAIN token)
BadTaskOrder(token, done, caught) ==
  LET completed == Cardinality(done)
      end       == completed + Cardinality(caught)
      pending   == (DOMAIN token) \ done
  IN \E t \in pending :
       \/ /\ token[t].kind = "absolute"
          /\ (t \in caught) # (token[t].value \in completed + 1 .. end)
       \/ /\ token[t].kind = "relative" /\ t \in caught
          /\ \E u \in pending \ caught :
               token[u].kind = "relative" /\ token[u].value < token[t].value
       \/ /\ token[t].kind = "omega" /\ t \in caught
          /\ end # Cardinality(DOMAIN token)
=============================================================================
