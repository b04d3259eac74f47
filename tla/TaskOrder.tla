------------------------------ MODULE TaskOrder -----------------------------
(***************************************************************************)
(* What the goal bookkeeping of a mission promises, without cards: goals   *)
(* are captured in batches, those of one trick at once, and the batches    *)
(* are good as long as every goal goes to its owner and the comment on     *)
(* badTaskOrder holds: a valid ordering must exist within each set.        *)
(* CrewTricks implements this specification.                               *)
(***************************************************************************)
EXTENDS TaskTokens, Sequences

CONSTANTS
  Owners,       \* who may own a goal
  TokenLayouts  \* the token functions to start from

VARIABLES
  token,   \* the token of each goal
  owner,   \* the owner of each goal
  taken,   \* one [by, goals] per trick that captured a goal, in order
  status   \* pending, success or failed

vars == <<token, owner, taken, status>>
Goals == DOMAIN token

\* The orderings of all goals, as the position of each, in which earlier batches
\* come first and goals not yet captured last.
Orderings(goals, batches) ==
  LET places == 1 .. Cardinality(goals)
      before == {p \in goals \X goals :
                   \E k \in 1 .. Len(batches) :
                     /\ p[1] \in batches[k].goals
                     /\ \A j \in 1 .. k : p[2] \notin batches[j].goals}
  IN {pos \in [goals -> places] : /\ {pos[t] : t \in goals} = places
                                 /\ \A p \in before : pos[p[1]] < pos[p[2]]}

\* The tokens say at which position, or after which others, a goal may come.
Obeys(pos, tok) ==
  \A t \in DOMAIN tok :
    /\ tok[t].kind = "absolute" => pos[t] = tok[t].value
    /\ tok[t].kind = "omega"    => pos[t] = Cardinality(DOMAIN tok)
    /\ \A u \in DOMAIN tok :
         tok[t].kind = "relative" /\ tok[u].kind = "relative"
           /\ tok[t].value < tok[u].value => pos[t] < pos[u]

OrderExists(tok, batches) ==
  \E pos \in Orderings(DOMAIN tok, batches) : Obeys(pos, tok)

Captured == UNION {taken[k].goals : k \in 1 .. Len(taken)}

\* The trick goes to winner together with the pending goals in batch.
Capture(winner, batch) ==
  LET batches == Append(taken, [by |-> winner, goals |-> batch])
      good    == /\ \A t \in batch : owner[t] = winner
                 /\ OrderExists(token, batches)
  IN /\ batch # {}
     /\ batch \subseteq Goals \ Captured
     /\ \A t \in Goals : status[t] # "failed"
     /\ taken'  = batches
     /\ status' = [t \in Goals |-> IF t \notin batch THEN status[t]
                                   ELSE IF good THEN "success" ELSE "failed"]
     /\ UNCHANGED <<token, owner>>

\* The layouts have tokens for goals 1..n, and some ordering obeys them.
OrderAssumption ==
  \A f \in TokenLayouts : LET n == Cardinality(DOMAIN f) IN
    /\ n \in Nat
    /\ f \in [1 .. n -> [kind : TokenKinds, value : Nat]]
    /\ OrderExists(f, <<>>)

Init ==
  /\ token \in TokenLayouts
  /\ owner \in [Goals -> Owners]
  /\ taken = <<>>
  /\ status = [t \in Goals |-> "pending"]

Next == \E w \in Owners, batch \in SUBSET Goals : Capture(w, batch)
Spec == Init /\ [][Next]_vars
-----------------------------------------------------------------------------
(* The goals the table marks as next (taskPriority.ts). The client derives *)
(* the marks from public counts, without the engine's test of the order.   *)
(* Mission 48 is left out: its goal with omega is bound to the last trick  *)
(* and not to the other goals.                                             *)

Pending == {t \in Goals : status[t] = "pending"}
NextOrder == Cardinality({t \in Goals : status[t] = "success"}) + 1
PendingWith(kind) == {t \in Pending : token[t].kind = kind}
AbsoluteNext == {t \in PendingWith("absolute") : token[t].value = NextOrder}
RelativeNext == {t \in PendingWith("relative") :
                   \A u \in PendingWith("relative") : token[t].value <= token[u].value}
OmegaNext == {t \in PendingWith("omega") : Pending = {t}}

\* Mutant: the absolute token does not stand alone.
PriorityTaskIds_NotAlone ==
  IF \E t \in Goals : status[t] = "failed" THEN {}
  ELSE AbsoluteNext \cup PendingWith("none") \cup RelativeNext \cup OmegaNext
\* The marked goals: nothing once the mission is lost; the absolute token whose
\* turn it is, alone; else the free goals, the least relative one, a lone omega.
PriorityTaskIds ==
  IF \E t \in Goals : status[t] = "failed" THEN {}
  ELSE IF AbsoluteNext # {} THEN AbsoluteNext
  ELSE PendingWith("none") \cup RelativeNext \cup OmegaNext
-----------------------------------------------------------------------------
\* The one-pass test of the engine, which looks only at counts and at the
\* goals still pending, agrees with the existence of an ordering for every
\* batch that could be captured next, as long as the earlier ones were good.
OrderTestIsExact ==
  (\A t \in Goals : status[t] # "failed") =>
    \A batch \in SUBSET (Goals \ Captured) :
      BadTaskOrder(token, Captured, batch)
        <=> ~OrderExists(token, Append(taken, [by |-> 0, goals |-> batch]))

\* The marks say exactly what the engine's test would say of a trick with that
\* one goal: marked goals can be captured next and no other goal can, so the
\* client neither hides a legal order nor sends the crew into a lost mission.
MarksAgreeWithTheEngine ==
  (\A t \in Goals : status[t] # "failed") =>
    PriorityTaskIds = {t \in Pending : ~BadTaskOrder(token, Captured, {t})}
=============================================================================
