------------------------------ MODULE AtomicRoom ------------------------------
(* What the server promises the people of one room: every request that       *)
(* changes the room takes effect at one moment, at most once, one after the   *)
(* other, and a request that was answered with success has taken effect for   *)
(* good.  A restart of the server is no event of this specification.         *)
EXTENDS Naturals, Sequences, SequencesExt

CONSTANTS Calls,   \* the requests
          IdOf,    \* the command id each carries; a resent request repeats it
          Once     \* the requests whose id is remembered with the room

VARIABLES log,    \* the effects in force, in the order they were taken
          open,   \* the room exists
          acked   \* the requests that were answered with success

vars == <<log, open, acked>>

InForce == Range(log)
SameAsTaken(c) == \E d \in InForce \cap Once : c \in Once /\ IdOf[c] = IdOf[d]

Init == log = <<>> /\ open = TRUE /\ acked = {}

\* A request takes effect; an id that is remembered counts once.
Take(c) ==
  /\ open
  /\ c \notin InForce
  /\ ~SameAsTaken(c)
  /\ log' = Append(log, c)
  /\ UNCHANGED <<open, acked>>

\* The last member leaves and the room is no more.
Close == open /\ open' = FALSE /\ log' = <<>> /\ UNCHANGED acked

\* An answer of success: the effect of this request, or of an earlier one it
\* repeats, is in force, or the room was closed.
Ack(c) ==
  /\ open => c \in InForce \/ SameAsTaken(c)
  /\ acked' = acked \cup {c}
  /\ UNCHANGED <<log, open>>

Next == Close \/ \E c \in Calls : Take(c) \/ Ack(c)

Spec == Init /\ [][Next]_vars
=============================================================================
