------------------------------ MODULE RoomViews ------------------------------
(***************************************************************************)
(* Whose hand a member is sent (project and view_player in                 *)
(* src/src/game/engine.ts), over the life of the room in CrewRoom.  A      *)
(* spectator may look into the hand of any seated player and may ask for a *)
(* seat afterwards.  The goals project leaves out are Visible in CrewDemo; *)
(* what else a snapshot holds is public.                                   *)
(*                                                                         *)
(* The variable seen is auxiliary: who has been sent somebody else's hand  *)
(* of the attempt now running.  No action reads it.                        *)
(***************************************************************************)
EXTENDS CrewRoom

ViewAssumption == None \notin People

VARIABLES
  view,  \* spectatorViews: the player each spectator looks at, or None
  seen   \* who has been sent another's hand in this attempt

viewVars == <<view, seen>>
allVars  == <<vars, viewVars>>

\* project: handOwnerId.  Those waiting for a seat are sent no hand.
HandOwner(u, look, crew, watchers) ==
  IF u \in crew THEN u
  ELSE IF u \in watchers /\ look[u] \in crew THEN look[u]
  ELSE None

\* Whoever is sent another's hand after this step; there is none in the lobby.
Look ==
  seen' = IF attempt' = None THEN {}
          ELSE (IF attempt' = attempt THEN seen ELSE {})
                 \cup {u \in Humans :
                         HandOwner(u, view', players', spectators') \notin {u, None}}

\* movePlayerToSpectators drops the choice of the one who moves and the choices
\* of that player; the choice goes with the place on the bench.  A player who
\* leaves the room is still chosen.
Choices ==
  [u \in Humans |->
     IF u \in spectators \cap spectators' /\ view[u] \notin players \cap spectators'
     THEN view[u] ELSE None]

\* Any operation of the room.
RoomStep ==
  /\ Next
  /\ view' = Choices
  /\ Look

\* view_player
ViewPlayer(a, p) ==
  /\ a \in spectators
  /\ ~VoteOpen
  /\ p \in players \cup {None}
  /\ view' = [view EXCEPT ![a] = p]
  /\ UNCHANGED vars
  /\ Look

ViewInit == Init /\ view = [u \in Humans |-> None] /\ seen = {}
ViewNext == RoomStep \/ \E a \in Humans, p \in People \cup {None} : ViewPlayer(a, p)
ViewSpec == ViewInit /\ [][ViewNext]_allVars
-----------------------------------------------------------------------------
\* Choices are made on the bench and given up with it; everybody's own hand
\* aside, only those who have not just sat down can have seen one.
ViewTypeOK ==
  /\ view \in [Humans -> People \cup {None}]
  /\ \A u \in Humans : view[u] # None => u \in spectators
  /\ seen \subseteq Humans

\* Nobody plays in an attempt after having been sent the hand of another player
\* of that attempt: from the bench one asks for a seat, waits, and is seated only
\* when cards are dealt anew, whatever votes, leaves and waiting policies do in
\* between.
NoSeatAfterLooking == phase \in InProgress => players \cap seen = {}
=============================================================================
