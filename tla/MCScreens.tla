------------------------------ MODULE MCScreens ------------------------------
(* What one member sees of a small room: its dialogs and buttons (RoomScreen), *)
(* or the hand that is sent (RoomViews).  A behaviour runs one of the two over *)
(* the same room; people, bots and attempts are interchangeable.  With two bots *)
(* in the crew one person can take the place of another in the queue.          *)
EXTENDS RoomScreen, TLC

VARIABLES part, view, seen

all == <<allVars, part, view, seen>>
Views == INSTANCE RoomViews

ASSUME ViewsAssumption == Views!ViewAssumption

Symmetry == Permutations(Humans) \cup Permutations(Bots) \cup Permutations(AttemptIds)

NoScreen == me = None /\ shown = None /\ skipped = 0 /\ dialogs = <<>> /\ dismissed = "none"

ScreensInit ==
  \/ part = "screen" /\ ScreenInit /\ view = None /\ seen = {}
  \/ part = "views" /\ Views!ViewInit /\ NoScreen

ScreenDo(A) == part = "screen" /\ A /\ UNCHANGED <<part, view, seen>>

ScreensNext ==
  \/ ScreenDo(RoomGoesOn) \/ ScreenDo(CatchUp)
  \/ ScreenDo(CloseWaiting) \/ ScreenDo(DismissResult) \/ ScreenDo(ReviewResult)
  \/ part = "views" /\ Views!ViewNext /\ UNCHANGED <<part, screen>>

ScreensSpec == ScreensInit /\ [][ScreensNext]_all
-----------------------------------------------------------------------------
\* The dialogs keep up with the room (GameTable.tsx), whatever snapshots were
\* skipped: an open vote is asked of everybody under nothing that stays, no
\* button a seated member can reach is refused but for three reasons the member
\* can see; and nobody plays in an attempt after having been sent a hand of it
\* (project in engine.ts).
ScreensSound ==
  /\ part = "screen" => ScreenTypeOK /\ VoteIsAsked /\ SeatedIsNotRefused
  /\ part = "views" => Views!ViewTypeOK /\ Views!NoSeatAfterLooking

\* Neither what was closed before nor a skipped snapshot keeps from a member that
\* the queue has grown (WaitingJoinModal.tsx) or how an attempt ended
\* (MissionResultModal.tsx).
NothingIsMissed == [][part = "screen" => GrowthIsAnnounced /\ ResultOpens]_all
=============================================================================
