------------------------------ MODULE RoomScreen ------------------------------
(***************************************************************************)
(* The dialogs and the buttons one member of a room sees, over the life of *)
(* the room (src/src/components/table: GameTable with RestartVote,         *)
(* WaitingJoinModal and MissionResultModal).  The room goes on by the      *)
(* operations of CrewRoom, whoever gives them and from wherever.  What the *)
(* screen is told of is the latest state whenever it asks for it (the tab  *)
(* may be hidden, or a request under way), so it skips whatever lies       *)
(* between two snapshots, except for the member's own coming and going.    *)
(*                                                                         *)
(* A dialog opened by showModal is on top of those opened before and makes *)
(* everything below it inert.  The preparation, with the dialog of its     *)
(* own, is SetupScreen's.                                                  *)
(***************************************************************************)
EXTENDS CrewRoom, Sequences, SequencesExt

CONSTANTS
  ServerMode,   \* serviceMode = "server"
  MaxSkipped    \* bound: snapshots skipped between two that are shown

ASSUME ModeAssumption == ServerMode \in BOOLEAN /\ MaxSkipped \in Nat

VARIABLES
  me,        \* whose screen it is
  shown,     \* what the effects of the dialogs remember of the last snapshot,
             \*   and whether its attempt is still the one running
  skipped,   \* how many the screen has skipped since
  dialogs,   \* the open dialogs, the topmost last
  dismissed  \* dismissedResult: the outcome dismissed in this attempt, or "none"

screen  == <<me, shown, skipped, dialogs, dismissed>>
allVars == <<vars, screen>>

Watching == me \in spectators
Results == Ended \cup {"campaign_complete"}
ResultActive == phase \in Results
InDialogs(d) == d \in ToSet(dialogs)
Top == IF dialogs = <<>> THEN "page" ELSE Last(dialogs)
-----------------------------------------------------------------------------
(* The dialogs after a snapshot.                                           *)

\* resultKey holds the attempt: dismissing one result dismisses no other.
\* Mutant: it holds the outcome only.
StillDismissed_Outcome == dismissed
StillDismissed == IF shown.running /\ attempt' = attempt THEN dismissed ELSE "none"

\* The effect that opens the question of those waiting runs when their number
\* or the policy changes.
AskAgain ==
  \/ Cardinality(waiting') # Cardinality(shown.waiting)
  \/ policy' # shown.policy
  \/ me \notin Members   \* the first snapshot

Wanted(d) ==
  CASE d = "vote"    -> VoteOpen'
    [] d = "result"  -> ResultActive' /\ dismissed' # phase'
    [] d = "waiting" -> waiting' # {} /\ policy' # "after_mission" /\ (AskAgain \/ InDialogs(d))

\* What showModal is called for.
Opened(d) == Wanted(d) /\ ~InDialogs(d)

Snapshot == [phase |-> phase, waiting |-> waiting, policy |-> policy, running |-> TRUE]

Render ==
  /\ dismissed' = StillDismissed
  /\ dialogs' = IF me \notin Members' THEN <<>>
                ELSE SelectSeq(dialogs, Wanted)
                       \o SelectSeq(<<"vote", "result", "waiting">>, Opened)
  /\ shown' = Snapshot'
  /\ skipped' = 0
  /\ UNCHANGED me

\* The room goes on and the screen does not know.  An operation that changes
\* nothing the dialogs read leaves them as they are, seen or skipped.
Skip ==
  /\ skipped < MaxSkipped
  /\ <<Snapshot, attempt, VoteOpen>>' # <<Snapshot, attempt, VoteOpen>>
  /\ skipped' = skipped + 1
  /\ shown' = [shown EXCEPT !.running = @ /\ attempt' = attempt]
  /\ UNCHANGED <<me, dialogs, dismissed>>
-----------------------------------------------------------------------------
(* The buttons within reach, named after what they send.                   *)

CanContinue == settings.mode = "random" \/ mission + 1 \in Missions

LobbyButtons ==
  (IF Watching THEN {} ELSE {"set_character", "set_ready"})
  \cup (IF /\ me = host /\ ~Watching
           /\ Cardinality(players) >= MinCrew /\ Cardinality(players) <= settings.capacity
           /\ players \subseteq ready
        THEN {"start_mission"} ELSE {})
  \cup (IF me = host /\ ~Watching /\ settings.mode # "random" THEN {"update_settings"} ELSE {})

GameButtons ==
  (IF phase = "playing" /\ me \in players THEN {"become_spectator"} ELSE {})
  \cup (IF phase = "trick_result" /\ (me = host \/ ServerMode) THEN {"advance_trick"} ELSE {})
  \cup (IF ResultActive THEN {} ELSE {"request_restart"})

PageButtons ==
  (IF phase = "lobby" THEN LobbyButtons ELSE GameButtons)
  \cup (IF Watching /\ HasSeat THEN {"join_as_player"} ELSE {})

VoteButtons == {"disagree"} \cup (IF me \in approvals THEN {} ELSE {"agree"})
WaitingButtons == IF me = host THEN {"after_mission", "restart_now"} ELSE {}
ResultButtons ==
  IF me = host /\ phase = "failure" THEN {"retry_mission"}
  ELSE IF me = host /\ phase = "success" /\ CanContinue THEN {"next_mission"} ELSE {}

Buttons ==
  IF me \notin Members THEN {}
  ELSE CASE Top = "vote"    -> VoteButtons
         [] Top = "waiting" -> WaitingButtons
         [] Top = "result"  -> ResultButtons
         [] Top = "page"    -> PageButtons

\* What the engine makes of a command of this member.
Does(b) ==
  CASE b = "set_character"    -> SetCharacter(me)
    [] b = "set_ready"        -> SetReady(me, me \notin ready)
    [] b = "start_mission"    -> StartMission(me)
    [] b = "update_settings"  -> \E m \in Missions :
                                   UpdateSettings(me, [settings EXCEPT !.start = m, !.mode = "sequential"])
    [] b = "become_spectator" -> BecomeSpectator(me)
    [] b = "join_as_player"   -> JoinAsPlayer(me)
    [] b = "advance_trick"    -> AdvanceTrick(me)
    [] b = "request_restart"  -> RequestRestart(me)
    [] b = "agree"            -> ApproveRestart(me)
    [] b = "disagree"         -> RejectRestart(me)
    [] b = "after_mission"    -> WaitForMission(me)
    [] b = "restart_now"      -> RestartWithWaiting(me)
    [] b = "retry_mission"    -> RetryMission(me)
    [] b = "next_mission"     -> NextMission(me)
-----------------------------------------------------------------------------
(* What the member does without telling the room.                          *)

Close(d) == dialogs' = SelectSeq(dialogs, LAMBDA e : e # d)
Remain == UNCHANGED <<vars, me, shown, skipped>>

\* They act on the snapshot that is shown.
CloseWaiting  == Top = "waiting" /\ Close("waiting") /\ dismissed' = dismissed /\ Remain
DismissResult == Top = "result" /\ Close("result") /\ dismissed' = shown.phase /\ Remain
ReviewResult  == /\ Top = "page" /\ me \in Members /\ shown.phase \in Results /\ dismissed = shown.phase
                 /\ dialogs' = <<"result">> /\ dismissed' = "none" /\ Remain

ScreenInit ==
  /\ Init /\ me \in Humans
  /\ shown = Snapshot /\ skipped = 0
  /\ dialogs = <<>> /\ dismissed = "none"

\* One's own coming and going is answered to this screen.
RoomGoesOn == Next /\ (Render \/ ((me \in Members) = (me \in Members') /\ Skip))

\* The latest snapshot, for want of another operation (pullLatest).
CatchUp == skipped > 0 /\ UNCHANGED vars /\ Render

ScreenNext == RoomGoesOn \/ CatchUp \/ CloseWaiting \/ DismissResult \/ ReviewResult
ScreenSpec == ScreenInit /\ [][ScreenNext]_allVars
-----------------------------------------------------------------------------
\* Every variable of the screen has its type, and a screen that has skipped
\* nothing shows the room.
ScreenTypeOK ==
  /\ me \in Humans
  /\ ToSet(dialogs) \subseteq {"vote", "result", "waiting"} /\ Len(dialogs) = Cardinality(ToSet(dialogs))
  /\ dismissed \in Results \cup {"none"}
  /\ skipped \in 0 .. MaxSkipped
  /\ skipped = 0 => shown = Snapshot

\* The refusals a seated member can meet: an attempt cannot begin with the
\* crew that has not asked to watch; a vote holds up everything else; there is
\* no mission to wait for once the campaign is over.
TooFewStay(b) ==
  LET crew == IF b \in {"start_mission", "agree"} THEN players ELSE players \cup waiting
  IN /\ b \in {"start_mission", "agree", "restart_now", "retry_mission", "next_mission"}
     /\ Cardinality(crew \ leaving) < MinCrew
VoteFirst(b) == VoteOpen /\ b \in {"after_mission", "restart_now"}
MissionsOver(b) == phase = "campaign_complete" /\ b = "after_mission"

\* But for these, no button a seated member can reach is refused once the
\* latest snapshot is shown, whatever was skipped: the dialogs and the
\* conditions on the buttons catch up with the room.
SeatedIsNotRefused ==
  skipped = 0 /\ me \in players =>
    \A b \in Buttons : ENABLED Does(b) \/ TooFewStay(b) \/ VoteFirst(b) \/ MissionsOver(b)

\* Whoever still has to vote finds the question under nothing that cannot be
\* closed, and nobody finds it when it is settled.
VoteIsAsked ==
  skipped = 0 /\ me \in Members =>
    (VoteOpen <=> InDialogs("vote")) /\ (VoteOpen => ~InDialogs("result"))

\* A member of the room is shown the latest snapshot.
Told == me \in Members /\ me \in Members' /\ skipped' = 0

\* A queue that has only grown is announced, also after the question was closed
\* or answered for those before.
GrowthIsAnnounced ==
  Told /\ policy' # "after_mission" /\ shown.waiting \subseteq waiting' /\ waiting' # shown.waiting
    => "waiting" \in ToSet(dialogs')

\* The result of every attempt opens by itself, also if an earlier one was
\* dismissed and the attempts between were not seen
\* (docs/CHARACTERS-AND-TABLE.ko.md:110).
ResultOpens ==
  Told /\ ResultActive' /\ (phase' # shown.phase \/ ~shown.running \/ attempt' # attempt) => "result" \in ToSet(dialogs')
-----------------------------------------------------------------------------
\* docs/DEPLOYMENT.ko.md:185: whoever joins a mission waits and the host
\* chooses when the newcomer plays.  So the question is put for everybody who
\* has joined the queue since the last snapshot, until it is answered.
NewcomersAreAnnounced ==
  [][Told /\ policy' # "after_mission" /\ ~(waiting' \subseteq shown.waiting)
       => "waiting" \in ToSet(dialogs')]_allVars
=============================================================================
