------------------------------ MODULE CrewDemo -------------------------------
(***************************************************************************)
(* What a demo member does during the preparation                          *)
(* (src/src/game/demoPolicy.ts: suggestDemoCommand, and                    *)
(* src/src/game/demo.ts: pendingDemoActor).  The policy sees the personal  *)
(* snapshot of one member (project in src/src/game/engine.ts): goals not   *)
(* yet shown to the crew are missing from it.                              *)
(***************************************************************************)
EXTENDS CrewSetup

CONSTANT Bots  \* the seats of demo members

DemoAssumption == Bots \subseteq Players

\* project: which goals a snapshot shows, to everybody alike.
Visible ==
  IF "assignment" \in done \/ Assignment(mission) = "draft" THEN Tasks
  ELSE IF Assignment(mission) = "decision" THEN {}
  ELSE {t \in Tasks : owner[t] # None \/ t = active}
Load(p) == Cardinality({t \in Visible : owner[t] = p})

\* Who has to answer before the commander decides.
Responders == IF stage = "role" /\ mission = 11 THEN {} ELSE Players

\* The members the commander of the demo crew names first, then second.
LeastLoaded == {q \in eligible : \A r \in eligible : Load(q) <= Load(r)}
First  == CHOOSE q \in LeastLoaded : \A r \in LeastLoaded : q <= r
Second == CHOOSE q \in eligible \ {First} : \A r \in eligible \ {First} : q <= r

\* Ready to decide: everybody has been heard.
Deciding(p) == p = captain /\ Responders \subseteq answered

\* suggestDemoCommand: is there a command for the member?
HasCommand(p) ==
  CASE stage = "briefing"       -> p \notin briefed
    [] stage = "task_selection" -> turn = p /\ Open(owner) \cap Visible # {}
    [] stage = "distress_vote"  -> p \notin answered
    [] stage = "distress_cards" -> p \notin answered /\ Exchangeable(p) # {}
    [] stage \in {"token_edit", "task_transfer"} -> p = captain
    [] stage \in {"role"} \cup CaptainAsks ->
         (p \in Responders \ answered) \/ (Deciding(p) /\ eligible # {})
    [] OTHER -> FALSE

\* The command it is.  Any plain card may come first in a sorted hand.
Suggested(p) ==
  /\ HasCommand(p)
  /\ \/ BriefingReady(p)
     \/ \E t \in Open(owner) \cap Visible :
          (\A u \in Open(owner) \cap Visible : t <= u) /\ ChooseTask(p, t)
     \/ (stage = "distress_vote" \/ p \in Responders \ answered) /\ Respond(p, FALSE)
     \/ \E c \in Exchangeable(p) : SelectDistressCard(p, c)
     \/ ConfirmTokens(p) /\ token' = token
     \/ SkipTransfer(p)
     \/ /\ Deciding(p)
        /\ \/ SelectCrew(p, First, IF mission = 50 THEN Second ELSE None)
           \/ AssignTask(p, First)

\* runDemoStep: the first demo member with a command.
DemoStep == \E p \in Bots : (\A q \in Bots : q < p => ~HasCommand(q)) /\ Suggested(p)

Human == \E p \in Players \ Bots : Move(p)

DemoNext == DemoStep \/ Human \/ (\E way \in {"left", "right"} : RequestDistress(way)) \/ Begin

DemoSpec == Init /\ [][DemoNext]_vars
-----------------------------------------------------------------------------
\* Whatever people do in between, the engine accepts what the policy
\* suggests: a refusal would be retried, more and more slowly, for ever.
SuggestionAccepted == \A p \in Players : HasCommand(p) => ENABLED Suggested(p)

\* A table is never stuck for want of a suggestion: either a bot has a
\* command or the preparation waits for a person.
WaitsForAPerson ==
  CASE stage = "briefing" -> ~((Players \ Bots) \subseteq briefed)
    [] stage = "task_selection" -> turn \notin Bots
    [] stage \in {"token_edit", "task_transfer"} -> captain \notin Bots
    [] stage \in {"distress_vote", "distress_cards"} -> ~((Players \ Bots) \subseteq answered)
    [] stage \in {"role"} \cup CaptainAsks ->
         \/ ~(Responders \subseteq answered \cup Bots)
         \/ Responders \subseteq answered /\ captain \notin Bots
    [] OTHER -> TRUE
BotsKeepGoing == WaitsForAPerson \/ \E p \in Bots : HasCommand(p)
=============================================================================
