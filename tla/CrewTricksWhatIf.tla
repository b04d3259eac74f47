-------------------------- MODULE CrewTricksWhatIf --------------------------
(***************************************************************************)
(* What if the crew played on after a failure?  The engine stops the       *)
(* attempt; here it goes on, to see whether the mission was really lost.   *)
(***************************************************************************)
EXTENDS CrewTricksAudit

VARIABLE lost  \* the engine has called the attempt a failure

PlayOn ==
  /\ phase = "failure"
  /\ ~Exhausted(hands)
  /\ phase' = "trick_result"
  /\ UNCHANGED <<setup, hands, trick, trickNumber, turn, status, communication,
                 tricksWon, progress, history, lost>>

WhatIfSpec ==
  /\ Init /\ lost = FALSE
  /\ [][ \/ Next /\ lost' = (lost \/ phase' = "failure")
         \/ PlayOn ]_<<vars, lost>>

\* A failure is only called when it is one: however the crew played on, it
\* could not have met what the log book asks.
FailureIsFinal == lost /\ phase # "playing" => ~MissionMet
=============================================================================
