----------------------------- MODULE MCCrewRoom -----------------------------
(***************************************************************************)
(* CrewRoom for TLC: the people are interchangeable.                       *)
(***************************************************************************)
EXTENDS CrewRoom, TLC

PeopleSymmetry == Permutations(Humans) \cup Permutations(Bots)
AttemptSymmetry == Permutations(AttemptIds)
Symmetry == PeopleSymmetry \cup AttemptSymmetry
=============================================================================
