------------------------------- MODULE MCTurn -------------------------------
(***************************************************************************)
(* TurnPipeline on a few turns of one session, with one classification of  *)
(* each kind: allowed, rejected outright, throttled.                       *)
(***************************************************************************)
EXTENDS TurnPipeline, TLC

\* CONCEPTUAL and CLARIFICATION are treated as PROCEDURAL is, at every step.
MCVerdicts == {"PROCEDURAL", "DIRECT_SOLUTION", "ANSWER_FARMING"}

\* Turns are interchangeable in the safety invariants.
TurnSymmetry == Permutations(Calls)

=============================================================================
