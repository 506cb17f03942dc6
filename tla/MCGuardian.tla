----------------------------- MODULE MCGuardian -----------------------------
(***************************************************************************)
(* GuardianSessions on a few calls of one session, with one classification *)
(* of each kind: allowed, rejected outright, throttled.                    *)
(***************************************************************************)
EXTENDS GuardianSessions

\* CONCEPTUAL and CLARIFICATION are treated as PROCEDURAL is, at every step.
MCVerdicts == {"PROCEDURAL", "DIRECT_SOLUTION", "ANSWER_FARMING"}

=============================================================================
