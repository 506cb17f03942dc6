-------------------------- MODULE IntegrityPolicy --------------------------
(***************************************************************************)
(* The pure part of the academic-integrity policy: the classifications of  *)
(* a question, which of them are violations, when a session escalates, and *)
(* the guidance level a turn is granted (agentic_system/policy/engine.py   *)
(* and the enums of agentic_system/models.py).  The thresholds are literals*)
(* in the code (3, 12, 14 and 16); here they are constants so that small   *)
(* instances reach them and theorems hold for every choice.                *)
(*                                                                         *)
(* An operator whose name ends in Mutant is a planted defect: the runs are *)
(* repeated with it in the place of the operator it follows in name, and   *)
(* must then fail.                                                         *)
(***************************************************************************)
EXTENDS Integers

CONSTANTS EscalateAt,   \* violations that escalate a session (3)
          ModerateAt,   \* question from which guidance is MODERATE (12)
          MinimalAt,    \* question from which guidance is MINIMAL (14)
          RejectAt      \* question from which guidance is REJECTED (16)

\* The thresholds are positive and ordered as the literals of the code are.
ASSUME ThresholdsAssumption ==
  /\ EscalateAt \in Nat \ {0}
  /\ ModerateAt \in Nat \ {0}
  /\ MinimalAt \in Nat
  /\ RejectAt \in Nat
  /\ ModerateAt <= MinimalAt
  /\ MinimalAt <= RejectAt

Classifications ==
  {"CONCEPTUAL", "PROCEDURAL", "CLARIFICATION", "DIRECT_SOLUTION", "ANSWER_FARMING"}

GuidanceLevels == {"FULL", "MODERATE", "MINIMAL", "REJECTED"}

\* How much a level withholds: a larger number is a stricter level.
Strictness(level) ==
  CASE level = "FULL"     -> 0
    [] level = "MODERATE" -> 1
    [] level = "MINIMAL"  -> 2
    [] level = "REJECTED" -> 3

\* The classifications that file a violation against the session.
IsViolation(classification) ==
  classification \in {"DIRECT_SOLUTION", "ANSWER_FARMING"}

ViolationsAfter(violationCount, classification) ==
  IF IsViolation(classification) THEN violationCount + 1 ELSE violationCount

\* Mutants: one violation too late, and only at the threshold.
EscalatesLateMutant(escalated, violationCount) ==
  escalated \/ violationCount > EscalateAt
EscalatesAfreshMutant(escalated, violationCount) == violationCount = EscalateAt

\* Whether a session is escalated once a violation has been counted.
EscalatesAfter(escalated, violationCount) == escalated \/ violationCount >= EscalateAt

\* The throttle on questions that are not violations themselves.
Throttle(questionCount, violationCount) ==
  CASE questionCount >= RejectAt -> "REJECTED"
    [] questionCount >= MinimalAt /\ questionCount < RejectAt -> "MINIMAL"
    [] questionCount < MinimalAt
         /\ (questionCount >= ModerateAt \/ violationCount >= 1) -> "MODERATE"
    [] OTHER -> "FULL"

\* Mutant: the previous violations are tested before the number of questions.
ViolationsFirstMutant(classification, questionCount, violationCount, escalated) ==
  IF escalated \/ classification = "DIRECT_SOLUTION" THEN "REJECTED"
  ELSE IF classification = "ANSWER_FARMING" THEN "MINIMAL"
  ELSE IF violationCount >= 1 THEN "MODERATE"
  ELSE Throttle(questionCount, violationCount)

\* derive_guidance_level: escalation and a direct solution reject, farming
\* is answered at MINIMAL, everything else is throttled.
DeriveGuidanceLevel(classification, questionCount, violationCount, escalated) ==
  IF escalated \/ classification = "DIRECT_SOLUTION" THEN "REJECTED"
  ELSE IF classification = "ANSWER_FARMING" THEN "MINIMAL"
  ELSE Throttle(questionCount, violationCount)

=============================================================================
