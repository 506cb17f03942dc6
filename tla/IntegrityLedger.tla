-------------------------- MODULE IntegrityLedger --------------------------
(***************************************************************************)
(* What the Guardian promises about a session: its row in the guardian     *)
(* database, whether a question on it has been taken up, and the last      *)
(* verdict given on it.  Counting a question is one atomic step.  A        *)
(* question is taken up only while the session is open; the one that is    *)
(* taken up may still be counted after the session is closed, or given up. *)
(* GuardianSessions takes the same question through the separate database  *)
(* transactions of GuardianAgent.validate, and implements this             *)
(* specification when the turns of a session are serialised.               *)
(***************************************************************************)
EXTENDS IntegrityPolicy

CONSTANT Sessions

VARIABLES ledger,    \* the sessions table: one row per session
          pending,   \* whether validate is at work on a question of the session
          verdict    \* the last ValidateResult given on each session

ledgerVars == <<ledger, pending, verdict>>

Statuses == {"none", "active", "closed"}

Row == [status : Statuses, question_count : Nat, violation_count : Nat,
        escalated : BOOLEAN]

\* A row that does not exist yet, and the defaults of the sessions table.
NoRow == [status |-> "none", question_count |-> 0, violation_count |-> 0,
          escalated |-> FALSE]

FreshRow == [NoRow EXCEPT !.status = "active"]

Verdict == [classification : Classifications, guidance : GuidanceLevels,
            question_count : Nat, violation_count : Nat, escalated : BOOLEAN]

NoVerdict == [classification |-> "none", guidance |-> "none",
              question_count |-> 0, violation_count |-> 0, escalated |-> FALSE]

\* The row after a question of that classification has been counted.
Counted(row, classification) ==
  LET violations == ViolationsAfter(row.violation_count, classification)
  IN  [row EXCEPT
         !.question_count  = row.question_count + 1,
         !.violation_count = violations,
         !.escalated = IF IsViolation(classification)
                       THEN EscalatesAfter(row.escalated, violations)
                       ELSE row.escalated]

\* The verdict on a question, given the row that already counts it.
VerdictOn(row, classification) ==
  [classification  |-> classification,
   guidance        |-> DeriveGuidanceLevel(classification, row.question_count,
                                           row.violation_count, row.escalated),
   question_count  |-> row.question_count,
   violation_count |-> row.violation_count,
   escalated       |-> row.escalated]

-----------------------------------------------------------------------------

LedgerInit ==
  /\ ledger  = [s \in Sessions |-> NoRow]
  /\ pending = [s \in Sessions |-> FALSE]
  /\ verdict = [s \in Sessions |-> NoVerdict]

Open(s) ==
  /\ ledger[s].status = "none"
  /\ ledger' = [ledger EXCEPT ![s] = FreshRow]
  /\ UNCHANGED <<pending, verdict>>

\* A question is taken up: the session was found open.
Begin(s) ==
  /\ ledger[s].status = "active"
  /\ ~pending[s]
  /\ pending' = [pending EXCEPT ![s] = TRUE]
  /\ UNCHANGED <<ledger, verdict>>

\* It is counted, and its verdict given, whether or not the session is open yet.
Ask(s, classification) ==
  /\ pending[s]
  /\ ledger'  = [ledger EXCEPT ![s] = Counted(ledger[s], classification)]
  /\ verdict' = [verdict EXCEPT ![s] = VerdictOn(ledger'[s], classification)]
  /\ pending' = [pending EXCEPT ![s] = FALSE]

\* Or validate raises.
Abandon(s) ==
  /\ pending[s]
  /\ pending' = [pending EXCEPT ![s] = FALSE]
  /\ UNCHANGED <<ledger, verdict>>

Close(s) ==
  /\ ledger[s].status = "active"
  /\ ledger' = [ledger EXCEPT ![s].status = "closed"]
  /\ UNCHANGED <<pending, verdict>>

LedgerNext ==
  \E s \in Sessions :
    \/ Open(s)
    \/ Begin(s)
    \/ \E classification \in Classifications : Ask(s, classification)
    \/ Abandon(s)
    \/ Close(s)

LedgerSpec == LedgerInit /\ [][LedgerNext]_ledgerVars

-----------------------------------------------------------------------------

LedgerTypeOK ==
  /\ ledger  \in [Sessions -> Row]
  /\ pending \in [Sessions -> BOOLEAN]
  /\ verdict \in [Sessions -> Verdict \cup {NoVerdict}]

\* The guidance the next question of that classification would be granted.
NextGuidance(s, classification) ==
  VerdictOn(Counted(ledger[s], classification), classification).guidance

\* A session is escalated exactly when its third violation has been counted
\* (README.md:283), however the violations were spread over its questions.
EscalatedExactlyAtThreshold ==
  \A s \in Sessions : ledger[s].escalated <=> ledger[s].violation_count >= EscalateAt

\* Throttling only ever tightens: whatever a question is classified as, no
\* earlier question makes the next one of that kind better treated than it
\* would have been (the order of the tests in derive_guidance_level).
GuidanceNeverRelaxes ==
  [][\A s \in Sessions, classification \in Classifications :
        ledger[s].status # "none" =>
           Strictness(NextGuidance(s, classification))
             <= Strictness(NextGuidance(s, classification)')]_ledgerVars

=============================================================================
