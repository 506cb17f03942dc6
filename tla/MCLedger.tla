------------------------------ MODULE MCLedger ------------------------------
(***************************************************************************)
(* IntegrityLedger with the thresholds of the code and a bound on how many *)
(* questions a session is asked: past the last threshold and one more.     *)
(***************************************************************************)
EXTENDS IntegrityLedger

CONSTANT MaxQuestions   \* bound on the questions of one session

BoundedBegin(s) ==
  /\ ledger[s].question_count < MaxQuestions
  /\ Begin(s)

BoundedNext ==
  \E s \in Sessions :
    \/ Open(s)
    \/ BoundedBegin(s)
    \/ \E classification \in Classifications : Ask(s, classification)
    \/ Abandon(s)
    \/ Close(s)

BoundedSpec == LedgerInit /\ [][BoundedNext]_ledgerVars

=============================================================================
