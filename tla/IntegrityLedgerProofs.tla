----------------------- MODULE IntegrityLedgerProofs -----------------------
(***************************************************************************)
(* What the Guardian promises holds for all thresholds that are ordered as *)
(* those of the code are, and any number of sessions and questions.        *)
(***************************************************************************)
EXTENDS IntegrityLedger, TLAPS

LedgerInv ==
  /\ LedgerTypeOK
  /\ EscalatedExactlyAtThreshold

-----------------------------------------------------------------------------
(* The policy. *)

LEMMA ThrottleIsLevel ==
  ASSUME NEW q \in Nat, NEW v \in Nat
  PROVE  Throttle(q, v) \in GuidanceLevels
BY ThresholdsAssumption DEF Throttle, GuidanceLevels

LEMMA GuidanceIsLevel ==
  ASSUME NEW c \in Classifications, NEW q \in Nat, NEW v \in Nat, NEW e \in BOOLEAN
  PROVE  DeriveGuidanceLevel(c, q, v, e) \in GuidanceLevels
BY ThrottleIsLevel DEF DeriveGuidanceLevel, GuidanceLevels

LEMMA StrictnessOfLevels ==
  /\ Strictness("FULL") = 0
  /\ Strictness("MODERATE") = 1
  /\ Strictness("MINIMAL") = 2
  /\ Strictness("REJECTED") = 3
BY DEF Strictness

\* What the throttle grants, as thresholds on the counts.
LEMMA ThrottleStrictness ==
  ASSUME NEW q \in Nat, NEW v \in Nat
  PROVE  Strictness(Throttle(q, v)) =
           IF q >= RejectAt THEN 3
           ELSE IF q >= MinimalAt THEN 2
           ELSE IF q >= ModerateAt \/ v >= 1 THEN 1
           ELSE 0
<1> USE ThresholdsAssumption
<1>1. CASE q >= RejectAt
  <2>1. Throttle(q, v) = "REJECTED"
    BY <1>1 DEF Throttle
  <2>2. QED
    BY <1>1, <2>1, StrictnessOfLevels
<1>2. CASE q < RejectAt /\ q >= MinimalAt
  <2>1. Throttle(q, v) = "MINIMAL"
    BY <1>2 DEF Throttle
  <2>2. QED
    BY <1>2, <2>1, StrictnessOfLevels
<1>3. CASE q < MinimalAt /\ (q >= ModerateAt \/ v >= 1)
  <2>1. Throttle(q, v) = "MODERATE"
    BY <1>3 DEF Throttle
  <2>2. QED
    BY <1>3, <2>1, StrictnessOfLevels
<1>4. CASE q < MinimalAt /\ ~(q >= ModerateAt \/ v >= 1)
  <2>1. Throttle(q, v) = "FULL"
    BY <1>4 DEF Throttle
  <2>2. QED
    BY <1>4, <2>1, StrictnessOfLevels
<1>5. QED
  BY <1>1, <1>2, <1>3, <1>4

\* More questions, more violations or an escalation never relax the guidance.
LEMMA GuidanceMonotone ==
  ASSUME NEW c \in Classifications,
         NEW q1 \in Nat, NEW v1 \in Nat, NEW e1 \in BOOLEAN,
         NEW q2 \in Nat, NEW v2 \in Nat, NEW e2 \in BOOLEAN,
         q1 <= q2, v1 <= v2, e1 => e2
  PROVE  Strictness(DeriveGuidanceLevel(c, q1, v1, e1))
           <= Strictness(DeriveGuidanceLevel(c, q2, v2, e2))
<1>1. Strictness(Throttle(q1, v1)) <= Strictness(Throttle(q2, v2))
  BY ThrottleStrictness, ThresholdsAssumption
<1>2. Strictness(Throttle(q1, v1)) \in 0 .. 3 /\ Strictness(Throttle(q2, v2)) \in 0 .. 3
  BY ThrottleStrictness, ThresholdsAssumption
<1>3. CASE e2 \/ c = "DIRECT_SOLUTION"
  <2>1. DeriveGuidanceLevel(c, q2, v2, e2) = "REJECTED"
    BY <1>3 DEF DeriveGuidanceLevel
  <2>2. Strictness(DeriveGuidanceLevel(c, q1, v1, e1)) <= 3
    BY <1>2, StrictnessOfLevels DEF DeriveGuidanceLevel
  <2>3. QED
    BY <2>1, <2>2, StrictnessOfLevels
<1>4. CASE ~e2 /\ c = "ANSWER_FARMING"
  <2>1. DeriveGuidanceLevel(c, q2, v2, e2) = DeriveGuidanceLevel(c, q1, v1, e1)
    BY <1>4 DEF DeriveGuidanceLevel
  <2>2. DeriveGuidanceLevel(c, q1, v1, e1) = "MINIMAL"
    BY <1>4 DEF DeriveGuidanceLevel
  <2>3. QED
    BY <2>1, <2>2, StrictnessOfLevels
<1>5. CASE ~e2 /\ c # "DIRECT_SOLUTION" /\ c # "ANSWER_FARMING"
  BY <1>1, <1>5 DEF DeriveGuidanceLevel
<1>6. QED
  BY <1>3, <1>4, <1>5

\* A question only ever adds to a row.
LEMMA CountedRow ==
  ASSUME NEW row \in Row, NEW c \in Classifications
  PROVE  /\ Counted(row, c) \in Row
         /\ Counted(row, c).status = row.status
         /\ Counted(row, c).question_count = row.question_count + 1
         /\ Counted(row, c).violation_count =
              row.violation_count + (IF IsViolation(c) THEN 1 ELSE 0)
         /\ Counted(row, c).escalated <=>
              row.escalated \/ (IsViolation(c) /\ row.violation_count + 1 >= EscalateAt)
<1> DEFINE violations == ViolationsAfter(row.violation_count, c)
           escalated == IF IsViolation(c) THEN EscalatesAfter(row.escalated, violations)
                        ELSE row.escalated
<1>1. /\ row.violation_count \in Nat /\ row.question_count \in Nat
      /\ row.escalated \in BOOLEAN
  BY DEF Row
<1>2. violations = row.violation_count + (IF IsViolation(c) THEN 1 ELSE 0)
  BY <1>1 DEF ViolationsAfter
<1>3. violations \in Nat /\ row.question_count + 1 \in Nat
  BY <1>1, <1>2
<1>4. escalated = (row.escalated \/ (IsViolation(c) /\ row.violation_count + 1 >= EscalateAt))
  BY <1>1, <1>2 DEF EscalatesAfter
<1>5. escalated \in BOOLEAN
  BY <1>4
<1>6. Counted(row, c) = [row EXCEPT !.question_count = row.question_count + 1,
                                    !.violation_count = violations,
                                    !.escalated = escalated]
  BY DEF Counted
<1> HIDE DEF violations, escalated
<1>7. QED
  BY <1>2, <1>3, <1>4, <1>5, <1>6 DEF Row

-----------------------------------------------------------------------------

LEMMA InitEstablishesInv == LedgerInit => LedgerInv
<1> SUFFICES ASSUME LedgerInit PROVE LedgerInv
  OBVIOUS
<1>1. NoRow \in Row
  BY DEF NoRow, Row, Statuses
<1>2. LedgerTypeOK
  BY <1>1 DEF LedgerInit, LedgerTypeOK
<1>3. EscalatedExactlyAtThreshold
  BY ThresholdsAssumption DEF LedgerInit, NoRow, EscalatedExactlyAtThreshold
<1>4. QED
  BY <1>2, <1>3 DEF LedgerInv

LEMMA OpenKeepsInv ==
  ASSUME LedgerInv, NEW s \in Sessions, Open(s)
  PROVE  LedgerInv'
<1>1. FreshRow \in Row /\ FreshRow.violation_count = 0 /\ FreshRow.escalated = FALSE
  BY DEF FreshRow, NoRow, Row, Statuses
<1>2. ledger' = [ledger EXCEPT ![s] = FreshRow] /\ UNCHANGED <<pending, verdict>>
  BY DEF Open
<1>3. LedgerTypeOK'
  BY <1>1, <1>2 DEF LedgerInv, LedgerTypeOK
<1>4. EscalatedExactlyAtThreshold'
  BY <1>1, <1>2, ThresholdsAssumption
     DEF LedgerInv, LedgerTypeOK, EscalatedExactlyAtThreshold
<1>5. QED
  BY <1>3, <1>4 DEF LedgerInv

LEMMA AskKeepsInv ==
  ASSUME LedgerInv, NEW s \in Sessions, NEW c \in Classifications, Ask(s, c)
  PROVE  LedgerInv'
<1> DEFINE row == Counted(ledger[s], c)
<1>1. ledger[s] \in Row
  BY DEF LedgerInv, LedgerTypeOK
<1>2. /\ row \in Row
      /\ row.violation_count =
           ledger[s].violation_count + (IF IsViolation(c) THEN 1 ELSE 0)
      /\ row.escalated <=> ledger[s].escalated
           \/ (IsViolation(c) /\ ledger[s].violation_count + 1 >= EscalateAt)
  BY <1>1, CountedRow
<1>3. ledger' = [ledger EXCEPT ![s] = row]
  BY DEF Ask
<1>4. /\ verdict' = [verdict EXCEPT ![s] = VerdictOn(row, c)]
      /\ pending' = [pending EXCEPT ![s] = FALSE]
  BY <1>3 DEF Ask, LedgerInv, LedgerTypeOK
<1> HIDE DEF row
<1>5. VerdictOn(row, c) \in Verdict
  <2>1. row.question_count \in Nat /\ row.violation_count \in Nat /\ row.escalated \in BOOLEAN
    BY <1>2 DEF Row
  <2>2. DeriveGuidanceLevel(c, row.question_count, row.violation_count, row.escalated)
          \in GuidanceLevels
    BY <2>1, GuidanceIsLevel
  <2>3. QED
    BY <2>1, <2>2 DEF VerdictOn, Verdict
<1>6. LedgerTypeOK'
  BY <1>2, <1>3, <1>4, <1>5 DEF LedgerInv, LedgerTypeOK
<1>7. row.escalated <=> row.violation_count >= EscalateAt
  <2>1. ledger[s].violation_count \in Nat
    BY <1>1 DEF Row
  <2>2. ledger[s].escalated <=> ledger[s].violation_count >= EscalateAt
    BY DEF LedgerInv, EscalatedExactlyAtThreshold
  <2>3. CASE IsViolation(c)
    <3>1. row.violation_count = ledger[s].violation_count + 1
      BY <1>2, <2>3
    <3>2. row.escalated <=>
            ledger[s].escalated \/ ledger[s].violation_count + 1 >= EscalateAt
      BY <1>2, <2>3
    <3>3. QED
      BY <2>1, <2>2, <3>1, <3>2, ThresholdsAssumption
  <2>4. CASE ~IsViolation(c)
    <3>1. row.violation_count = ledger[s].violation_count
      BY <1>2, <2>1, <2>4
    <3>2. row.escalated <=> ledger[s].escalated
      BY <1>2, <2>4
    <3>3. QED
      BY <2>2, <3>1, <3>2
  <2>5. QED
    BY <2>3, <2>4
<1>8. EscalatedExactlyAtThreshold'
  BY <1>3, <1>7 DEF LedgerInv, LedgerTypeOK, EscalatedExactlyAtThreshold
<1>9. QED
  BY <1>6, <1>8 DEF LedgerInv

\* Taking a question up, or giving it up, changes no row.
LEMMA TakingUpKeepsInv ==
  ASSUME LedgerInv, NEW s \in Sessions, Begin(s) \/ Abandon(s)
  PROVE  LedgerInv'
<1>1. PICK taken \in BOOLEAN :
        pending' = [pending EXCEPT ![s] = taken] /\ UNCHANGED <<ledger, verdict>>
  BY DEF Begin, Abandon
<1>2. LedgerTypeOK'
  BY <1>1 DEF LedgerInv, LedgerTypeOK
<1>3. EscalatedExactlyAtThreshold'
  BY <1>1 DEF LedgerInv, EscalatedExactlyAtThreshold
<1>4. QED
  BY <1>2, <1>3 DEF LedgerInv

LEMMA CloseKeepsInv ==
  ASSUME LedgerInv, NEW s \in Sessions, Close(s)
  PROVE  LedgerInv'
<1>1. ledger' = [ledger EXCEPT ![s].status = "closed"] /\ UNCHANGED <<pending, verdict>>
  BY DEF Close
<1>2. [ledger[s] EXCEPT !.status = "closed"] \in Row
  BY DEF LedgerInv, LedgerTypeOK, Row, Statuses
<1>3. LedgerTypeOK'
  BY <1>1, <1>2 DEF LedgerInv, LedgerTypeOK
<1>4. \A t \in Sessions : /\ ledger'[t].violation_count = ledger[t].violation_count
                          /\ ledger'[t].escalated = ledger[t].escalated
  BY <1>1 DEF LedgerInv, LedgerTypeOK, Row
<1>5. EscalatedExactlyAtThreshold'
  BY <1>4 DEF LedgerInv, EscalatedExactlyAtThreshold
<1>6. QED
  BY <1>3, <1>5 DEF LedgerInv

LEMMA NextKeepsInv == LedgerInv /\ [LedgerNext]_ledgerVars => LedgerInv'
<1> SUFFICES ASSUME LedgerInv, [LedgerNext]_ledgerVars PROVE LedgerInv'
  OBVIOUS
<1>1. CASE UNCHANGED ledgerVars
  BY <1>1 DEF ledgerVars, LedgerInv, LedgerTypeOK, EscalatedExactlyAtThreshold
<1>2. CASE LedgerNext
  BY <1>2, OpenKeepsInv, TakingUpKeepsInv, AskKeepsInv, CloseKeepsInv DEF LedgerNext
<1>3. QED
  BY <1>1, <1>2

LEMMA InvAlways == LedgerSpec => []LedgerInv
BY InitEstablishesInv, NextKeepsInv, PTL DEF LedgerSpec

\* The rows and the verdicts have their types; in particular, whatever the
\* counts are, exactly one guidance level is granted.
THEOREM LedgerTypesHold == LedgerSpec => []LedgerTypeOK
<1>1. LedgerInv => LedgerTypeOK
  BY DEF LedgerInv
<1>2. QED
  BY <1>1, InvAlways, PTL

\* A session is escalated exactly when EscalateAt violations have been counted,
\* for every threshold (README.md:283, guardian.py:180-181).
THEOREM EscalationIsExact == LedgerSpec => []EscalatedExactlyAtThreshold
<1>1. LedgerInv => EscalatedExactlyAtThreshold
  BY DEF LedgerInv
<1>2. QED
  BY <1>1, InvAlways, PTL

-----------------------------------------------------------------------------

\* A step leaves a session on file with no smaller counts.
LEMMA CountsGrow ==
  ASSUME LedgerInv, [LedgerNext]_ledgerVars,
         NEW s \in Sessions, ledger[s].status # "none"
  PROVE  /\ ledger'[s].question_count >= ledger[s].question_count
         /\ ledger'[s].violation_count >= ledger[s].violation_count
         /\ ledger[s].escalated => ledger'[s].escalated
<1>1. ledger \in [Sessions -> Row] /\ ledger[s] \in Row
  BY DEF LedgerInv, LedgerTypeOK
<1>2. ledger[s].question_count \in Nat /\ ledger[s].violation_count \in Nat
  BY <1>1 DEF Row
<1>3. CASE ledger'[s] = ledger[s]
  BY <1>2, <1>3
<1>4. CASE UNCHANGED ledgerVars
  BY <1>2, <1>4 DEF ledgerVars
<1>5. ASSUME NEW t \in Sessions, Open(t)
      PROVE  ledger'[s] = ledger[s]
  BY <1>1, <1>5 DEF Open
<1>6. ASSUME NEW t \in Sessions, NEW c \in Classifications, Ask(t, c), t # s
      PROVE  ledger'[s] = ledger[s]
  BY <1>1, <1>6 DEF Ask
<1>7. ASSUME NEW c \in Classifications, Ask(s, c)
      PROVE  /\ ledger'[s].question_count >= ledger[s].question_count
             /\ ledger'[s].violation_count >= ledger[s].violation_count
             /\ ledger[s].escalated => ledger'[s].escalated
  <2>1. ledger'[s] = Counted(ledger[s], c)
    BY <1>1, <1>7 DEF Ask
  <2>2. ledger'[s].question_count = ledger[s].question_count + 1
    BY <1>1, <2>1, CountedRow
  <2>3. ledger'[s].violation_count \in
          {ledger[s].violation_count, ledger[s].violation_count + 1}
    BY <1>1, <1>2, <2>1, CountedRow
  <2>4. ledger[s].escalated => ledger'[s].escalated
    BY <1>1, <2>1, CountedRow
  <2>5. QED
    BY <1>2, <2>2, <2>3, <2>4
<1>8. ASSUME NEW t \in Sessions, Close(t)
      PROVE  /\ ledger'[s].question_count = ledger[s].question_count
             /\ ledger'[s].violation_count = ledger[s].violation_count
             /\ ledger'[s].escalated = ledger[s].escalated
  BY <1>1, <1>8 DEF Close, Row
<1>9. ASSUME NEW t \in Sessions, Begin(t) \/ Abandon(t)
      PROVE  ledger'[s] = ledger[s]
  BY <1>9 DEF Begin, Abandon
<1>10. QED
  BY <1>2, <1>3, <1>4, <1>5, <1>6, <1>7, <1>8, <1>9 DEF LedgerNext

\* No question makes the next one better treated, for every choice of ordered
\* thresholds: the tests of derive_guidance_level are monotone in the counts.
THEOREM GuidanceIsMonotone == LedgerSpec => GuidanceNeverRelaxes
<1> DEFINE Tightens(s, c) ==
      ledger[s].status # "none" =>
        Strictness(NextGuidance(s, c)) <= Strictness(NextGuidance(s, c)')
<1>1. ASSUME LedgerInv, LedgerInv', [LedgerNext]_ledgerVars,
             NEW s \in Sessions, NEW c \in Classifications
      PROVE  Tightens(s, c)
  <2> SUFFICES ASSUME ledger[s].status # "none"
               PROVE  Strictness(NextGuidance(s, c)) <= Strictness(NextGuidance(s, c)')
    OBVIOUS
  <2> DEFINE before == Counted(ledger[s], c)
             after  == Counted(ledger'[s], c)
  <2>1. ledger[s] \in Row /\ ledger'[s] \in Row
    BY <1>1 DEF LedgerInv, LedgerTypeOK
  <2>2. before \in Row /\ after \in Row
    BY <2>1, CountedRow
  <2>3. /\ before.question_count <= after.question_count
        /\ before.violation_count <= after.violation_count
        /\ before.escalated => after.escalated
    <3>1. /\ ledger'[s].question_count >= ledger[s].question_count
          /\ ledger'[s].violation_count >= ledger[s].violation_count
          /\ ledger[s].escalated => ledger'[s].escalated
      BY <1>1, CountsGrow
    <3>2. /\ ledger[s].question_count \in Nat /\ ledger[s].violation_count \in Nat
          /\ ledger'[s].question_count \in Nat /\ ledger'[s].violation_count \in Nat
      BY <2>1 DEF Row
    <3>3. before.question_count <= after.question_count
      BY <2>1, <3>1, <3>2, CountedRow
    <3>4. before.violation_count <= after.violation_count
      BY <2>1, <3>1, <3>2, CountedRow
    <3>5. before.escalated => after.escalated
      <4>1. CASE ledger[s].escalated
        BY <2>1, <3>1, <4>1, CountedRow
      <4>2. CASE IsViolation(c) /\ ledger[s].violation_count + 1 >= EscalateAt
        <5>1. ledger'[s].violation_count + 1 >= EscalateAt
          BY <3>1, <3>2, <4>2, ThresholdsAssumption
        <5>2. QED
          BY <2>1, <4>2, <5>1, CountedRow
      <4>3. QED
        BY <2>1, <4>1, <4>2, CountedRow
    <3>6. QED
      BY <3>3, <3>4, <3>5
  <2>4. NextGuidance(s, c) = DeriveGuidanceLevel(c, before.question_count,
                               before.violation_count, before.escalated)
    BY DEF NextGuidance, VerdictOn
  <2>5. NextGuidance(s, c)' = DeriveGuidanceLevel(c, after.question_count,
                                after.violation_count, after.escalated)
    BY DEF NextGuidance, VerdictOn
  <2> HIDE DEF before, after
  <2>6. /\ before.question_count \in Nat /\ before.violation_count \in Nat
        /\ before.escalated \in BOOLEAN
        /\ after.question_count \in Nat /\ after.violation_count \in Nat
        /\ after.escalated \in BOOLEAN
    BY <2>2 DEF Row
  <2>7. QED
    BY <2>3, <2>4, <2>5, <2>6, GuidanceMonotone
<1>2. LedgerInv /\ LedgerInv' /\ [LedgerNext]_ledgerVars =>
        [\A s \in Sessions, classification \in Classifications :
           ledger[s].status # "none" =>
              Strictness(NextGuidance(s, classification))
                <= Strictness(NextGuidance(s, classification)')]_ledgerVars
  BY <1>1
<1>3. QED
  BY <1>2, InvAlways, PTL DEF LedgerSpec, GuidanceNeverRelaxes

=============================================================================
