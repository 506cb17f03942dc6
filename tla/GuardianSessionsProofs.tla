----------------------- MODULE GuardianSessionsProofs -----------------------
(***************************************************************************)
(* What holds of GuardianSessions for any number of sessions and calls and *)
(* any ordered thresholds, however calls overlap and whichever of their    *)
(* transactions fail.  The proof is the usual one: GuardianInv holds       *)
(* initially, every step keeps it, and the properties are conjuncts of it. *)
(***************************************************************************)
EXTENDS GuardianSessions, FiniteSetTheorems, TLAPS

(***************************************************************************)
(* Lemmas about the policy and about counting rows.                        *)
(***************************************************************************)

\* Every question is given one of the four guidance levels.
LEMMA GuidanceInRange ==
  ASSUME NEW classification, NEW qc \in Nat, NEW vc \in Nat, NEW esc \in BOOLEAN
  PROVE  DeriveGuidanceLevel(classification, qc, vc, esc) \in GuidanceLevels
<1>1. Throttle(qc, vc) \in GuidanceLevels
  BY ThresholdsAssumption DEF Throttle, GuidanceLevels, ThresholdsAssumption
<1>2. QED
  BY <1>1 DEF DeriveGuidanceLevel, GuidanceLevels

\* Escalation asks for EscalateAt counted violations and is never withdrawn.
LEMMA EscalatesAfterEarned ==
  ASSUME NEW esc \in BOOLEAN, NEW vc \in Nat
  PROVE  /\ EscalatesAfter(esc, vc) \in BOOLEAN
         /\ EscalatesAfter(esc, vc) => esc \/ vc >= EscalateAt
         /\ esc => EscalatesAfter(esc, vc)
BY ThresholdsAssumption DEF EscalatesAfter, ThresholdsAssumption

\* The rows of one session, once a row is added to a table that is finite.
LEMMA RowsOfSession ==
  ASSUME NEW table, IsFiniteSet(table), NEW row, row \notin table, NEW s
  PROVE  /\ IsFiniteSet(table \cup {row})
         /\ Cardinality(RowsOf(table, s)) \in Nat
         /\ row.session = s =>
              Cardinality(RowsOf(table \cup {row}, s)) = Cardinality(RowsOf(table, s)) + 1
         /\ row.session # s =>
              Cardinality(RowsOf(table \cup {row}, s)) = Cardinality(RowsOf(table, s))
<1>1. IsFiniteSet(RowsOf(table, s))
  BY FS_Subset DEF RowsOf
<1>2. Cardinality(RowsOf(table, s)) \in Nat
  BY <1>1, FS_CardinalityType
<1>3. IsFiniteSet(table \cup {row})
  BY FS_AddElement
<1>4. ASSUME row.session = s
      PROVE  Cardinality(RowsOf(table \cup {row}, s)) = Cardinality(RowsOf(table, s)) + 1
  <2>1. RowsOf(table \cup {row}, s) = RowsOf(table, s) \cup {row}
    BY <1>4 DEF RowsOf
  <2>2. row \notin RowsOf(table, s)
    BY DEF RowsOf
  <2>3. QED
    BY <1>1, <2>1, <2>2, FS_AddElement
<1>5. ASSUME row.session # s
      PROVE  RowsOf(table \cup {row}, s) = RowsOf(table, s)
  BY <1>5 DEF RowsOf
<1>6. QED
  BY <1>2, <1>3, <1>4, <1>5

\* The counts the invariant compares are numbers.
LEMMA RowCounts ==
  ASSUME NotYetFiled, NEW s
  PROVE  /\ Cardinality(QuestionsOf(s)) \in Nat
         /\ Cardinality(ViolationsOf(s)) \in Nat
<1>1. IsFiniteSet(QuestionsOf(s)) /\ IsFiniteSet(ViolationsOf(s))
  BY FS_Subset DEF NotYetFiled, QuestionsOf, ViolationsOf, RowsOf
<1>2. QED
  BY <1>1, FS_CardinalityType

-----------------------------------------------------------------------------

\* Nothing is filed and nothing counted before the first session starts.
LEMMA InitEstablishesInv == GuardianInit => GuardianInv
<1> SUFFICES ASSUME GuardianInit PROVE GuardianInv
  OBVIOUS
<1> USE DEF GuardianInit, NoRow, NoCall
<1>1. GuardianTypeOK
  BY DEF GuardianTypeOK, SessionRow, Statuses, CallState, CallPoints
<1>2. CallWellFormed
  BY DEF CallWellFormed
<1>3. NotYetFiled
  BY FS_EmptySet DEF NotYetFiled
<1>4. CopiesBacked
  BY DEF CopiesBacked
<1>5. OwnRowsFiled
  BY DEF OwnRowsFiled, Ended
<1>6. NeverOvercounts
  <2>1. \A s : QuestionsOf(s) = {} /\ ViolationsOf(s) = {}
    BY DEF QuestionsOf, ViolationsOf, RowsOf
  <2>2. \A s : Cardinality(QuestionsOf(s)) = 0 /\ Cardinality(ViolationsOf(s)) = 0
    BY <2>1, FS_EmptySet
  <2>3. \A s \in Sessions : sessions[s].question_count = 0 /\ sessions[s].violation_count = 0
    OBVIOUS
  <2>4. ASSUME NEW s \in Sessions
        PROVE  /\ sessions[s].question_count <= Cardinality(QuestionsOf(s))
               /\ sessions[s].violation_count <= Cardinality(ViolationsOf(s))
    <3>1. 0 <= 0
      OBVIOUS
    <3>2. QED
      BY <2>2, <2>3, <3>1
  <2>5. QED
    BY <2>4 DEF NeverOvercounts
<1>7. EscalationEarned
  BY DEF EscalationEarned
<1>8. AuditComplete
  BY DEF AuditComplete
<1>9. QED
  BY <1>1, <1>2, <1>3, <1>4, <1>5, <1>6, <1>7, <1>8 DEF GuardianInv

-----------------------------------------------------------------------------

\* A step that only moves one call on to the state st keeps the invariant if
\* st claims no row it has not filed and no count that is not backed.
LEMMA CallOnlyStep ==
  ASSUME GuardianInv, NEW c \in Calls, NEW st \in CallState,
         call' = [call EXCEPT ![c] = st],
         UNCHANGED <<sessions, questions, violations>>,
         st.session \in Sessions,
         st.pc \in {"read", "classify", "violation", "question", "raised"},
         st.pc \in {"violation", "question"} => st.classification \in Classifications,
         st.pc = "question" => ~IsViolation(st.classification),
         st.pc = "read" => ~st.escalated,
         st.pc = "raised" \/ call[c].pc \in {"idle", "read", "classify"},
         st.pc \in {"classify", "violation", "question"} =>
           /\ st.question_count <= Cardinality(QuestionsOf(st.session)) + 1
           /\ st.violation_count <= Cardinality(ViolationsOf(st.session)),
         st.escalated => Cardinality(ViolationsOf(st.session)) >= EscalateAt
  PROVE  GuardianInv'
<1>1. call'[c] = st /\ \A d \in Calls : d # c => call'[d] = call[d]
  BY DEF GuardianInv, GuardianTypeOK
<1>2. \A s : QuestionsOf(s)' = QuestionsOf(s) /\ ViolationsOf(s)' = ViolationsOf(s)
  BY DEF QuestionsOf, ViolationsOf, RowsOf
<1>3. GuardianTypeOK'
  BY DEF GuardianInv, GuardianTypeOK
<1>4. CallWellFormed'
  BY <1>1 DEF GuardianInv, CallWellFormed
<1>5. NotYetFiled'
  <2>1. \A q \in questions : q.question_id \in Calls
    BY DEF GuardianInv, GuardianTypeOK, QuestionRow
  <2>2. \A v \in violations : v.question_id \in Calls
    BY DEF GuardianInv, GuardianTypeOK, ViolationRow
  <2>3. QED
    BY <1>1, <2>1, <2>2 DEF GuardianInv, NotYetFiled, Ended
<1>6. CopiesBacked'
  BY <1>1, <1>2 DEF GuardianInv, CopiesBacked
<1>7. OwnRowsFiled'
  BY <1>1 DEF GuardianInv, OwnRowsFiled
<1>8. NeverOvercounts'
  BY <1>2 DEF GuardianInv, NeverOvercounts
<1>9. EscalationEarned'
  BY <1>1, <1>2 DEF GuardianInv, EscalationEarned
<1>10. AuditComplete'
  <2>1. \A q \in questions' : q.violation => \E v \in violations' :
          v.question_id = q.question_id /\ v.sequence_number = q.sequence_number
    BY DEF GuardianInv, AuditComplete
  <2>2. ASSUME NEW d \in Calls, call'[d].pc = "returned"
        PROVE  \E q \in questions' : /\ q.question_id = d
                                     /\ q.session = call'[d].session
                                     /\ q.classification = call'[d].classification
    BY <1>7, <2>2 DEF OwnRowsFiled
  <2>3. QED
    BY <2>1, <2>2 DEF AuditComplete
<1>11. QED
  BY <1>3, <1>4, <1>5, <1>6, <1>7, <1>8, <1>9, <1>10 DEF GuardianInv

LEMMA CallValidateKeepsInv ==
  ASSUME GuardianInv, NEW c \in Calls, NEW s \in Sessions, CallValidate(c, s)
  PROVE  GuardianInv'
<1> DEFINE st == [call[c] EXCEPT !.pc = "read", !.session = s]
<1>1. call[c] \in CallState
  BY DEF GuardianInv, GuardianTypeOK
<1>2. call' = [call EXCEPT ![c] = st] /\ UNCHANGED <<sessions, questions, violations>>
  BY <1>1 DEF CallValidate, GuardianInv, GuardianTypeOK
<1>3. /\ st \in CallState
      /\ st.session \in Sessions
      /\ st.pc = "read"
      /\ st.escalated = call[c].escalated
  BY <1>1 DEF CallState, CallPoints
<1>4. call[c].pc = "idle" /\ ~st.escalated
  BY <1>3 DEF CallValidate, GuardianInv, CallWellFormed
<1>5. QED
  <2> HIDE DEF st
  <2>1. QED
    BY <1>2, <1>3, <1>4, CallOnlyStep

\* What get_session leaves in the call's local variables.
LEMMA LoadedCopies ==
  ASSUME NEW before \in CallState, NEW row \in SessionRow
  PROVE  /\ Loaded(before, row) \in CallState
         /\ Loaded(before, row).session = before.session
         /\ Loaded(before, row).pc = "classify"
         /\ Loaded(before, row).question_count = row.question_count + 1
         /\ Loaded(before, row).violation_count = row.violation_count
         /\ Loaded(before, row).escalated = row.escalated
<1>1. row.question_count + 1 \in Nat /\ row.violation_count \in Nat /\ row.escalated \in BOOLEAN
  BY DEF SessionRow
<1>2. Loaded(before, row) \in CallState
  <2>1. \A qc \in Nat, vc \in Nat, esc \in BOOLEAN :
          [before EXCEPT !.pc = "classify", !.question_count = qc,
                         !.violation_count = vc, !.escalated = esc] \in CallState
    BY DEF CallState, CallPoints
  <2>2. QED
    BY <1>1, <2>1 DEF Loaded
<1>3. QED
  BY <1>2 DEF Loaded, CallState

LEMMA ReadSessionKeepsInv ==
  ASSUME GuardianInv, NEW c \in Calls, ReadSession(c)
  PROVE  GuardianInv'
<1> DEFINE s  == call[c].session
           st == Loaded(call[c], sessions[s])
<1>1. call[c] \in CallState /\ call[c].pc = "read" /\ s \in Sessions
  BY DEF ReadSession, GuardianInv, GuardianTypeOK, CallWellFormed
<1>2. sessions[s] \in SessionRow
  BY <1>1 DEF GuardianInv, GuardianTypeOK
<1>3. call' = [call EXCEPT ![c] = st] /\ UNCHANGED <<sessions, questions, violations>>
  BY DEF ReadSession
<1>4. /\ st \in CallState
      /\ st.session = s
      /\ st.pc = "classify"
      /\ st.question_count = sessions[s].question_count + 1
      /\ st.violation_count = sessions[s].violation_count
      /\ st.escalated = sessions[s].escalated
  BY <1>1, <1>2, LoadedCopies
<1>5. /\ sessions[s].question_count <= Cardinality(QuestionsOf(s))
      /\ sessions[s].violation_count <= Cardinality(ViolationsOf(s))
      /\ sessions[s].escalated => Cardinality(ViolationsOf(s)) >= EscalateAt
  BY <1>1 DEF GuardianInv, NeverOvercounts, EscalationEarned
<1>6. /\ Cardinality(QuestionsOf(s)) \in Nat
      /\ Cardinality(ViolationsOf(s)) \in Nat
      /\ sessions[s].question_count \in Nat
  BY <1>2, RowCounts DEF GuardianInv, SessionRow
<1>7. st.question_count <= Cardinality(QuestionsOf(s)) + 1
  BY <1>4, <1>5, <1>6
<1>8. QED
  <2> HIDE DEF s, st
  <2>1. QED
    BY <1>1, <1>3, <1>4, <1>5, <1>7, CallOnlyStep

LEMMA ReadClosedSessionKeepsInv ==
  ASSUME GuardianInv, NEW c \in Calls, ReadClosedSession(c)
  PROVE  GuardianInv'
<1> DEFINE st == [call[c] EXCEPT !.pc = "raised"]
<1>1. call[c] \in CallState /\ call[c].pc = "read" /\ call[c].session \in Sessions
  BY DEF ReadClosedSession, GuardianInv, GuardianTypeOK, CallWellFormed
<1>2. call' = [call EXCEPT ![c] = st] /\ UNCHANGED <<sessions, questions, violations>>
  BY <1>1 DEF ReadClosedSession, GuardianInv, GuardianTypeOK
<1>3. /\ st \in CallState
      /\ st.session \in Sessions
      /\ st.pc = "raised"
      /\ ~st.escalated
  BY <1>1 DEF CallState, CallPoints, GuardianInv, CallWellFormed
<1>4. QED
  <2> HIDE DEF st
  <2>1. QED
    BY <1>2, <1>3, CallOnlyStep

LEMMA ClassifyKeepsInv ==
  ASSUME GuardianInv, NEW c \in Calls, Classify(c)
  PROVE  GuardianInv'
<1>1. PICK answer \in Verdicts \cup {"error"} :
        call' = [call EXCEPT ![c].pc = IF IsViolation(ClassificationOf(answer))
                                       THEN "violation" ELSE "question",
                             ![c].classifier = answer,
                             ![c].classification = ClassificationOf(answer)]
  BY DEF Classify
<1> DEFINE classification == ClassificationOf(answer)
           point == IF IsViolation(classification) THEN "violation" ELSE "question"
           st == [call[c] EXCEPT !.pc = point, !.classifier = answer,
                                 !.classification = classification]
<1>2. /\ call[c] \in CallState
      /\ call[c].pc = "classify"
      /\ call[c].session \in Sessions
  BY DEF Classify, GuardianInv, GuardianTypeOK, CallWellFormed
<1>3. call' = [call EXCEPT ![c] = st] /\ UNCHANGED <<sessions, questions, violations>>
  BY <1>1, <1>2 DEF Classify, GuardianInv, GuardianTypeOK
<1>4. /\ answer \in Classifications \cup {"none", "error"}
      /\ classification \in Classifications
  BY GuardianAssumption DEF GuardianAssumption, ClassificationOf, Classifications
<1>5. /\ point \in {"violation", "question"}
      /\ point = "question" => ~IsViolation(classification)
  OBVIOUS
<1>6. /\ st \in CallState
      /\ st.session = call[c].session
      /\ st.pc = point
      /\ st.classification = classification
      /\ st.question_count = call[c].question_count
      /\ st.violation_count = call[c].violation_count
      /\ st.escalated = call[c].escalated
  <2> HIDE DEF point, classification
  <2>1. point \in CallPoints
    BY <1>5 DEF CallPoints
  <2>2. QED
    BY <1>2, <1>4, <2>1 DEF CallState
<1>7. /\ call[c].question_count <= Cardinality(QuestionsOf(call[c].session)) + 1
      /\ call[c].violation_count <= Cardinality(ViolationsOf(call[c].session))
      /\ call[c].escalated => Cardinality(ViolationsOf(call[c].session)) >= EscalateAt
  BY <1>2 DEF GuardianInv, CopiesBacked, EscalationEarned
<1>8. QED
  <2> HIDE DEF st, point, classification
  <2>1. QED
    BY <1>2, <1>3, <1>4, <1>5, <1>6, <1>7, CallOnlyStep

LEMMA RaisingKeepsInv ==
  ASSUME GuardianInv, NEW c \in Calls, RecordFails(c) \/ StoreFails(c)
  PROVE  GuardianInv'
<1> DEFINE st == [call[c] EXCEPT !.pc = "raised"]
<1>1. /\ call[c] \in CallState
      /\ call[c].pc \in {"read", "violation", "question", "counters"}
      /\ call[c].session \in Sessions
  BY DEF RecordFails, StoreFails, GuardianInv, GuardianTypeOK, CallWellFormed
<1>2. call' = [call EXCEPT ![c] = st] /\ UNCHANGED <<sessions, questions, violations>>
  BY <1>1 DEF RecordFails, StoreFails, GuardianInv, GuardianTypeOK
<1>3. /\ st \in CallState
      /\ st.session = call[c].session
      /\ st.pc = "raised"
      /\ st.escalated = call[c].escalated
  BY <1>1 DEF CallState, CallPoints
<1>4. call[c].escalated => Cardinality(ViolationsOf(call[c].session)) >= EscalateAt
  BY DEF GuardianInv, EscalationEarned
<1>5. QED
  <2> HIDE DEF st
  <2>1. QED
    BY <1>1, <1>2, <1>3, <1>4, CallOnlyStep

-----------------------------------------------------------------------------

\* A step that changes one session's row and no call keeps the invariant if
\* the new row is backed by the rows on file.
LEMMA RowOnlyStep ==
  ASSUME GuardianInv, NEW s \in Sessions, NEW row \in SessionRow,
         sessions' = [sessions EXCEPT ![s] = row],
         UNCHANGED <<questions, violations, call>>,
         row.question_count <= Cardinality(QuestionsOf(s)),
         row.violation_count <= Cardinality(ViolationsOf(s)),
         row.escalated => Cardinality(ViolationsOf(s)) >= EscalateAt
  PROVE  GuardianInv'
<1>1. sessions'[s] = row /\ \A t \in Sessions : t # s => sessions'[t] = sessions[t]
  BY DEF GuardianInv, GuardianTypeOK
<1>2. \A t : QuestionsOf(t)' = QuestionsOf(t) /\ ViolationsOf(t)' = ViolationsOf(t)
  BY DEF QuestionsOf, ViolationsOf, RowsOf
<1>3. GuardianTypeOK'
  BY DEF GuardianInv, GuardianTypeOK
<1>4. CallWellFormed' /\ NotYetFiled' /\ OwnRowsFiled' /\ AuditComplete'
  BY DEF GuardianInv, CallWellFormed, NotYetFiled, OwnRowsFiled, AuditComplete
<1>5. CopiesBacked'
  BY <1>2 DEF GuardianInv, CopiesBacked
<1>6. NeverOvercounts'
  BY <1>1, <1>2 DEF GuardianInv, NeverOvercounts
<1>7. EscalationEarned'
  BY <1>1, <1>2 DEF GuardianInv, EscalationEarned
<1>8. QED
  BY <1>3, <1>4, <1>5, <1>6, <1>7 DEF GuardianInv

LEMMA SessionStartKeepsInv ==
  ASSUME GuardianInv, NEW s \in Sessions, SessionStart(s)
  PROVE  GuardianInv'
<1> DEFINE row == [NoRow EXCEPT !.status = "active"]
<1>1. /\ row \in SessionRow
      /\ row.question_count = 0
      /\ row.violation_count = 0
      /\ ~row.escalated
  BY DEF NoRow, SessionRow, Statuses
<1>2. Cardinality(QuestionsOf(s)) >= 0 /\ Cardinality(ViolationsOf(s)) >= 0
  BY RowCounts DEF GuardianInv
<1>3. sessions' = [sessions EXCEPT ![s] = row] /\ UNCHANGED <<questions, violations, call>>
  BY DEF SessionStart
<1>4. QED
  <2> HIDE DEF row
  <2>1. QED
    BY <1>1, <1>2, <1>3, RowOnlyStep

LEMMA SessionEndKeepsInv ==
  ASSUME GuardianInv, NEW s \in Sessions, SessionEnd(s)
  PROVE  GuardianInv'
<1> DEFINE row == [sessions[s] EXCEPT !.status = "closed"]
<1>1. sessions[s] \in SessionRow
  BY DEF GuardianInv, GuardianTypeOK
<1>2. /\ row \in SessionRow
      /\ row.question_count = sessions[s].question_count
      /\ row.violation_count = sessions[s].violation_count
      /\ row.escalated = sessions[s].escalated
  BY <1>1 DEF SessionRow, Statuses
<1>3. /\ sessions[s].question_count <= Cardinality(QuestionsOf(s))
      /\ sessions[s].violation_count <= Cardinality(ViolationsOf(s))
      /\ sessions[s].escalated => Cardinality(ViolationsOf(s)) >= EscalateAt
  BY DEF GuardianInv, NeverOvercounts, EscalationEarned
<1>4. sessions' = [sessions EXCEPT ![s] = row] /\ UNCHANGED <<questions, violations, call>>
  BY DEF SessionEnd, GuardianInv, GuardianTypeOK
<1>5. QED
  <2> HIDE DEF row
  <2>1. QED
    BY <1>2, <1>3, <1>4, RowOnlyStep

-----------------------------------------------------------------------------

\* Filing a violation backs the count and the escalation the call now holds.
LEMMA InsertViolationKeepsInv ==
  ASSUME GuardianInv, NEW c \in Calls, InsertViolation(c)
  PROVE  GuardianInv'
<1> DEFINE s   == call[c].session
           st  == Offended(call[c])
           row == [question_id |-> c, session |-> s,
                   sequence_number |-> call[c].question_count]
<1>1. /\ call[c] \in CallState
      /\ call[c].pc = "violation"
      /\ s \in Sessions
      /\ call[c].classification \in Classifications
      /\ call[c].question_count \in Nat
      /\ call[c].violation_count \in Nat
      /\ call[c].escalated \in BOOLEAN
  BY DEF InsertViolation, GuardianInv, GuardianTypeOK, CallWellFormed, CallState
<1>2. /\ st \in CallState
      /\ st.pc = "question"
      /\ st.session = s
      /\ st.classification = call[c].classification
      /\ st.question_count = call[c].question_count
      /\ st.violation_count = call[c].violation_count + 1
      /\ st.escalated => call[c].escalated \/ call[c].violation_count + 1 >= EscalateAt
  <2>1. call[c].violation_count + 1 \in Nat
    BY <1>1
  <2>2. /\ EscalatesAfter(call[c].escalated, call[c].violation_count + 1) \in BOOLEAN
        /\ EscalatesAfter(call[c].escalated, call[c].violation_count + 1) =>
             call[c].escalated \/ call[c].violation_count + 1 >= EscalateAt
    BY <1>1, <2>1, EscalatesAfterEarned
  <2>3. \A vc \in Nat, esc \in BOOLEAN :
          [call[c] EXCEPT !.pc = "question", !.violation_count = vc,
                          !.escalated = esc] \in CallState
    BY <1>1 DEF CallState, CallPoints
  <2>4. st \in CallState
    BY <2>1, <2>2, <2>3 DEF Offended
  <2>5. QED
    BY <1>1, <2>2, <2>4 DEF Offended, CallState
<1>3. /\ call' = [call EXCEPT ![c] = st]
      /\ violations' = violations \cup {row}
      /\ UNCHANGED <<sessions, questions>>
  BY DEF InsertViolation, ViolationRowsOf
<1>4. call'[c] = st /\ \A d \in Calls : d # c => call'[d] = call[d]
  BY <1>3 DEF GuardianInv, GuardianTypeOK
<1>5. row \notin violations
  BY <1>1 DEF GuardianInv, NotYetFiled, Ended
<1>6. IsFiniteSet(violations)
  BY DEF GuardianInv, NotYetFiled
<1>7. questions' = questions /\ \A t : Cardinality(RowsOf(questions, t)) \in Nat
  BY <1>3, RowCounts DEF QuestionsOf, GuardianInv
<1>8. /\ IsFiniteSet(violations')
      /\ \A t : Cardinality(RowsOf(violations, t)) \in Nat
      /\ Cardinality(RowsOf(violations', s)) = Cardinality(RowsOf(violations, s)) + 1
      /\ \A t : t # s => Cardinality(RowsOf(violations', t)) = Cardinality(RowsOf(violations, t))
  <2>1. row.session = s
    OBVIOUS
  <2> HIDE DEF row, s
  <2>2. QED
    BY <1>3, <1>5, <1>6, <2>1, RowsOfSession
<1>9. \A t : /\ Cardinality(RowsOf(violations, t)) \in Nat
             /\ Cardinality(RowsOf(violations', t)) \in Nat
             /\ Cardinality(RowsOf(violations', t)) >= Cardinality(RowsOf(violations, t))
  <2> HIDE DEF s
  <2>1. QED
    BY <1>8
<1> HIDE DEF st
<1>10. GuardianTypeOK'
  <2>1. row \in ViolationRow
    BY <1>1 DEF ViolationRow
  <2>2. QED
    BY <1>2, <1>3, <2>1 DEF GuardianInv, GuardianTypeOK
<1>11. CallWellFormed'
  BY <1>1, <1>2, <1>4 DEF GuardianInv, CallWellFormed
<1>12. NotYetFiled'
  <2>1. \A q \in questions : q.question_id # c
    BY <1>1 DEF GuardianInv, NotYetFiled, Ended
  <2>2. \A q \in questions : q.question_id \in Calls
    BY DEF GuardianInv, GuardianTypeOK, QuestionRow
  <2>3. \A v \in violations : v.question_id \in Calls
    BY DEF GuardianInv, GuardianTypeOK, ViolationRow
  <2>4. \A q \in questions' : call'[q.question_id].pc \in {"counters"} \cup Ended
    BY <1>3, <1>4, <2>1, <2>2 DEF GuardianInv, NotYetFiled
  <2>5. \A v \in violations' : call'[v.question_id].pc \in {"question", "counters"} \cup Ended
    BY <1>2, <1>3, <1>4, <2>3 DEF GuardianInv, NotYetFiled
  <2>6. QED
    BY <1>3, <1>8, <2>4, <2>5 DEF GuardianInv, NotYetFiled
<1>13. CopiesBacked'
  <2> SUFFICES ASSUME NEW d \in Calls
      PROVE  /\ call'[d].pc \in {"classify", "violation", "question"} =>
                  call'[d].question_count
                    <= Cardinality(RowsOf(questions', call'[d].session)) + 1
             /\ call'[d].pc = "counters" =>
                  call'[d].question_count
                    <= Cardinality(RowsOf(questions', call'[d].session))
             /\ call'[d].pc \in {"classify", "violation", "question", "counters"} =>
                  call'[d].violation_count
                    <= Cardinality(RowsOf(violations', call'[d].session))
    BY DEF CopiesBacked, QuestionsOf, ViolationsOf
  <2>1. CASE d = c
    <3>1. /\ call[c].question_count <= Cardinality(RowsOf(questions, s)) + 1
          /\ call[c].violation_count <= Cardinality(RowsOf(violations, s))
      BY <1>1 DEF GuardianInv, CopiesBacked, QuestionsOf, ViolationsOf
    <3>2. call[c].violation_count + 1 <= Cardinality(RowsOf(violations', s))
      BY <1>1, <1>8, <3>1
    <3>3. QED
      BY <1>2, <1>4, <1>7, <2>1, <3>1, <3>2
  <2>2. CASE d # c
    <3>1. call'[d] = call[d]
      BY <1>4, <2>2
    <3>2. call[d].violation_count \in Nat
      BY DEF GuardianInv, GuardianTypeOK, CallState
    <3>3. call[d].pc \in {"classify", "violation", "question", "counters"}
            => call[d].violation_count <= Cardinality(RowsOf(violations, call[d].session))
      BY DEF GuardianInv, CopiesBacked, QuestionsOf, ViolationsOf
    <3>4. call[d].pc \in {"classify", "violation", "question", "counters"}
            => call[d].violation_count <= Cardinality(RowsOf(violations', call[d].session))
      BY <1>9, <3>2, <3>3
    <3>5. QED
      BY <1>7, <3>1, <3>4 DEF GuardianInv, CopiesBacked, QuestionsOf, ViolationsOf
  <2>3. QED
    BY <2>1, <2>2
<1>14. OwnRowsFiled'
  <2>1. row \in violations' /\ row.question_id = c
          /\ row.sequence_number = call[c].question_count
    BY <1>3
  <2> SUFFICES ASSUME NEW d \in Calls
      PROVE  /\ call'[d].pc \in {"question", "counters", "returned"}
                  /\ IsViolation(call'[d].classification)
                  => \E v \in violations' :
                       v.question_id = d /\ v.sequence_number = call'[d].question_count
             /\ call'[d].pc \in {"counters", "returned"}
                  => \E q \in questions' : /\ q.question_id = d
                                           /\ q.session = call'[d].session
                                           /\ q.classification = call'[d].classification
    BY DEF OwnRowsFiled
  <2>2. CASE d = c
    BY <1>2, <1>4, <2>1, <2>2
  <2>3. CASE d # c
    BY <1>3, <1>4, <2>3 DEF GuardianInv, OwnRowsFiled
  <2>4. QED
    BY <2>2, <2>3
<1>15. NeverOvercounts'
  <2>1. \A t \in Sessions :
          /\ sessions[t].question_count <= Cardinality(RowsOf(questions, t))
          /\ sessions[t].violation_count <= Cardinality(RowsOf(violations, t))
          /\ sessions[t].violation_count \in Nat
    BY DEF GuardianInv, NeverOvercounts, QuestionsOf, ViolationsOf, GuardianTypeOK, SessionRow
  <2>2. \A t \in Sessions : sessions[t].violation_count <= Cardinality(RowsOf(violations', t))
    BY <1>9, <2>1
  <2>3. QED
    BY <1>3, <1>7, <2>1, <2>2 DEF NeverOvercounts, QuestionsOf, ViolationsOf
<1>16. EscalationEarned'
  <2>1. EscalateAt \in Nat
    BY ThresholdsAssumption DEF ThresholdsAssumption
  <2>2. \A t \in Sessions : sessions[t].escalated => Cardinality(RowsOf(violations', t)) >= EscalateAt
    BY <1>9, <2>1 DEF GuardianInv, EscalationEarned, QuestionsOf, ViolationsOf
  <2>3. \A d \in Calls : call[d].escalated =>
          Cardinality(RowsOf(violations', call[d].session)) >= EscalateAt
    BY <1>9, <2>1 DEF GuardianInv, EscalationEarned, QuestionsOf, ViolationsOf
  <2>4. st.escalated => Cardinality(RowsOf(violations', s)) >= EscalateAt
    <3>1. call[c].violation_count <= Cardinality(RowsOf(violations, s))
      BY <1>1 DEF GuardianInv, CopiesBacked, QuestionsOf, ViolationsOf
    <3>2. call[c].violation_count + 1 <= Cardinality(RowsOf(violations', s))
      BY <1>1, <1>8, <3>1
    <3>3. Cardinality(RowsOf(violations', s)) \in Nat
      BY <1>8
    <3>4. CASE call[c].escalated
      BY <2>3, <3>4
    <3>5. CASE call[c].violation_count + 1 >= EscalateAt
      BY <1>1, <2>1, <3>2, <3>3, <3>5
    <3>6. QED
      BY <1>2, <3>4, <3>5
  <2>5. \A d \in Calls : call'[d].escalated =>
          Cardinality(RowsOf(violations', call'[d].session)) >= EscalateAt
    <3>1. ASSUME NEW d \in Calls, d # c
          PROVE  call'[d] = call[d]
      BY <1>4, <3>1
    <3>2. call'[c] = st /\ st.session = s
      BY <1>2, <1>4
    <3>3. QED
      BY <2>3, <2>4, <3>1, <3>2
  <2>6. sessions' = sessions
    BY <1>3
  <2>7. QED
    BY <2>2, <2>5, <2>6 DEF EscalationEarned, ViolationsOf
<1>17. AuditComplete'
  <2>1. \A q \in questions' : q.violation => \E v \in violations' :
          v.question_id = q.question_id /\ v.sequence_number = q.sequence_number
    BY <1>3 DEF GuardianInv, AuditComplete
  <2>2. \A d \in Calls : call'[d].pc = "returned" =>
          \E q \in questions' : /\ q.question_id = d
                                /\ q.session = call'[d].session
                                /\ q.classification = call'[d].classification
    BY <1>14 DEF OwnRowsFiled
  <2>3. QED
    BY <2>1, <2>2 DEF AuditComplete
<1>18. QED
  BY <1>10, <1>11, <1>12, <1>13, <1>14, <1>15, <1>16, <1>17 DEF GuardianInv

\* Filing a question backs the count the call is about to write; its
\* violation, if it is one, is on file already.
LEMMA InsertQuestionKeepsInv ==
  ASSUME GuardianInv, NEW c \in Calls, InsertQuestion(c)
  PROVE  GuardianInv'
<1> DEFINE s   == call[c].session
           st  == [call[c] EXCEPT !.pc = "counters"]
           row == [question_id |-> c, session |-> s,
                   sequence_number |-> call[c].question_count,
                   classification |-> call[c].classification,
                   violation |-> IsViolation(call[c].classification)]
<1>1. /\ call[c] \in CallState
      /\ call[c].pc = "question"
      /\ s \in Sessions
      /\ call[c].classification \in Classifications
      /\ call[c].question_count \in Nat
  BY DEF InsertQuestion, GuardianInv, GuardianTypeOK, CallWellFormed, CallState
<1>2. /\ st \in CallState
      /\ st.pc = "counters"
      /\ st.session = s
      /\ st.classification = call[c].classification
      /\ st.question_count = call[c].question_count
      /\ st.violation_count = call[c].violation_count
      /\ st.escalated = call[c].escalated
  BY <1>1 DEF CallState, CallPoints
<1>3. /\ call' = [call EXCEPT ![c] = st]
      /\ questions' = questions \cup {row}
      /\ UNCHANGED <<sessions, violations>>
  BY <1>1 DEF InsertQuestion, QuestionRowsOf, GuardianInv, GuardianTypeOK
<1>4. call'[c] = st /\ \A d \in Calls : d # c => call'[d] = call[d]
  BY <1>3 DEF GuardianInv, GuardianTypeOK
<1>5. row \notin questions
  BY <1>1 DEF GuardianInv, NotYetFiled, Ended
<1>6. IsFiniteSet(questions)
  BY DEF GuardianInv, NotYetFiled
<1>7. /\ IsFiniteSet(questions')
      /\ \A t : Cardinality(RowsOf(questions, t)) \in Nat
      /\ Cardinality(RowsOf(questions', s)) = Cardinality(RowsOf(questions, s)) + 1
      /\ \A t : t # s => Cardinality(RowsOf(questions', t)) = Cardinality(RowsOf(questions, t))
  <2>1. row.session = s
    OBVIOUS
  <2> HIDE DEF row, s
  <2>2. \A t : /\ IsFiniteSet(questions \cup {row})
               /\ Cardinality(RowsOf(questions, t)) \in Nat
               /\ row.session = t => Cardinality(RowsOf(questions \cup {row}, t))
                                        = Cardinality(RowsOf(questions, t)) + 1
               /\ row.session # t => Cardinality(RowsOf(questions \cup {row}, t))
                                        = Cardinality(RowsOf(questions, t))
    BY <1>5, <1>6, RowsOfSession
  <2>3. QED
    BY <1>3, <2>1, <2>2
<1>8. \A t : /\ Cardinality(RowsOf(questions, t)) \in Nat
             /\ Cardinality(RowsOf(questions', t)) \in Nat
             /\ Cardinality(RowsOf(questions', t)) >= Cardinality(RowsOf(questions, t))
  <2> HIDE DEF s
  <2>1. QED
    BY <1>7
<1> HIDE DEF st
<1>9. GuardianTypeOK'
  <2>1. IsViolation(call[c].classification) \in BOOLEAN
    BY DEF IsViolation
  <2>2. row \in QuestionRow
    BY <1>1, <2>1 DEF QuestionRow
  <2>3. QED
    BY <1>2, <1>3, <2>2 DEF GuardianInv, GuardianTypeOK
<1>10. CallWellFormed'
  BY <1>1, <1>2, <1>4 DEF GuardianInv, CallWellFormed
<1>11. NotYetFiled'
  <2>1. \A q \in questions : q.question_id \in Calls
    BY DEF GuardianInv, GuardianTypeOK, QuestionRow
  <2>2. \A v \in violations : v.question_id \in Calls
    BY DEF GuardianInv, GuardianTypeOK, ViolationRow
  <2>3. \A q \in questions' : call'[q.question_id].pc \in {"counters"} \cup Ended
    BY <1>2, <1>3, <1>4, <2>1 DEF GuardianInv, NotYetFiled
  <2>4. \A v \in violations' : call'[v.question_id].pc \in {"question", "counters"} \cup Ended
    BY <1>2, <1>3, <1>4, <2>2 DEF GuardianInv, NotYetFiled
  <2>5. QED
    BY <1>3, <1>7, <2>3, <2>4 DEF GuardianInv, NotYetFiled
<1>12. CopiesBacked'
  <2> SUFFICES ASSUME NEW d \in Calls
      PROVE  /\ call'[d].pc \in {"classify", "violation", "question"} =>
                  call'[d].question_count
                    <= Cardinality(RowsOf(questions', call'[d].session)) + 1
             /\ call'[d].pc = "counters" =>
                  call'[d].question_count
                    <= Cardinality(RowsOf(questions', call'[d].session))
             /\ call'[d].pc \in {"classify", "violation", "question", "counters"} =>
                  call'[d].violation_count
                    <= Cardinality(RowsOf(violations', call'[d].session))
    BY DEF CopiesBacked, QuestionsOf, ViolationsOf
  <2>1. CASE d = c
    <3>1. /\ call[c].question_count <= Cardinality(RowsOf(questions, s)) + 1
          /\ call[c].violation_count <= Cardinality(RowsOf(violations, s))
      BY <1>1 DEF GuardianInv, CopiesBacked, QuestionsOf, ViolationsOf
    <3>2. call[c].question_count <= Cardinality(RowsOf(questions', s))
      BY <1>7, <3>1
    <3>3. QED
      BY <1>2, <1>3, <1>4, <2>1, <3>1, <3>2
  <2>2. CASE d # c
    <3>1. call'[d] = call[d]
      BY <1>4, <2>2
    <3>2. call[d].question_count \in Nat
      BY DEF GuardianInv, GuardianTypeOK, CallState
    <3>3. /\ call[d].pc \in {"classify", "violation", "question"} =>
               call[d].question_count <= Cardinality(RowsOf(questions, call[d].session)) + 1
          /\ call[d].pc = "counters" =>
               call[d].question_count <= Cardinality(RowsOf(questions, call[d].session))
          /\ call[d].pc \in {"classify", "violation", "question", "counters"} =>
               call[d].violation_count <= Cardinality(RowsOf(violations, call[d].session))
      BY DEF GuardianInv, CopiesBacked, QuestionsOf, ViolationsOf
    <3>4. /\ Cardinality(RowsOf(questions, call[d].session)) \in Nat
          /\ Cardinality(RowsOf(questions', call[d].session)) \in Nat
          /\ Cardinality(RowsOf(questions', call[d].session))
               >= Cardinality(RowsOf(questions, call[d].session))
      BY <1>8
    <3>5. /\ call[d].pc \in {"classify", "violation", "question"} =>
               call[d].question_count <= Cardinality(RowsOf(questions', call[d].session)) + 1
          /\ call[d].pc = "counters" =>
               call[d].question_count <= Cardinality(RowsOf(questions', call[d].session))
      BY <3>2, <3>3, <3>4
    <3>6. QED
      BY <1>3, <3>1, <3>3, <3>5
  <2>3. QED
    BY <2>1, <2>2
<1>13. OwnRowsFiled'
  <2>1. /\ row \in questions'
        /\ row.question_id = c
        /\ row.session = s
        /\ row.classification = call[c].classification
    BY <1>3
  <2> SUFFICES ASSUME NEW d \in Calls
      PROVE  /\ call'[d].pc \in {"question", "counters", "returned"}
                  /\ IsViolation(call'[d].classification)
                  => \E v \in violations' :
                       v.question_id = d /\ v.sequence_number = call'[d].question_count
             /\ call'[d].pc \in {"counters", "returned"}
                  => \E q \in questions' : /\ q.question_id = d
                                           /\ q.session = call'[d].session
                                           /\ q.classification = call'[d].classification
    BY DEF OwnRowsFiled
  <2>2. CASE d = c
    <3>1. IsViolation(call[c].classification) => \E v \in violations :
            v.question_id = c /\ v.sequence_number = call[c].question_count
      BY <1>1 DEF GuardianInv, OwnRowsFiled
    <3> HIDE DEF row
    <3>2. QED
      BY <1>2, <1>3, <1>4, <2>1, <2>2, <3>1
  <2>3. CASE d # c
    BY <1>3, <1>4, <2>3 DEF GuardianInv, OwnRowsFiled
  <2>4. QED
    BY <2>2, <2>3
<1>14. NeverOvercounts'
  <2>1. \A t \in Sessions :
          /\ sessions[t].question_count <= Cardinality(RowsOf(questions, t))
          /\ sessions[t].violation_count <= Cardinality(RowsOf(violations, t))
          /\ sessions[t].question_count \in Nat
    BY DEF GuardianInv, NeverOvercounts, QuestionsOf, ViolationsOf, GuardianTypeOK, SessionRow
  <2>2. \A t \in Sessions : sessions[t].question_count <= Cardinality(RowsOf(questions', t))
    BY <1>8, <2>1
  <2>3. QED
    BY <1>3, <2>1, <2>2 DEF NeverOvercounts, QuestionsOf, ViolationsOf
<1>15. EscalationEarned'
  BY <1>2, <1>3, <1>4 DEF GuardianInv, EscalationEarned, ViolationsOf
<1>16. AuditComplete'
  <2>1. ASSUME NEW q \in questions', q.violation
        PROVE  \E v \in violations' :
                 v.question_id = q.question_id /\ v.sequence_number = q.sequence_number
    <3>1. CASE q \in questions
      BY <1>3, <2>1, <3>1 DEF GuardianInv, AuditComplete
    <3>2. CASE q = row
      BY <1>1, <1>3, <2>1, <3>2 DEF GuardianInv, OwnRowsFiled
    <3>3. QED
      BY <1>3, <3>1, <3>2
  <2>2. \A d \in Calls : call'[d].pc = "returned" =>
          \E q \in questions' : /\ q.question_id = d
                                /\ q.session = call'[d].session
                                /\ q.classification = call'[d].classification
    BY <1>13 DEF OwnRowsFiled
  <2>3. QED
    BY <2>1, <2>2 DEF AuditComplete
<1>17. QED
  BY <1>9, <1>10, <1>11, <1>12, <1>13, <1>14, <1>15, <1>16 DEF GuardianInv

\* The counters a call writes over the row are backed, however stale.
LEMMA UpdateCountersKeepsInv ==
  ASSUME GuardianInv, NEW c \in Calls, UpdateCounters(c)
  PROVE  GuardianInv'
<1> DEFINE s     == call[c].session
           level == GuidanceOf(call[c])
           st    == [call[c] EXCEPT !.pc = "returned", !.guidance = level]
           row   == Stored(sessions[s], call[c])
<1>1. /\ call[c] \in CallState
      /\ call[c].pc = "counters"
      /\ s \in Sessions
      /\ call[c].classification \in Classifications
      /\ call[c].question_count \in Nat
      /\ call[c].violation_count \in Nat
      /\ call[c].escalated \in BOOLEAN
  BY DEF UpdateCounters, GuardianInv, GuardianTypeOK, CallWellFormed, CallState
<1>2. level \in GuidanceLevels
  BY <1>1, GuidanceInRange DEF GuidanceOf
<1>3. /\ st \in CallState
      /\ st.pc = "returned"
      /\ st.session = s
      /\ st.classification = call[c].classification
      /\ st.question_count = call[c].question_count
      /\ st.escalated = call[c].escalated
  <2> HIDE DEF level
  <2>1. QED
    BY <1>1, <1>2 DEF CallState, CallPoints
<1>4. /\ row \in SessionRow
      /\ row.question_count = call[c].question_count
      /\ row.violation_count = call[c].violation_count
      /\ row.escalated = call[c].escalated
  <2>1. sessions[s] \in SessionRow
    BY <1>1 DEF GuardianInv, GuardianTypeOK
  <2>2. QED
    BY <1>1, <2>1 DEF Stored, SessionRow
<1>5. /\ sessions' = [sessions EXCEPT ![s] = row]
      /\ UNCHANGED <<questions, violations>>
  BY DEF UpdateCounters
<1>6. call' = [call EXCEPT ![c] = st]
  BY <1>1 DEF UpdateCounters, GuardianInv, GuardianTypeOK
<1> HIDE DEF st, row, level
<1>7. call'[c] = st /\ \A d \in Calls : d # c => call'[d] = call[d]
  BY <1>6 DEF GuardianInv, GuardianTypeOK
<1>8. sessions'[s] = row /\ \A t \in Sessions : t # s => sessions'[t] = sessions[t]
  BY <1>1, <1>5 DEF GuardianInv, GuardianTypeOK
<1>9. GuardianTypeOK'
  BY <1>3, <1>4, <1>5, <1>6 DEF GuardianInv, GuardianTypeOK
<1>10. CallWellFormed'
  BY <1>1, <1>3, <1>7 DEF GuardianInv, CallWellFormed
<1>11. NotYetFiled'
  <2>1. \A q \in questions : q.question_id \in Calls
    BY DEF GuardianInv, GuardianTypeOK, QuestionRow
  <2>2. \A v \in violations : v.question_id \in Calls
    BY DEF GuardianInv, GuardianTypeOK, ViolationRow
  <2>3. QED
    BY <1>3, <1>5, <1>7, <2>1, <2>2 DEF GuardianInv, NotYetFiled, Ended
<1>12. CopiesBacked'
  BY <1>3, <1>5, <1>7 DEF GuardianInv, CopiesBacked, QuestionsOf, ViolationsOf
<1>13. OwnRowsFiled'
  BY <1>1, <1>3, <1>5, <1>7 DEF GuardianInv, OwnRowsFiled
<1>14. NeverOvercounts'
  <2>1. /\ call[c].question_count <= Cardinality(RowsOf(questions, s))
        /\ call[c].violation_count <= Cardinality(RowsOf(violations, s))
    BY <1>1 DEF GuardianInv, CopiesBacked, QuestionsOf, ViolationsOf
  <2> HIDE DEF s
  <2>2. QED
    BY <1>4, <1>5, <1>8, <2>1 DEF GuardianInv, NeverOvercounts, QuestionsOf, ViolationsOf
<1>15. EscalationEarned'
  <2>1. call[c].escalated => Cardinality(RowsOf(violations, s)) >= EscalateAt
    BY DEF GuardianInv, EscalationEarned, ViolationsOf
  <2> HIDE DEF s
  <2>2. QED
    BY <1>3, <1>4, <1>5, <1>7, <1>8, <2>1 DEF GuardianInv, EscalationEarned, ViolationsOf
<1>16. AuditComplete'
  <2>1. \A d \in Calls : call'[d].pc = "returned" =>
          \E q \in questions' : /\ q.question_id = d
                                /\ q.session = call'[d].session
                                /\ q.classification = call'[d].classification
    BY <1>13 DEF OwnRowsFiled
  <2>2. QED
    BY <1>5, <2>1 DEF GuardianInv, AuditComplete
<1>17. QED
  BY <1>9, <1>10, <1>11, <1>12, <1>13, <1>14, <1>15, <1>16 DEF GuardianInv

-----------------------------------------------------------------------------

\* No step of any call or of a session's lifecycle breaks the invariant.
LEMMA GuardianStepKeepsInv ==
  ASSUME GuardianInv, [GuardianNext]_guardianVars
  PROVE  GuardianInv'
<1>1. ASSUME NEW s \in Sessions, SessionStart(s)
      PROVE  GuardianInv'
  BY <1>1, SessionStartKeepsInv
<1>2. ASSUME NEW s \in Sessions, SessionEnd(s)
      PROVE  GuardianInv'
  BY <1>2, SessionEndKeepsInv
<1>3. ASSUME NEW c \in Calls, NEW s \in Sessions, CallValidate(c, s)
      PROVE  GuardianInv'
  BY <1>3, CallValidateKeepsInv
<1>4. ASSUME NEW c \in Calls, ValidateStep(c)
      PROVE  GuardianInv'
  BY <1>4, ReadSessionKeepsInv, ReadClosedSessionKeepsInv, ClassifyKeepsInv,
     InsertViolationKeepsInv, InsertQuestionKeepsInv, UpdateCountersKeepsInv,
     RaisingKeepsInv DEF ValidateStep
<1>5. CASE UNCHANGED guardianVars
  <2>1. /\ sessions' = sessions
        /\ questions' = questions
        /\ violations' = violations
        /\ call' = call
    BY <1>5 DEF guardianVars
  <2>2. QED
    BY <2>1 DEF GuardianInv, GuardianTypeOK, CallWellFormed, NotYetFiled,
       CopiesBacked, OwnRowsFiled, NeverOvercounts, EscalationEarned,
       AuditComplete, QuestionsOf, ViolationsOf
<1>6. QED
  BY <1>1, <1>2, <1>3, <1>4, <1>5 DEF GuardianNext

\* However calls overlap and fail, what the invariant says is never untrue.
THEOREM GuardianInvariant == GuardianSpec => []GuardianInv
<1>1. GuardianInit => GuardianInv
  BY InitEstablishesInv
<1>2. GuardianInv /\ [GuardianNext]_guardianVars => GuardianInv'
  BY GuardianStepKeepsInv
<1>3. QED
  BY <1>1, <1>2, PTL DEF GuardianSpec

\* The tables, the rows and the local variables of the calls keep their types.
THEOREM TypeCorrect == GuardianSpec => []GuardianTypeOK
<1>1. GuardianInv => GuardianTypeOK
  BY DEF GuardianInv
<1>2. QED
  BY <1>1, GuardianInvariant, PTL

\* A row never claims questions or violations that have not been filed.
THEOREM CountersNeverOvercount == GuardianSpec => []NeverOvercounts
<1>1. GuardianInv => NeverOvercounts
  BY DEF GuardianInv
<1>2. QED
  BY <1>1, GuardianInvariant, PTL

\* No session is ever escalated on fewer violations than the threshold.
THEOREM EscalationIsEarned == GuardianSpec => []EscalationEarned
<1>1. GuardianInv => EscalationEarned
  BY DEF GuardianInv
<1>2. QED
  BY <1>1, GuardianInvariant, PTL

\* Whatever is answered is on file, and whatever is filed as a violation has
\* its violation row.
THEOREM AuditIsComplete == GuardianSpec => []AuditComplete
<1>1. GuardianInv => AuditComplete
  BY DEF GuardianInv
<1>2. QED
  BY <1>1, GuardianInvariant, PTL

-----------------------------------------------------------------------------
(***************************************************************************)
(* How the calls and the tables may change, for the modules that build on  *)
(* the Guardian.                                                           *)
(***************************************************************************)

\* A call that has ended stays as it is, a call under way keeps its session,
\* only a session the call is handed can wake an idle one, and no row is ever
\* deleted.
LEMMA CallsMoveOn ==
  ASSUME GuardianInv, [GuardianNext]_guardianVars
  PROVE  /\ \A c \in Calls : call[c].pc \in Ended => call'[c] = call[c]
         /\ \A c \in Calls : call[c].pc # "idle" =>
              call'[c].pc # "idle" /\ call'[c].session = call[c].session
         /\ questions \subseteq questions'
         /\ violations \subseteq violations'
<1>1. call \in [Calls -> CallState]
  BY DEF GuardianInv, GuardianTypeOK
<1>2. ASSUME NEW s \in Sessions, SessionStart(s) \/ SessionEnd(s)
      PROVE  UNCHANGED <<questions, violations, call>>
  BY <1>2 DEF SessionStart, SessionEnd
<1>3. ASSUME NEW c \in Calls, NEW s \in Sessions, CallValidate(c, s)
      PROVE  /\ UNCHANGED <<questions, violations>>
             /\ call[c].pc = "idle"
             /\ \A d \in Calls : d # c => call'[d] = call[d]
  BY <1>1, <1>3 DEF CallValidate
<1>4. ASSUME NEW c \in Calls, ValidateStep(c)
      PROVE  /\ questions \subseteq questions'
             /\ violations \subseteq violations'
             /\ call[c].pc \notin {"idle"} \cup Ended
             /\ call'[c].pc # "idle"
             /\ call'[c].session = call[c].session
             /\ \A d \in Calls : d # c => call'[d] = call[d]
  <2> DEFINE old == call[c]
  <2>1. old \in CallState
    BY <1>1
  <2>2. CASE ReadSession(c)
    <3>1. Loaded(old, sessions[old.session]).pc = "classify"
            /\ Loaded(old, sessions[old.session]).session = old.session
      BY <2>1 DEF Loaded, CallState
    <3>2. QED
      BY <1>1, <2>2, <3>1 DEF ReadSession, Ended
  <2>3. CASE ReadClosedSession(c)
    BY <1>1, <2>3 DEF ReadClosedSession, Ended, CallState
  <2>4. CASE Classify(c)
    BY <1>1, <2>4 DEF Classify, Ended, CallState
  <2>5. CASE InsertViolation(c)
    <3>1. Offended(old).pc = "question" /\ Offended(old).session = old.session
      BY <2>1 DEF Offended, CallState
    <3>2. QED
      BY <1>1, <2>5, <3>1 DEF InsertViolation, Ended
  <2>6. CASE InsertQuestion(c)
    BY <1>1, <2>6 DEF InsertQuestion, Ended, CallState
  <2>7. CASE UpdateCounters(c)
    BY <1>1, <2>7 DEF UpdateCounters, Ended, CallState
  <2>8. CASE RecordFails(c) \/ StoreFails(c)
    BY <1>1, <2>8 DEF RecordFails, StoreFails, Ended, CallState
  <2>9. QED
    BY <1>4, <2>2, <2>3, <2>4, <2>5, <2>6, <2>7, <2>8 DEF ValidateStep
<1>5. CASE UNCHANGED guardianVars
  BY <1>5 DEF guardianVars
<1>6. CASE \E s \in Sessions : SessionStart(s) \/ SessionEnd(s)
  BY <1>2, <1>6
<1>7. CASE \E c \in Calls : (\E s \in Sessions : CallValidate(c, s))
  BY <1>3, <1>7 DEF Ended
<1>8. CASE \E c \in Calls : ValidateStep(c)
  BY <1>4, <1>8
<1>9. QED
  BY <1>5, <1>6, <1>7, <1>8 DEF GuardianNext

\* A verdict on file stays on file, and every verdict that is returned is.
LEMMA VerdictsStayOnFile ==
  ASSUME GuardianInv, VerdictsOnFile, [GuardianNext]_guardianVars
  PROVE  VerdictsOnFile'
<1> DEFINE OnFile(st, c, rows) ==
      \E q \in rows : /\ q.question_id = c
                       /\ q.session = st.session
                       /\ q.classification = st.classification
                       /\ q.sequence_number = st.question_count
           Good(st, c, rows) ==
             /\ st.pc \in {"counters", "returned"} => OnFile(st, c, rows)
             /\ st.pc = "returned" => st.guidance = GuidanceOf(st)
<1>1. /\ call \in [Calls -> CallState]
      /\ questions \subseteq questions'
  BY CallsMoveOn DEF GuardianInv, GuardianTypeOK
<1>2. ASSUME NEW c \in Calls, call'[c] = call[c]
      PROVE  Good(call'[c], c, questions')
  BY <1>1, <1>2 DEF VerdictsOnFile
<1>3. ASSUME NEW c \in Calls, call'[c].pc \notin {"counters", "returned"}
      PROVE  Good(call'[c], c, questions')
  BY <1>3
<1>4. ASSUME NEW c \in Calls, InsertQuestion(c)
      PROVE  Good(call'[c], c, questions')
  <2>1. PICK old \in CallState : old = call[c]
    BY <1>1
  <2> DEFINE st == [old EXCEPT !.pc = "counters"]
             row == [question_id |-> c, session |-> old.session,
                     sequence_number |-> old.question_count,
                     classification |-> old.classification,
                     violation |-> IsViolation(old.classification)]
  <2>2. call'[c] = st /\ row \in questions'
    BY <1>1, <1>4, <2>1 DEF InsertQuestion, QuestionRowsOf
  <2>3. /\ st.pc = "counters"
        /\ st.session = old.session
        /\ st.classification = old.classification
        /\ st.question_count = old.question_count
    BY DEF CallState
  <2>4. /\ row.question_id = c
        /\ row.session = old.session
        /\ row.classification = old.classification
        /\ row.sequence_number = old.question_count
    OBVIOUS
  <2> HIDE DEF st, row
  <2>5. QED
    BY <2>2, <2>3, <2>4
<1>5. ASSUME NEW c \in Calls, UpdateCounters(c)
      PROVE  Good(call'[c], c, questions')
  <2>1. PICK old \in CallState : old = call[c]
    BY <1>1
  <2>2. PICK level : level = GuidanceOf(old)
    OBVIOUS
  <2> DEFINE st == [old EXCEPT !.pc = "returned", !.guidance = level]
  <2>3. call'[c] = st /\ old.pc = "counters"
    BY <1>1, <1>5, <2>1, <2>2 DEF UpdateCounters
  <2>4. /\ st.pc = "returned"
        /\ st.guidance = level
        /\ st.session = old.session
        /\ st.classification = old.classification
        /\ st.question_count = old.question_count
        /\ st.violation_count = old.violation_count
        /\ st.escalated = old.escalated
    BY DEF CallState
  <2>5. OnFile(old, c, questions)
    BY <2>1, <2>3 DEF VerdictsOnFile
  <2> HIDE DEF st
  <2>6. GuidanceOf(st) = level
    BY <2>2, <2>4 DEF GuidanceOf
  <2>7. OnFile(st, c, questions')
    BY <1>1, <2>4, <2>5
  <2>8. QED
    BY <2>3, <2>4, <2>6, <2>7
<1>6. ASSUME NEW c \in Calls, NEW d \in Calls, ValidateStep(c)
      PROVE  Good(call'[d], d, questions')
  <2>1. CASE d # c
    <3>1. call'[d] = call[d]
      BY <1>1, <1>6, <2>1 DEF ValidateStep, ReadSession, ReadClosedSession,
         Classify, InsertViolation, InsertQuestion, UpdateCounters, RecordFails, StoreFails
    <3>2. QED
      BY <1>2, <3>1
  <2>2. CASE d = c /\ InsertQuestion(c)
    BY <1>4, <2>2
  <2>3. CASE d = c /\ UpdateCounters(c)
    BY <1>5, <2>3
  <2>4. CASE d = c /\ ~InsertQuestion(c) /\ ~UpdateCounters(c)
    <3>1. PICK old \in CallState : old = call[c]
      BY <1>1
    <3>2. Offended(old).pc = "question"
      BY <3>1 DEF Offended, CallState
    <3>3. Loaded(old, sessions[old.session]).pc = "classify"
      BY <3>1 DEF Loaded, CallState
    <3>4. call'[c].pc \notin {"counters", "returned"}
      <4>1. CASE ReadSession(c)
        BY <1>1, <3>1, <3>3, <4>1 DEF ReadSession
      <4>2. CASE InsertViolation(c)
        BY <1>1, <3>1, <3>2, <4>2 DEF InsertViolation
      <4>3. CASE ReadClosedSession(c)
        BY <1>1, <4>3 DEF ReadClosedSession, CallState
      <4>4. CASE Classify(c)
        BY <1>1, <4>4 DEF Classify, CallState
      <4>5. CASE RecordFails(c) \/ StoreFails(c)
        BY <1>1, <4>5 DEF RecordFails, StoreFails, CallState
      <4>6. QED
        BY <1>6, <2>4, <4>1, <4>2, <4>3, <4>4, <4>5 DEF ValidateStep
    <3>5. QED
      BY <1>3, <2>4, <3>4
  <2>5. QED
    BY <2>1, <2>2, <2>3, <2>4
<1>7. ASSUME NEW c \in Calls, NEW s \in Sessions, CallValidate(c, s), NEW d \in Calls
      PROVE  Good(call'[d], d, questions')
  <2>1. CASE d = c
    <3>1. call'[c].pc = "read"
      BY <1>1, <1>7 DEF CallValidate, CallState
    <3>2. QED
      BY <1>3, <2>1, <3>1
  <2>2. CASE d # c
    <3>1. call'[d] = call[d]
      BY <1>1, <1>7, <2>2 DEF CallValidate
    <3>2. QED
      BY <1>2, <3>1
  <2>3. QED
    BY <2>1, <2>2
<1>8. ASSUME UNCHANGED call, NEW d \in Calls
      PROVE  Good(call'[d], d, questions')
  BY <1>2, <1>8
<1>9. \A d \in Calls : Good(call'[d], d, questions')
  <2>1. ASSUME NEW s \in Sessions, SessionStart(s) \/ SessionEnd(s)
        PROVE  UNCHANGED call
    BY <2>1 DEF SessionStart, SessionEnd
  <2>2. UNCHANGED guardianVars => UNCHANGED call
    BY DEF guardianVars
  <2> HIDE DEF Good
  <2>3. QED
    BY <1>6, <1>7, <1>8, <2>1, <2>2 DEF GuardianNext
<1>10. QED
  <2>1. ASSUME NEW c \in Calls PROVE Good(call'[c], c, questions')
    BY <1>9
  <2>2. \A c \in Calls : call'[c].pc = "returned" => call'[c].guidance = GuidanceOf(call'[c])
    BY <2>1
  <2>3. \A c \in Calls : call'[c].pc \in {"counters", "returned"} =>
          \E q \in questions' : /\ q.question_id = c
                                /\ q.session = call'[c].session
                                /\ q.classification = call'[c].classification
                                /\ q.sequence_number = call'[c].question_count
    BY <2>1
  <2>4. QED
    BY <2>2, <2>3 DEF VerdictsOnFile, GuidanceOf

-----------------------------------------------------------------------------
(***************************************************************************)
(* Serialised turns.  SerialInv says that the one call under way on a      *)
(* session works with the row as it is, so that the counters it writes are *)
(* exact; every step keeps it, whichever transactions fail.                *)
(***************************************************************************)

LEMMA SerialInit == GuardianInit => SerialInv
<1> SUFFICES ASSUME GuardianInit PROVE SerialInv
  OBVIOUS
<1>1. GuardianInv
  BY InitEstablishesInv
<1>2. /\ \A c \in Calls : call[c].pc = "idle"
      /\ questions = {} /\ violations = {}
      /\ \A s \in Sessions : /\ sessions[s].question_count = 0
                             /\ sessions[s].violation_count = 0
                             /\ ~sessions[s].escalated
  BY DEF GuardianInit, NoCall, NoRow
<1>3. VerdictsOnFile /\ OneCallAtATime /\ RowsOwned /\ CopiesCurrent
  BY <1>2 DEF VerdictsOnFile, OneCallAtATime, RowsOwned, CopiesCurrent, InFlight
<1>4. \A s : ReturnedOn(s) = {} /\ OffencesOn(s) = {}
  BY <1>2 DEF ReturnedOn, OffencesOn
<1>5. ReturnsNumbered
  <2>1. \A s : {call[c].question_count : c \in ReturnedOn(s)} = {}
    BY <1>4
  <2>2. 1 .. 0 = {}
    OBVIOUS
  <2>3. QED
    BY <1>2, <1>4, <2>1, <2>2 DEF ReturnsNumbered
<1>6. RowsExact
  BY <1>2, <1>4, FS_EmptySet DEF RowsExact
<1>7. OffencesCounted
  BY <1>4 DEF OffencesCounted
<1>8. ThresholdExact
  BY <1>2, ThresholdsAssumption DEF ThresholdExact, ThresholdsAssumption
<1>9. QED
  BY <1>1, <1>3, <1>5, <1>6, <1>7, <1>8 DEF SerialInv

\* Two calls under way on the same session are the same call.
LEMMA AloneOnSession ==
  ASSUME OneCallAtATime, NEW c \in Calls, NEW d \in Calls, c # d,
         call[c].pc \notin {"idle"} \cup Ended,
         call[d].session = call[c].session
  PROVE  call[d].pc \in {"idle"} \cup Ended
BY DEF OneCallAtATime, InFlight

\* A step that returns no verdict and writes no counts leaves the counts as exact
\* as they were.
LEMMA CountsStayExact ==
  ASSUME ReturnsNumbered, RowsExact, OffencesCounted, ThresholdExact,
         \A s \in Sessions : /\ sessions'[s].question_count = sessions[s].question_count
                             /\ sessions'[s].violation_count = sessions[s].violation_count
                             /\ sessions'[s].escalated = sessions[s].escalated,
         \A c \in Calls : call[c].pc = "returned" => call'[c] = call[c],
         \A c \in Calls : call'[c].pc = "returned" => call[c].pc = "returned"
  PROVE  ReturnsNumbered' /\ RowsExact' /\ OffencesCounted' /\ ThresholdExact'
<1>1. \A s : ReturnedOn(s)' = ReturnedOn(s)
  BY DEF ReturnedOn
<1>2. \A s : \A c \in ReturnedOn(s) : call'[c] = call[c]
  BY DEF ReturnedOn
<1>3. \A s : OffencesOn(s)' = OffencesOn(s)
  BY <1>1, <1>2 DEF OffencesOn
<1>4. ReturnsNumbered'
  <2>1. \A s : {call'[c].question_count : c \in ReturnedOn(s)'}
                 = {call[c].question_count : c \in ReturnedOn(s)}
    BY <1>1, <1>2
  <2>2. \A s \in Sessions : {call'[c].question_count : c \in ReturnedOn(s)'}
                              = 1 .. sessions'[s].question_count
    BY <2>1 DEF ReturnsNumbered
  <2>3. \A s \in Sessions : \A c, d \in ReturnedOn(s)' :
          call'[c].question_count = call'[d].question_count => c = d
    BY <1>1, <1>2 DEF ReturnsNumbered
  <2>4. QED
    BY <2>2, <2>3 DEF ReturnsNumbered
<1>5. RowsExact'
  BY <1>1, <1>3 DEF RowsExact
<1>6. OffencesCounted'
  <2> SUFFICES ASSUME NEW s \in Sessions, NEW c \in ReturnedOn(s)
      PROVE  /\ call'[c].violation_count
                  = Cardinality({d \in OffencesOn(s)' :
                                   call'[d].question_count <= call'[c].question_count})
             /\ call'[c].escalated <=> call'[c].violation_count >= EscalateAt
    BY <1>1 DEF OffencesCounted, OffencesUpTo
  <2>1. \A d \in OffencesOn(s) : call'[d] = call[d]
    BY <1>2 DEF OffencesOn
  <2>2. {d \in OffencesOn(s)' : call'[d].question_count <= call'[c].question_count}
          = OffencesUpTo(s, call[c].question_count)
    BY <1>2, <1>3, <2>1 DEF OffencesUpTo
  <2>3. QED
    BY <1>2, <2>2 DEF OffencesCounted
<1>7. ThresholdExact'
  BY DEF ThresholdExact
<1>8. QED
  BY <1>4, <1>5, <1>6, <1>7

\* A step of one call that may file rows of its own, but returns no verdict.
LEMMA SerialCallStep ==
  ASSUME SerialInv, GuardianInv', VerdictsOnFile',
         NEW c \in Calls, NEW st \in CallState,
         call' = [call EXCEPT ![c] = st],
         sessions' = sessions,
         \A q \in questions' : q \in questions
           \/ (/\ q.question_id = c
               /\ q.session = st.session
               /\ q.sequence_number = st.question_count),
         \A v \in violations' : v \in violations
           \/ (v.question_id = c /\ v.session = st.session),
         st.session \in Sessions,
         sessions[st.session].status # "none",
         call[c].pc \notin Ended,
         call[c].pc = "idle" => ~Busy(st.session),
         call[c].pc # "idle" => st.session = call[c].session,
         call[c].pc = "counters" => st.question_count = call[c].question_count,
         st.pc \notin {"idle", "returned"},
         st.pc # "raised" => Current(st, sessions[st.session])
  PROVE  SerialInv'
<1>1. /\ call'[c] = st
      /\ \A d \in Calls : d # c => call'[d] = call[d]
  BY DEF SerialInv, GuardianInv, GuardianTypeOK
<1>2. \A d \in Calls : d # c /\ InFlight(d) /\ call[d].session = st.session => call[c].pc # "idle"
  BY DEF Busy
<1>3. OneCallAtATime'
  <2> SUFFICES ASSUME NEW d \in Calls, NEW e \in Calls, InFlight(d)', InFlight(e)',
                      call'[d].session = call'[e].session
      PROVE  d = e
    BY DEF OneCallAtATime
  <2>1. ASSUME NEW f \in Calls, f # c, InFlight(f)', call'[f].session = st.session
        PROVE  FALSE
    <3>1. InFlight(f) /\ call[f].session = st.session
      BY <1>1, <2>1 DEF InFlight
    <3>2. call[c].pc # "idle" /\ st.session = call[c].session
      BY <1>2, <2>1, <3>1
    <3>3. InFlight(c)
      BY <3>2 DEF InFlight
    <3>4. QED
      BY <2>1, <3>1, <3>2, <3>3 DEF SerialInv, OneCallAtATime
  <2>2. CASE d # c /\ e # c
    BY <1>1, <2>2 DEF SerialInv, OneCallAtATime, InFlight
  <2>3. CASE d = c /\ e # c
    BY <1>1, <2>1, <2>3
  <2>4. CASE d # c /\ e = c
    BY <1>1, <2>1, <2>4
  <2>5. QED
    BY <2>2, <2>3, <2>4
<1>4. RowsOwned'
  <2>1. \A q \in questions :
          q.question_id \in Calls /\ call[q.question_id].pc \in {"counters"} \cup Ended
    BY DEF SerialInv, GuardianInv, GuardianTypeOK, QuestionRow, NotYetFiled
  <2>2. \A v \in violations : v.question_id \in Calls /\ call[v.question_id].pc # "idle"
    BY DEF SerialInv, GuardianInv, GuardianTypeOK, ViolationRow, NotYetFiled, Ended
  <2>3. \A d \in Calls : call[d].pc # "idle" => call'[d].session = call[d].session
    BY <1>1
  <2>4. \A d \in Calls : call[d].pc \in {"counters"} \cup Ended =>
          /\ call'[d].session = call[d].session
          /\ call'[d].question_count = call[d].question_count
    BY <1>1 DEF Ended
  <2>5. \A d \in Calls : call'[d].pc # "idle" => sessions[call'[d].session].status # "none"
    BY <1>1 DEF SerialInv, RowsOwned
  <2>6. \A q \in questions' : /\ q.session = call'[q.question_id].session
                              /\ q.sequence_number = call'[q.question_id].question_count
    BY <1>1, <2>1, <2>4 DEF SerialInv, RowsOwned
  <2>7. \A v \in violations' : v.session = call'[v.question_id].session
    BY <1>1, <2>2, <2>3 DEF SerialInv, RowsOwned
  <2>8. QED
    BY <2>5, <2>6, <2>7 DEF RowsOwned
<1>5. CopiesCurrent'
  <2> SUFFICES ASSUME NEW d \in Calls, InFlight(d)'
      PROVE  Current(call'[d], sessions[call'[d].session])
    BY DEF CopiesCurrent
  <2>1. CASE d = c
    BY <1>1, <2>1 DEF InFlight, Ended
  <2>2. CASE d # c
    BY <1>1, <2>2 DEF SerialInv, CopiesCurrent, InFlight
  <2>3. QED
    BY <2>1, <2>2
<1>6. /\ \A d \in Calls : call[d].pc = "returned" => call'[d] = call[d]
      /\ \A d \in Calls : call'[d].pc = "returned" => call[d].pc = "returned"
  BY <1>1 DEF Ended
<1>7. ReturnsNumbered' /\ RowsExact' /\ OffencesCounted' /\ ThresholdExact'
  BY <1>6, CountsStayExact DEF SerialInv
<1>8. QED
  BY <1>3, <1>4, <1>5, <1>7 DEF SerialInv

LEMMA CallValidateKeepsSerial ==
  ASSUME Serialized = TRUE, SerialInv, GuardianInv', VerdictsOnFile',
         NEW c \in Calls, NEW s \in Sessions, CallValidate(c, s)
  PROVE  SerialInv'
<1>1. PICK old \in CallState : old = call[c]
  BY DEF SerialInv, GuardianInv, GuardianTypeOK
<1> DEFINE st == [old EXCEPT !.pc = "read", !.session = s]
<1>2. /\ old.pc = "idle"
      /\ ~Busy(s)
      /\ sessions[s].status # "none"
      /\ UNCHANGED <<sessions, questions, violations>>
      /\ call' = [call EXCEPT ![c] = st]
  BY <1>1 DEF CallValidate, SerialInv, GuardianInv, GuardianTypeOK
<1>3. st \in CallState /\ st.pc = "read" /\ st.session = s
  BY DEF CallState, CallPoints
<1> HIDE DEF st
<1>4. Current(st, sessions[s])
  BY <1>3 DEF Current
<1>5. call[c].pc \notin Ended
  BY <1>1, <1>2 DEF Ended
<1>6. QED
  BY <1>1, <1>2, <1>3, <1>4, <1>5, SerialCallStep

LEMMA ReadSessionKeepsSerial ==
  ASSUME SerialInv, GuardianInv', VerdictsOnFile', NEW c \in Calls, ReadSession(c)
  PROVE  SerialInv'
<1>1. PICK old \in CallState : old = call[c]
  BY DEF SerialInv, GuardianInv, GuardianTypeOK
<1>2. old.pc = "read" /\ old.session \in Sessions
  BY <1>1 DEF ReadSession, SerialInv, GuardianInv, CallWellFormed
<1>3. PICK row \in SessionRow : row = sessions[old.session]
  BY <1>2 DEF SerialInv, GuardianInv, GuardianTypeOK
<1>4. PICK st : st = Loaded(old, row)
  OBVIOUS
<1>5. /\ row.status # "none"
      /\ UNCHANGED <<sessions, questions, violations>>
      /\ call' = [call EXCEPT ![c] = st]
  BY <1>1, <1>2, <1>3, <1>4 DEF ReadSession, SerialInv, RowsOwned
<1>6. /\ st \in CallState
      /\ st.session = old.session
      /\ st.pc = "classify"
      /\ st.question_count = row.question_count + 1
      /\ st.violation_count = row.violation_count
      /\ st.escalated = row.escalated
  BY <1>4, LoadedCopies
<1>7. Current(st, row)
  BY <1>5, <1>6 DEF Current
<1>8. call[c].pc \notin Ended /\ call[c].pc # "counters"
  BY <1>1, <1>2 DEF Ended
<1>9. QED
  BY <1>1, <1>2, <1>3, <1>5, <1>6, <1>7, <1>8, SerialCallStep

\* A call that raises keeps its session and its number.
LEMMA RaisingKeepsSerial ==
  ASSUME SerialInv, GuardianInv', VerdictsOnFile', NEW c \in Calls,
         ReadClosedSession(c) \/ RecordFails(c) \/ StoreFails(c)
  PROVE  SerialInv'
<1>1. PICK old \in CallState : old = call[c]
  BY DEF SerialInv, GuardianInv, GuardianTypeOK
<1> DEFINE st == [old EXCEPT !.pc = "raised"]
<1>2. /\ old.pc \in {"read", "violation", "question", "counters"}
      /\ UNCHANGED <<sessions, questions, violations>>
      /\ call' = [call EXCEPT ![c] = st]
  BY <1>1 DEF ReadClosedSession, RecordFails, StoreFails, SerialInv, GuardianInv,
     GuardianTypeOK
<1>3. old.session \in Sessions /\ sessions[old.session].status # "none"
  BY <1>1, <1>2 DEF SerialInv, GuardianInv, CallWellFormed, RowsOwned
<1>4. /\ st \in CallState
      /\ st.pc = "raised"
      /\ st.session = old.session
      /\ st.question_count = old.question_count
  BY DEF CallState, CallPoints
<1> HIDE DEF st
<1>5. call[c].pc \notin Ended /\ call[c].pc # "idle"
  BY <1>1, <1>2 DEF Ended
<1>6. QED
  BY <1>1, <1>2, <1>3, <1>4, <1>5, SerialCallStep

LEMMA ClassifyKeepsSerial ==
  ASSUME SerialInv, GuardianInv', VerdictsOnFile', NEW c \in Calls, Classify(c)
  PROVE  SerialInv'
<1>1. PICK old \in CallState : old = call[c]
  BY DEF SerialInv, GuardianInv, GuardianTypeOK
<1>2. PICK answer \in Verdicts \cup {"error"} :
        call' = [call EXCEPT ![c].pc = IF IsViolation(ClassificationOf(answer))
                                       THEN "violation" ELSE "question",
                             ![c].classifier = answer,
                             ![c].classification = ClassificationOf(answer)]
  BY DEF Classify
<1>3. PICK classification : classification = ClassificationOf(answer)
  OBVIOUS
<1>4. PICK point : point = IF IsViolation(classification) THEN "violation" ELSE "question"
  OBVIOUS
<1> DEFINE st == [old EXCEPT !.pc = point, !.classifier = answer,
                             !.classification = classification]
<1>5. /\ answer \in Classifications \cup {"none", "error"}
      /\ classification \in Classifications
      /\ point \in CallPoints
  BY <1>3, <1>4, GuardianAssumption
     DEF GuardianAssumption, ClassificationOf, Classifications, CallPoints
<1>6. /\ old.pc = "classify"
      /\ UNCHANGED <<sessions, questions, violations>>
      /\ call' = [call EXCEPT ![c] = st]
  BY <1>1, <1>2, <1>3, <1>4 DEF Classify, SerialInv, GuardianInv, GuardianTypeOK
<1>7. /\ st \in CallState
      /\ st.session = old.session
      /\ st.pc = point
      /\ st.classification = classification
      /\ st.question_count = old.question_count
      /\ st.violation_count = old.violation_count
      /\ st.escalated = old.escalated
  BY <1>5 DEF CallState
<1> HIDE DEF st
<1>8. old.session \in Sessions /\ sessions[old.session].status # "none"
  BY <1>1, <1>6 DEF SerialInv, GuardianInv, CallWellFormed, RowsOwned
<1>9. /\ call[c].pc \notin Ended
      /\ call[c].pc \notin {"idle", "counters"}
      /\ InFlight(c)
  BY <1>1, <1>6 DEF Ended, InFlight
<1>10. Current(old, sessions[old.session])
  BY <1>1, <1>9 DEF SerialInv, CopiesCurrent
<1>11. Current(st, sessions[old.session])
  BY <1>4, <1>6, <1>7, <1>10 DEF Current, ViolationsAfter
<1>12. point \in {"violation", "question"}
  BY <1>4
<1>13. QED
  BY <1>1, <1>6, <1>7, <1>8, <1>9, <1>11, <1>12, SerialCallStep

\* The violation a call files is the one its copies now count.
LEMMA InsertViolationKeepsSerial ==
  ASSUME SerialInv, GuardianInv', VerdictsOnFile', NEW c \in Calls, InsertViolation(c)
  PROVE  SerialInv'
<1>1. PICK old \in CallState : old = call[c]
  BY DEF SerialInv, GuardianInv, GuardianTypeOK
<1>2. PICK st : st = Offended(old)
  OBVIOUS
<1>3. PICK s : s = old.session
  OBVIOUS
<1>4. /\ old.pc = "violation"
      /\ s \in Sessions
      /\ sessions[s].status # "none"
      /\ UNCHANGED <<sessions, questions>>
      /\ call' = [call EXCEPT ![c] = st]
      /\ \A v \in violations' : v \in violations \/ (v.question_id = c /\ v.session = s)
  BY <1>1, <1>2, <1>3
     DEF InsertViolation, ViolationRowsOf, SerialInv, GuardianInv, CallWellFormed, RowsOwned
<1>5. PICK vc \in Nat, esc \in BOOLEAN :
        vc = old.violation_count + 1 /\ esc = EscalatesAfter(old.escalated, vc)
  <2>1. old.escalated \in BOOLEAN /\ old.violation_count + 1 \in Nat
    BY DEF CallState
  <2>2. QED
    BY <2>1, EscalatesAfterEarned
<1>6. /\ st \in CallState
      /\ st.pc = "question"
      /\ st.session = s
      /\ st.classification = old.classification
      /\ st.question_count = old.question_count
      /\ st.violation_count = vc
      /\ st.escalated = esc
  <2>1. st = [old EXCEPT !.pc = "question", !.violation_count = vc, !.escalated = esc]
    BY <1>2, <1>5 DEF Offended
  <2>2. QED
    BY <1>3, <2>1 DEF CallState, CallPoints
<1>7. Current(old, sessions[s])
  BY <1>1, <1>3, <1>4 DEF SerialInv, CopiesCurrent, InFlight, Ended
<1>8. /\ IsViolation(old.classification)
      /\ old.violation_count = sessions[s].violation_count
      /\ old.escalated <=> sessions[s].escalated
      /\ old.question_count = sessions[s].question_count + 1
  BY <1>4, <1>7 DEF Current
<1>9. esc <=> EscalatesAfter(sessions[s].escalated, vc)
  BY <1>5, <1>8 DEF EscalatesAfter
<1>10. Current(st, sessions[s])
  BY <1>4, <1>5, <1>6, <1>8, <1>9 DEF Current, ViolationsAfter
<1>11. call[c].pc \notin Ended /\ call[c].pc \notin {"idle", "counters"}
  BY <1>1, <1>4 DEF Ended
<1>12. QED
  BY <1>1, <1>3, <1>4, <1>6, <1>10, <1>11, SerialCallStep

\* The question a call files carries the number of its copies.
LEMMA InsertQuestionKeepsSerial ==
  ASSUME SerialInv, GuardianInv', VerdictsOnFile', NEW c \in Calls, InsertQuestion(c)
  PROVE  SerialInv'
<1>1. PICK old \in CallState : old = call[c]
  BY DEF SerialInv, GuardianInv, GuardianTypeOK
<1> DEFINE st == [old EXCEPT !.pc = "counters"]
<1>2. /\ st \in CallState
      /\ st.pc = "counters"
      /\ st.session = old.session
      /\ st.classification = old.classification
      /\ st.question_count = old.question_count
      /\ st.violation_count = old.violation_count
      /\ st.escalated = old.escalated
  BY DEF CallState, CallPoints
<1>3. /\ old.pc = "question"
      /\ old.session \in Sessions
      /\ sessions[old.session].status # "none"
      /\ UNCHANGED <<sessions, violations>>
      /\ call' = [call EXCEPT ![c] = st]
  BY <1>1 DEF InsertQuestion, SerialInv, GuardianInv, GuardianTypeOK, CallWellFormed, RowsOwned
<1>4. \A q \in questions' : q \in questions
        \/ (/\ q.question_id = c
            /\ q.session = old.session
            /\ q.sequence_number = old.question_count)
  BY <1>1 DEF InsertQuestion, QuestionRowsOf
<1> HIDE DEF st
<1>5. Current(old, sessions[old.session])
  BY <1>1, <1>3 DEF SerialInv, CopiesCurrent, InFlight, Ended
<1>6. Current(st, sessions[old.session])
  BY <1>2, <1>3, <1>5 DEF Current
<1>7. call[c].pc \notin Ended /\ call[c].pc \notin {"idle", "counters"}
  BY <1>1, <1>3 DEF Ended
<1>8. QED
  BY <1>1, <1>2, <1>3, <1>4, <1>6, <1>7, SerialCallStep

-----------------------------------------------------------------------------

\* A step that changes only the status of one session's row: the copies of a call
\* under way do not hold the status.
LEMMA SerialStatusOnly ==
  ASSUME SerialInv, GuardianInv', VerdictsOnFile',
         NEW s \in Sessions, NEW row,
         sessions' = [sessions EXCEPT ![s] = row],
         UNCHANGED <<questions, violations, call>>,
         row.status # "none",
         row.question_count = sessions[s].question_count,
         row.violation_count = sessions[s].violation_count,
         row.escalated = sessions[s].escalated
  PROVE  SerialInv'
<1>1. /\ sessions'[s] = row
      /\ \A t \in Sessions : t # s => sessions'[t] = sessions[t]
  BY DEF SerialInv, GuardianInv, GuardianTypeOK
<1>2. \A t \in Sessions : /\ sessions'[t].question_count = sessions[t].question_count
                          /\ sessions'[t].violation_count = sessions[t].violation_count
                          /\ sessions'[t].escalated = sessions[t].escalated
                          /\ sessions[t].status # "none" => sessions'[t].status # "none"
  BY <1>1
<1>3. OneCallAtATime'
  BY DEF SerialInv, OneCallAtATime, InFlight
<1>4. \A c \in Calls : call[c].pc # "idle" => call[c].session \in Sessions
  BY DEF SerialInv, GuardianInv, CallWellFormed
<1>5. RowsOwned'
  <2>1. \A c \in Calls : call[c].pc # "idle" => sessions'[call[c].session].status # "none"
    BY <1>2, <1>4 DEF SerialInv, RowsOwned
  <2>2. QED
    BY <2>1 DEF SerialInv, RowsOwned
<1>6. CopiesCurrent'
  <2> SUFFICES ASSUME NEW c \in Calls, InFlight(c)'
      PROVE  Current(call[c], sessions'[call[c].session])
    BY DEF CopiesCurrent
  <2>1. PICK t \in Sessions : t = call[c].session
    BY <1>4 DEF InFlight
  <2>2. Current(call[c], sessions[t])
    BY <2>1 DEF SerialInv, CopiesCurrent, InFlight
  <2>3. Current(call[c], sessions'[t])
    BY <1>2, <2>2 DEF Current
  <2>4. QED
    BY <2>1, <2>3
<1>7. ReturnsNumbered' /\ RowsExact' /\ OffencesCounted' /\ ThresholdExact'
  BY <1>2, CountsStayExact DEF SerialInv
<1>8. QED
  BY <1>3, <1>5, <1>6, <1>7 DEF SerialInv

\* A session that does not exist yet has no calls and no counts.
LEMMA NothingBeforeStart ==
  ASSUME SerialInv, NEW s \in Sessions, sessions[s].status = "none"
  PROVE  /\ \A c \in Calls : call[c].session = s => call[c].pc = "idle"
         /\ sessions[s].question_count = 0
         /\ sessions[s].violation_count = 0
         /\ sessions[s].escalated = FALSE
<1>1. \A c \in Calls : call[c].session = s => call[c].pc = "idle"
  BY DEF SerialInv, RowsOwned
<1>2. ReturnedOn(s) = {} /\ OffencesOn(s) = {}
  BY <1>1 DEF ReturnedOn, OffencesOn
<1>3. sessions[s].question_count = 0 /\ sessions[s].violation_count = 0
  BY <1>2, FS_EmptySet DEF SerialInv, RowsExact
<1>4. sessions[s].escalated = FALSE
  <2>1. sessions[s].escalated \in BOOLEAN
    BY DEF SerialInv, GuardianInv, GuardianTypeOK, SessionRow
  <2>2. ~(0 >= EscalateAt)
    BY ThresholdsAssumption DEF ThresholdsAssumption
  <2>3. ~sessions[s].escalated
    BY <1>3, <2>2 DEF SerialInv, ThresholdExact
  <2>4. QED
    BY <2>1, <2>3
<1>5. QED
  BY <1>1, <1>3, <1>4

LEMMA SessionStartKeepsSerial ==
  ASSUME SerialInv, GuardianInv', VerdictsOnFile', NEW s \in Sessions, SessionStart(s)
  PROVE  SerialInv'
<1> DEFINE row == [NoRow EXCEPT !.status = "active"]
<1>1. /\ sessions[s].status = "none"
      /\ sessions' = [sessions EXCEPT ![s] = row]
      /\ UNCHANGED <<questions, violations, call>>
  BY DEF SessionStart
<1>2. /\ row.status # "none"
      /\ row.question_count = 0
      /\ row.violation_count = 0
      /\ row.escalated = FALSE
  BY DEF NoRow
<1> HIDE DEF row
<1>3. QED
  BY <1>1, <1>2, NothingBeforeStart, SerialStatusOnly

\* Also in the middle of a call.
LEMMA SessionEndKeepsSerial ==
  ASSUME SerialInv, GuardianInv', VerdictsOnFile', NEW s \in Sessions, SessionEnd(s)
  PROVE  SerialInv'
<1>1. PICK old \in SessionRow : old = sessions[s]
  BY DEF SerialInv, GuardianInv, GuardianTypeOK
<1> DEFINE row == [old EXCEPT !.status = "closed"]
<1>2. /\ sessions' = [sessions EXCEPT ![s] = row]
      /\ UNCHANGED <<questions, violations, call>>
  BY <1>1 DEF SessionEnd, SerialInv, GuardianInv, GuardianTypeOK
<1>3. /\ row.status # "none"
      /\ row.question_count = old.question_count
      /\ row.violation_count = old.violation_count
      /\ row.escalated = old.escalated
  BY DEF SessionRow
<1> HIDE DEF row
<1>4. QED
  BY <1>1, <1>2, <1>3, SerialStatusOnly

\* What the call writes over the row is what the row has to say.
LEMMA UpdateCountersKeepsSerial ==
  ASSUME SerialInv, GuardianInv', VerdictsOnFile', NEW c \in Calls, UpdateCounters(c)
  PROVE  SerialInv'
<1>1. PICK old \in CallState : old = call[c]
  BY DEF SerialInv, GuardianInv, GuardianTypeOK
<1>2. PICK s : s = old.session
  OBVIOUS
<1>3. old.pc = "counters" /\ s \in Sessions
  BY <1>1, <1>2 DEF UpdateCounters, SerialInv, GuardianInv, CallWellFormed
<1>4. PICK before \in SessionRow : before = sessions[s]
  BY <1>3 DEF SerialInv, GuardianInv, GuardianTypeOK
<1>5. PICK level : level = GuidanceOf(old)
  OBVIOUS
<1>6. PICK row : row = Stored(before, old)
  OBVIOUS
<1> DEFINE st == [old EXCEPT !.pc = "returned", !.guidance = level]
<1>7. /\ sessions' = [sessions EXCEPT ![s] = row]
      /\ UNCHANGED <<questions, violations>>
      /\ call' = [call EXCEPT ![c] = st]
  BY <1>1, <1>2, <1>4, <1>5, <1>6
     DEF UpdateCounters, SerialInv, GuardianInv, GuardianTypeOK
<1>8. /\ st.pc = "returned"
      /\ st.session = s
      /\ st.classification = old.classification
      /\ st.question_count = old.question_count
      /\ st.violation_count = old.violation_count
      /\ st.escalated = old.escalated
  BY <1>2 DEF CallState
<1>9. /\ row.status = before.status
      /\ row.question_count = old.question_count
      /\ row.violation_count = old.violation_count
      /\ row.escalated = old.escalated
  BY <1>6 DEF Stored, SessionRow
<1> HIDE DEF st
<1>10. /\ call'[c] = st
       /\ \A d \in Calls : d # c => call'[d] = call[d]
       /\ sessions'[s] = row
       /\ \A t \in Sessions : t # s => sessions'[t] = sessions[t]
       /\ InFlight(c)
       /\ \A d \in Calls : InFlight(d)' => d # c /\ InFlight(d)
       /\ \A d \in Calls : call'[d].session = call[d].session
       /\ \A d \in Calls : call'[d].question_count = call[d].question_count
       /\ \A d \in Calls : call'[d].pc # "idle" <=> call[d].pc # "idle"
  BY <1>1, <1>2, <1>3, <1>7, <1>8 DEF SerialInv, GuardianInv, GuardianTypeOK, InFlight, Ended
<1>11. \A d \in Calls : InFlight(d)' => call[d].session \in Sessions /\ call[d].session # s
  BY <1>1, <1>2, <1>10 DEF SerialInv, OneCallAtATime, GuardianInv, CallWellFormed, InFlight
<1>12. Current(old, before)
  BY <1>1, <1>2, <1>4, <1>10 DEF SerialInv, CopiesCurrent
<1>13. /\ before.status # "none"
       /\ old.question_count = before.question_count + 1
       /\ old.violation_count = ViolationsAfter(before.violation_count, old.classification)
       /\ IsViolation(old.classification) =>
            (old.escalated <=> EscalatesAfter(before.escalated, old.violation_count))
       /\ ~IsViolation(old.classification) => (old.escalated <=> before.escalated)
  BY <1>3, <1>12 DEF Current
<1>14. OneCallAtATime'
  BY <1>10 DEF SerialInv, OneCallAtATime
<1>15. RowsOwned'
  <2>1. \A q \in questions : q.question_id \in Calls
    BY DEF SerialInv, GuardianInv, GuardianTypeOK, QuestionRow
  <2>2. \A v \in violations : v.question_id \in Calls
    BY DEF SerialInv, GuardianInv, GuardianTypeOK, ViolationRow
  <2>3. ASSUME NEW d \in Calls, call'[d].pc # "idle"
        PROVE  sessions'[call'[d].session].status # "none"
    <3>1. call[d].pc # "idle" /\ call[d].session \in Sessions
      BY <1>10, <2>3 DEF SerialInv, GuardianInv, CallWellFormed
    <3>2. QED
      BY <1>4, <1>9, <1>10, <3>1 DEF SerialInv, RowsOwned
  <2>4. QED
    BY <1>7, <1>10, <2>1, <2>2, <2>3 DEF SerialInv, RowsOwned
<1>16. CopiesCurrent'
  <2> SUFFICES ASSUME NEW d \in Calls, InFlight(d)'
      PROVE  Current(call'[d], sessions'[call'[d].session])
    BY DEF CopiesCurrent
  <2>1. call'[d] = call[d] /\ sessions'[call[d].session] = sessions[call[d].session]
    BY <1>10, <1>11
  <2>2. QED
    BY <1>10, <2>1 DEF SerialInv, CopiesCurrent
<1>17. /\ ReturnedOn(s)' = ReturnedOn(s) \cup {c}
       /\ c \notin ReturnedOn(s)
       /\ OffencesOn(s)' = OffencesOn(s)
            \cup (IF IsViolation(old.classification) THEN {c} ELSE {})
       /\ c \notin OffencesOn(s)
       /\ \A d \in ReturnedOn(s) : d \in Calls /\ call'[d] = call[d]
  <2>1. ReturnedOn(s)' = ReturnedOn(s) \cup {c} /\ c \notin ReturnedOn(s)
    BY <1>1, <1>2, <1>3, <1>8, <1>10 DEF ReturnedOn
  <2>2. \A d \in ReturnedOn(s) : d \in Calls /\ call'[d] = call[d]
    BY <1>10, <2>1 DEF ReturnedOn
  <2>3. QED
    BY <1>8, <1>10, <2>1, <2>2 DEF OffencesOn
<1>18. ASSUME NEW t \in Sessions, t # s
       PROVE  /\ ReturnedOn(t)' = ReturnedOn(t)
              /\ OffencesOn(t)' = OffencesOn(t)
              /\ \A d \in ReturnedOn(t) : call'[d] = call[d]
  <2>1. ReturnedOn(t)' = ReturnedOn(t) /\ c \notin ReturnedOn(t)
    BY <1>1, <1>2, <1>3, <1>8, <1>10, <1>18 DEF ReturnedOn
  <2>2. \A d \in ReturnedOn(t) : call'[d] = call[d]
    BY <1>10, <2>1 DEF ReturnedOn
  <2>3. QED
    BY <2>1, <2>2 DEF OffencesOn
<1>19. /\ before.question_count \in Nat
       /\ before.violation_count \in Nat
       /\ old.question_count \in Nat
  BY DEF SessionRow, CallState
<1>20. \A d \in ReturnedOn(s) :
         call[d].question_count \in 1 .. before.question_count
  BY <1>3, <1>4 DEF SerialInv, ReturnsNumbered
<1>21. ReturnsNumbered'
  <2> SUFFICES ASSUME NEW t \in Sessions
      PROVE  /\ {call'[d].question_count : d \in ReturnedOn(t)'}
                  = 1 .. sessions'[t].question_count
             /\ \A d, e \in ReturnedOn(t)' :
                  call'[d].question_count = call'[e].question_count => d = e
    BY DEF ReturnsNumbered
  <2>1. /\ {call[d].question_count : d \in ReturnedOn(t)} = 1 .. sessions[t].question_count
        /\ \A d, e \in ReturnedOn(t) :
             call[d].question_count = call[e].question_count => d = e
    BY DEF SerialInv, ReturnsNumbered
  <2>2. CASE t # s
    <3>1. {call'[d].question_count : d \in ReturnedOn(t)'}
            = {call[d].question_count : d \in ReturnedOn(t)}
      BY <1>18, <2>2
    <3>2. QED
      BY <1>10, <1>18, <2>1, <2>2, <3>1
  <2>3. CASE t = s
    <3>1. {call'[d].question_count : d \in ReturnedOn(s)'}
            = {call[d].question_count : d \in ReturnedOn(s)} \cup {before.question_count + 1}
      BY <1>8, <1>10, <1>13, <1>17
    <3>2. 1 .. before.question_count + 1
            = (1 .. before.question_count) \cup {before.question_count + 1}
      BY <1>19
    <3>3. {call'[d].question_count : d \in ReturnedOn(s)'} = 1 .. sessions'[s].question_count
      BY <1>4, <1>9, <1>10, <1>13, <2>1, <2>3, <3>1, <3>2
    <3>4. /\ call'[c].question_count = before.question_count + 1
          /\ \A d \in ReturnedOn(s) : call'[d].question_count # before.question_count + 1
      BY <1>1, <1>10, <1>13, <1>17, <1>19, <1>20
    <3>5. \A d, e \in ReturnedOn(s)' :
            call'[d].question_count = call'[e].question_count => d = e
      BY <1>17, <2>1, <2>3, <3>4
    <3>6. QED
      BY <2>3, <3>3, <3>5
  <2>4. QED
    BY <2>2, <2>3
<1>22. /\ IsFiniteSet(ReturnedOn(s))
       /\ IsFiniteSet(OffencesOn(s))
       /\ before.question_count = Cardinality(ReturnedOn(s))
       /\ before.violation_count = Cardinality(OffencesOn(s))
  BY <1>3, <1>4, FS_Subset DEF SerialInv, RowsExact, OffencesOn
<1>23. /\ IsFiniteSet(ReturnedOn(s)')
       /\ old.question_count = Cardinality(ReturnedOn(s)')
       /\ old.violation_count = Cardinality(OffencesOn(s)')
  <2>1. IsFiniteSet(ReturnedOn(s)') /\ old.question_count = Cardinality(ReturnedOn(s)')
    BY <1>13, <1>17, <1>22, FS_AddElement
  <2>2. CASE IsViolation(old.classification)
    <3>1. OffencesOn(s)' = OffencesOn(s) \cup {c}
      BY <1>17, <2>2
    <3>2. Cardinality(OffencesOn(s)') = Cardinality(OffencesOn(s)) + 1
      BY <1>17, <1>22, <3>1, FS_AddElement
    <3>3. old.violation_count = before.violation_count + 1
      BY <1>13, <2>2 DEF ViolationsAfter
    <3>4. QED
      BY <1>22, <2>1, <3>2, <3>3
  <2>3. CASE ~IsViolation(old.classification)
    BY <1>13, <1>17, <1>22, <2>1, <2>3 DEF ViolationsAfter
  <2>4. QED
    BY <2>1, <2>2, <2>3
<1>24. RowsExact'
  <2>1. ASSUME NEW t \in Sessions, t # s
        PROVE  /\ IsFiniteSet(ReturnedOn(t)')
               /\ sessions'[t].question_count = Cardinality(ReturnedOn(t)')
               /\ sessions'[t].violation_count = Cardinality(OffencesOn(t)')
    BY <1>10, <1>18, <2>1 DEF SerialInv, RowsExact
  <2>2. QED
    BY <1>9, <1>10, <1>23, <2>1 DEF RowsExact
<1>25. old.escalated <=> old.violation_count >= EscalateAt
  <2>1. before.violation_count \in Nat /\ EscalateAt \in Nat
    BY ThresholdsAssumption DEF SessionRow, ThresholdsAssumption
  <2>2. before.escalated <=> before.violation_count >= EscalateAt
    BY <1>3, <1>4 DEF SerialInv, ThresholdExact
  <2>3. CASE IsViolation(old.classification)
    <3>1. old.violation_count = before.violation_count + 1
      BY <1>13, <2>3 DEF ViolationsAfter
    <3>2. old.escalated <=> before.escalated \/ old.violation_count >= EscalateAt
      BY <1>13, <2>3 DEF EscalatesAfter
    <3>3. before.violation_count >= EscalateAt => old.violation_count >= EscalateAt
      BY <2>1, <3>1
    <3>4. QED
      BY <2>2, <3>2, <3>3
  <2>4. CASE ~IsViolation(old.classification)
    BY <1>13, <2>2, <2>4 DEF ViolationsAfter
  <2>5. QED
    BY <2>3, <2>4
<1>26. OffencesCounted'
  <2> SUFFICES ASSUME NEW t \in Sessions, NEW d \in ReturnedOn(t)'
      PROVE  /\ call'[d].violation_count
                  = Cardinality({e \in OffencesOn(t)' :
                                   call'[e].question_count <= call'[d].question_count})
             /\ call'[d].escalated <=> call'[d].violation_count >= EscalateAt
    BY DEF OffencesCounted, OffencesUpTo
  <2>1. ASSUME d \in ReturnedOn(t)
        PROVE  /\ call[d].violation_count
                    = Cardinality({e \in OffencesOn(t) :
                                     call[e].question_count <= call[d].question_count})
               /\ call[d].escalated <=> call[d].violation_count >= EscalateAt
    BY <2>1 DEF SerialInv, OffencesCounted, OffencesUpTo
  <2>2. CASE t # s
    <3>1. d \in ReturnedOn(t) /\ call'[d] = call[d]
      BY <1>18, <2>2
    <3>2. {e \in OffencesOn(t)' : call'[e].question_count <= call'[d].question_count}
            = {e \in OffencesOn(t) : call[e].question_count <= call[d].question_count}
      BY <1>18, <2>2, <3>1 DEF OffencesOn
    <3>3. QED
      BY <2>1, <3>1, <3>2
  <2>3. CASE t = s /\ d \in ReturnedOn(s)
    <3>1. call'[d] = call[d] /\ call[d].question_count \in 1 .. before.question_count
      BY <1>17, <1>20, <2>3
    <3>2. ~(call'[c].question_count <= call[d].question_count)
      BY <1>1, <1>10, <1>13, <1>19, <3>1
    <3>3. \A e \in OffencesOn(s) : call'[e] = call[e]
      BY <1>17 DEF OffencesOn
    <3>4. {e \in OffencesOn(s)' : call'[e].question_count <= call'[d].question_count}
            = {e \in OffencesOn(s) : call[e].question_count <= call[d].question_count}
      BY <1>17, <3>1, <3>2, <3>3
    <3>5. QED
      BY <2>1, <2>3, <3>1, <3>4
  <2>4. CASE t = s /\ d = c
    <3>1. call'[c].question_count = before.question_count + 1
      BY <1>1, <1>10, <1>13
    <3>2. \A e \in OffencesOn(s)' : call'[e].question_count <= before.question_count + 1
      <4>1. \A e \in OffencesOn(s) : call'[e].question_count <= before.question_count + 1
        BY <1>17, <1>19, <1>20 DEF OffencesOn
      <4>2. QED
        BY <1>17, <1>19, <3>1, <4>1
    <3>3. {e \in OffencesOn(s)' : call'[e].question_count <= call'[c].question_count}
            = OffencesOn(s)'
      BY <3>1, <3>2
    <3>4. QED
      BY <1>8, <1>10, <1>23, <1>25, <2>4, <3>3
  <2>5. QED
    BY <1>17, <2>2, <2>3, <2>4
<1>27. ThresholdExact'
  <2>1. sessions'[s].escalated <=> sessions'[s].violation_count >= EscalateAt
    BY <1>9, <1>10, <1>25
  <2>2. QED
    BY <1>10, <2>1 DEF SerialInv, ThresholdExact
<1>28. QED
  BY <1>14, <1>15, <1>16, <1>21, <1>24, <1>26, <1>27 DEF SerialInv

\* No step of serialised turns breaks their invariant.
LEMMA SerialStepKeepsInv ==
  ASSUME Serialized = TRUE, SerialInv, [GuardianNext]_guardianVars
  PROVE  SerialInv'
<1>1. GuardianInv' /\ VerdictsOnFile'
  BY GuardianStepKeepsInv, VerdictsStayOnFile DEF SerialInv
<1>2. ASSUME NEW s \in Sessions, SessionStart(s)
      PROVE  SerialInv'
  BY <1>1, <1>2, SessionStartKeepsSerial
<1>3. ASSUME NEW s \in Sessions, SessionEnd(s)
      PROVE  SerialInv'
  BY <1>1, <1>3, SessionEndKeepsSerial
<1>4. ASSUME NEW c \in Calls, NEW s \in Sessions, CallValidate(c, s)
      PROVE  SerialInv'
  BY <1>1, <1>4, CallValidateKeepsSerial
<1>5. ASSUME NEW c \in Calls, ValidateStep(c)
      PROVE  SerialInv'
  BY <1>1, <1>5, ReadSessionKeepsSerial, ClassifyKeepsSerial,
     InsertViolationKeepsSerial, InsertQuestionKeepsSerial,
     UpdateCountersKeepsSerial, RaisingKeepsSerial DEF ValidateStep
<1>6. CASE UNCHANGED guardianVars
  <2>1. UNCHANGED <<sessions, questions, violations, call>>
    BY <1>6 DEF guardianVars
  <2>2. OneCallAtATime' /\ RowsOwned' /\ CopiesCurrent'
    BY <2>1 DEF SerialInv, OneCallAtATime, RowsOwned, CopiesCurrent, InFlight
  <2>3. ReturnsNumbered' /\ RowsExact' /\ OffencesCounted' /\ ThresholdExact'
    BY <2>1, CountsStayExact DEF SerialInv
  <2>4. QED
    BY <1>1, <2>2, <2>3 DEF SerialInv
<1>7. QED
  BY <1>2, <1>3, <1>4, <1>5, <1>6 DEF GuardianNext

\* When the client waits for each answer, the invariant of serialised turns is
\* never untrue, whichever transactions fail and whenever the session ends.
THEOREM SerialInvariant ==
  ASSUME Serialized = TRUE
  PROVE  GuardianSpec => []SerialInv
<1>1. GuardianInit => SerialInv
  BY SerialInit
<1>2. SerialInv /\ [GuardianNext]_guardianVars => SerialInv'
  BY SerialStepKeepsInv
<1>3. QED
  BY <1>1, <1>2, PTL DEF GuardianSpec

\* The row counts the verdicts given on the session and the violations among
\* them, and the questions of these verdicts are on file, numbered 1, 2, ...
THEOREM CountersAreExact ==
  ASSUME Serialized = TRUE
  PROVE  GuardianSpec => []CountersExact
<1>1. SerialInv => CountersExact
  <2> SUFFICES ASSUME SerialInv, NEW s \in Sessions
      PROVE  /\ sessions[s].question_count = Cardinality(ReturnedOn(s))
             /\ sessions[s].violation_count = Cardinality(OffencesOn(s))
             /\ {q.sequence_number : q \in AnsweredQuestions(s)}
                  = 1 .. sessions[s].question_count
    BY DEF CountersExact
  <2>1. \A q \in AnsweredQuestions(s) : \E c \in ReturnedOn(s) :
          q.sequence_number = call[c].question_count
    BY DEF AnsweredQuestions, QuestionsOf, RowsOf, SerialInv, RowsOwned
  <2>2. \A c \in ReturnedOn(s) : \E q \in AnsweredQuestions(s) :
          q.sequence_number = call[c].question_count
    <3>1. ASSUME NEW c \in ReturnedOn(s)
          PROVE  \E q \in questions : /\ q.question_id = c
                                      /\ q.session = s
                                      /\ q.sequence_number = call[c].question_count
      BY <3>1 DEF SerialInv, VerdictsOnFile, ReturnedOn
    <3>2. QED
      BY <3>1 DEF AnsweredQuestions, QuestionsOf, RowsOf
  <2>3. {q.sequence_number : q \in AnsweredQuestions(s)}
          = {call[c].question_count : c \in ReturnedOn(s)}
    BY <2>1, <2>2
  <2>4. QED
    BY <2>3 DEF SerialInv, RowsExact, ReturnsNumbered
<1>2. QED
  BY <1>1, SerialInvariant, PTL

\* A session with EscalateAt violations among its verdicts is escalated.
THEOREM ThreeViolationsDoEscalate ==
  ASSUME Serialized = TRUE
  PROVE  GuardianSpec => []ThreeViolationsEscalate
<1>1. SerialInv => ThreeViolationsEscalate
  BY DEF SerialInv, RowsExact, ThresholdExact, ThreeViolationsEscalate
<1>2. QED
  BY <1>1, SerialInvariant, PTL

-----------------------------------------------------------------------------

\* Which steps change which table, and which call they wake or move.
LEMMA WhoWrites ==
  ASSUME [GuardianNext]_guardianVars, call \in [Calls -> CallState]
  PROVE  /\ questions' = questions \/ \E c \in Calls : InsertQuestion(c)
         /\ violations' = violations \/ \E c \in Calls : InsertViolation(c)
         /\ \/ sessions' = sessions
            \/ \E s \in Sessions : SessionStart(s) \/ SessionEnd(s)
            \/ \E c \in Calls : UpdateCounters(c)
         /\ \A d \in Calls :
              \/ call'[d] = call[d]
              \/ call[d].pc # "idle" /\ ValidateStep(d)
              \/ \E s \in Sessions : CallValidate(d, s)
<1>1. ASSUME NEW c \in Calls, ValidateStep(c)
      PROVE  /\ questions' = questions \/ InsertQuestion(c)
             /\ violations' = violations \/ InsertViolation(c)
             /\ sessions' = sessions \/ UpdateCounters(c)
             /\ call[c].pc # "idle"
             /\ \A d \in Calls : d # c => call'[d] = call[d]
  <2>1. CASE ReadSession(c)
    BY <2>1 DEF ReadSession
  <2>2. CASE ReadClosedSession(c)
    BY <2>2 DEF ReadClosedSession
  <2>3. CASE Classify(c)
    BY <2>3 DEF Classify
  <2>4. CASE InsertViolation(c)
    BY <2>4 DEF InsertViolation
  <2>5. CASE InsertQuestion(c)
    BY <2>5 DEF InsertQuestion
  <2>6. CASE UpdateCounters(c)
    BY <2>6 DEF UpdateCounters
  <2>7. CASE RecordFails(c) \/ StoreFails(c)
    BY <2>7 DEF RecordFails, StoreFails
  <2>8. QED
    BY <1>1, <2>1, <2>2, <2>3, <2>4, <2>5, <2>6, <2>7 DEF ValidateStep
<1>2. ASSUME NEW c \in Calls, NEW s \in Sessions, CallValidate(c, s)
      PROVE  /\ UNCHANGED <<sessions, questions, violations>>
             /\ \A d \in Calls : d # c => call'[d] = call[d]
  BY <1>2 DEF CallValidate
<1>3. ASSUME NEW s \in Sessions, SessionStart(s) \/ SessionEnd(s)
      PROVE  UNCHANGED <<questions, violations, call>>
  BY <1>3 DEF SessionStart, SessionEnd
<1>4. CASE UNCHANGED guardianVars
  BY <1>4 DEF guardianVars
<1>5. CASE \E s \in Sessions : SessionStart(s) \/ SessionEnd(s)
  BY <1>3, <1>5
<1>6. CASE \E c \in Calls : ValidateStep(c)
  BY <1>1, <1>6
<1>7. CASE \E c \in Calls : \E s \in Sessions : CallValidate(c, s)
  BY <1>2, <1>7
<1>8. QED
  BY <1>4, <1>5, <1>6, <1>7 DEF GuardianNext

-----------------------------------------------------------------------------
(***************************************************************************)
(* A closed session: only a call that read the row before the close can    *)
(* still write, however turns overlap.                                     *)
(***************************************************************************)

\* A call on a quiet session can only raise.
LEMMA QuietCallsRaise ==
  ASSUME GuardianInv, NEW s \in Sessions, Quiet(s), NEW c \in Calls, ValidateStep(c),
         call[c].session = s
  PROVE  call'[c].pc = "raised"
<1>1. PICK old \in CallState : old = call[c]
  BY DEF GuardianInv, GuardianTypeOK
<1>2. call[c].pc \notin Computing /\ sessions[s].status = "closed"
  BY DEF Quiet, Working
<1>3. ReadClosedSession(c) \/ StoreFails(c)
  BY <1>2 DEF ValidateStep, ReadSession, Classify, InsertViolation, InsertQuestion,
     UpdateCounters, RecordFails, Computing
<1>4. call'[c] = [old EXCEPT !.pc = "raised"]
  BY <1>1, <1>3 DEF ReadClosedSession, StoreFails, GuardianInv, GuardianTypeOK
<1>5. QED
  BY <1>4 DEF CallState

LEMMA QuietStays ==
  ASSUME GuardianInv, [GuardianNext]_guardianVars, NEW s \in Sessions, Quiet(s)
  PROVE  /\ Quiet(s)'
         /\ sessions'[s] = sessions[s]
         /\ QuestionsOf(s)' = QuestionsOf(s)
         /\ ViolationsOf(s)' = ViolationsOf(s)
<1>1. /\ sessions \in [Sessions -> SessionRow]
      /\ call \in [Calls -> CallState]
      /\ sessions[s].status = "closed"
      /\ \A c \in Calls : call[c].session = s => call[c].pc \notin Computing
  BY DEF GuardianInv, GuardianTypeOK, Quiet, Working
<1>2. ~Working(s)'
  <2> SUFFICES ASSUME NEW c \in Calls, call'[c].session = s
      PROVE  call'[c].pc \notin Computing
    BY DEF Working
  <2>1. CASE call'[c] = call[c]
    BY <1>1, <2>1
  <2>2. CASE call[c].pc # "idle" /\ ValidateStep(c)
    <3>1. call'[c].session = call[c].session
      BY <2>2, CallsMoveOn
    <3>2. call'[c].pc = "raised"
      BY <2>2, <3>1, QuietCallsRaise
    <3>3. QED
      BY <3>2 DEF Computing
  <2>3. CASE \E t \in Sessions : CallValidate(c, t)
    <3>1. PICK old \in CallState : old = call[c]
      BY <1>1
    <3>2. PICK t \in Sessions : call'[c] = [old EXCEPT !.pc = "read", !.session = t]
      BY <1>1, <2>3, <3>1 DEF CallValidate
    <3>3. call'[c].pc = "read"
      BY <3>2 DEF CallState
    <3>4. QED
      BY <3>3 DEF Computing
  <2>4. QED
    BY <1>1, <2>1, <2>2, <2>3, WhoWrites
<1>3. sessions'[s] = sessions[s]
  <2>1. ASSUME NEW t \in Sessions, SessionStart(t) \/ SessionEnd(t)
        PROVE  sessions'[s] = sessions[s]
    BY <1>1, <2>1 DEF SessionStart, SessionEnd
  <2>2. ASSUME NEW c \in Calls, UpdateCounters(c)
        PROVE  sessions'[s] = sessions[s]
    BY <1>1, <2>2 DEF UpdateCounters, Computing
  <2>3. QED
    BY <1>1, <2>1, <2>2, WhoWrites
<1>4. QuestionsOf(s)' = QuestionsOf(s)
  <2>1. ASSUME NEW c \in Calls, InsertQuestion(c)
        PROVE  QuestionsOf(s)' = QuestionsOf(s)
    <3>1. \A q \in QuestionRowsOf(c) : q.session # s
      BY <1>1, <2>1 DEF InsertQuestion, QuestionRowsOf, Computing
    <3>2. QED
      BY <2>1, <3>1 DEF InsertQuestion, QuestionsOf, RowsOf
  <2>2. questions' = questions => QuestionsOf(s)' = QuestionsOf(s)
    BY DEF QuestionsOf, RowsOf
  <2>3. QED
    BY <1>1, <2>1, <2>2, WhoWrites
<1>5. ViolationsOf(s)' = ViolationsOf(s)
  <2>1. ASSUME NEW c \in Calls, InsertViolation(c)
        PROVE  ViolationsOf(s)' = ViolationsOf(s)
    <3>1. \A v \in ViolationRowsOf(c) : v.session # s
      BY <1>1, <2>1 DEF InsertViolation, ViolationRowsOf, Computing
    <3>2. QED
      BY <2>1, <3>1 DEF InsertViolation, ViolationsOf, RowsOf
  <2>2. violations' = violations => ViolationsOf(s)' = ViolationsOf(s)
    BY DEF ViolationsOf, RowsOf
  <2>3. QED
    BY <1>1, <2>1, <2>2, WhoWrites
<1>6. QED
  BY <1>1, <1>2, <1>3, <1>4, <1>5 DEF Quiet

\* Once a session is closed and the calls that read its row before the close are
\* done, nothing is filed or counted on it any more.
THEOREM ClosedSessionsAreFrozen == GuardianSpec => ClosedSessionsFrozen
<1>1. GuardianInv /\ [GuardianNext]_guardianVars =>
        [\A s \in Sessions : Quiet(s) =>
           /\ Quiet(s)'
           /\ sessions'[s] = sessions[s]
           /\ QuestionsOf(s)' = QuestionsOf(s)
           /\ ViolationsOf(s)' = ViolationsOf(s)]_guardianVars
  BY QuietStays
<1>2. QED
  BY <1>1, GuardianInvariant, PTL DEF GuardianSpec, ClosedSessionsFrozen

-----------------------------------------------------------------------------
(***************************************************************************)
(* With serialised turns an escalation stays in the row, so a call that    *)
(* has yet to read it can only return REJECTED.                            *)
(***************************************************************************)

\* No step of serialised turns takes an escalation back: the copy that is written
\* was made of the row as it is.
LEMMA EscalationStays ==
  ASSUME SerialInv, [GuardianNext]_guardianVars, NEW s \in Sessions, sessions[s].escalated
  PROVE  sessions'[s].escalated
<1>1. /\ sessions \in [Sessions -> SessionRow]
      /\ call \in [Calls -> CallState]
  BY DEF SerialInv, GuardianInv, GuardianTypeOK
<1>2. ASSUME NEW t \in Sessions, SessionStart(t)
      PROVE  sessions'[s].escalated
  <2>1. t # s
    BY <1>2, NothingBeforeStart DEF SessionStart
  <2>2. QED
    BY <1>1, <1>2, <2>1 DEF SessionStart
<1>3. ASSUME NEW t \in Sessions, SessionEnd(t)
      PROVE  sessions'[s].escalated
  BY <1>1, <1>3 DEF SessionEnd, SessionRow
<1>4. ASSUME NEW c \in Calls, UpdateCounters(c)
      PROVE  sessions'[s].escalated
  <2>1. PICK old \in CallState : old = call[c]
    BY <1>1
  <2>2. PICK before \in SessionRow : before = sessions[s]
    BY <1>1
  <2>3. CASE old.session # s
    BY <1>1, <1>4, <2>1, <2>3 DEF UpdateCounters
  <2>4. CASE old.session = s
    <3>1. old.pc = "counters"
      BY <1>4, <2>1 DEF UpdateCounters
    <3>2. Current(old, before)
      BY <2>1, <2>2, <2>4, <3>1 DEF SerialInv, CopiesCurrent, InFlight, Ended
    <3>3. old.escalated
      BY <2>2, <3>1, <3>2 DEF Current, EscalatesAfter
    <3>4. PICK row : row = Stored(before, old)
      OBVIOUS
    <3>5. sessions'[s] = row
      BY <1>1, <1>4, <2>1, <2>2, <2>4, <3>4 DEF UpdateCounters
    <3>6. row.escalated = old.escalated
      BY <3>4 DEF Stored, SessionRow
    <3>7. QED
      BY <3>3, <3>5, <3>6
  <2>5. QED
    BY <2>3, <2>4
<1>5. QED
  BY <1>1, <1>2, <1>3, <1>4, WhoWrites

\* With serialised turns an escalation is never taken back, whatever fails and
\* whenever the session ends.
THEOREM EscalationsAreKept ==
  ASSUME Serialized = TRUE
  PROVE  GuardianSpec => EscalationKept
<1>1. SerialInv /\ [GuardianNext]_guardianVars =>
        [\A s \in Sessions : sessions[s].escalated => sessions'[s].escalated]_guardianVars
  BY EscalationStays
<1>2. QED
  BY <1>1, SerialInvariant, PTL DEF GuardianSpec, EscalationKept

BoundToReject(s, st) ==
  /\ sessions[s].escalated
  /\ st.session = s =>
       /\ st.pc \in Computing => st.escalated
       /\ st.pc = "returned" => st.guidance = "REJECTED"

\* A classified call goes on to file, with the copies it has.
LEMMA ClassifyPasses ==
  ASSUME GuardianInv, NEW c \in Calls, Classify(c)
  PROVE  /\ call[c].pc = "classify"
         /\ call'[c].pc \in {"violation", "question"}
         /\ call'[c].escalated = call[c].escalated
<1>1. PICK old \in CallState : old = call[c]
  BY DEF GuardianInv, GuardianTypeOK
<1>2. PICK answer \in Verdicts \cup {"error"} :
        call' = [call EXCEPT ![c].pc = IF IsViolation(ClassificationOf(answer))
                                       THEN "violation" ELSE "question",
                             ![c].classifier = answer,
                             ![c].classification = ClassificationOf(answer)]
  BY DEF Classify
<1>3. PICK classification : classification = ClassificationOf(answer)
  OBVIOUS
<1>4. PICK point : point = IF IsViolation(classification) THEN "violation" ELSE "question"
  OBVIOUS
<1>5. call'[c] = [old EXCEPT !.pc = point, !.classifier = answer,
                             !.classification = classification]
  BY <1>1, <1>2, <1>3, <1>4 DEF GuardianInv, GuardianTypeOK
<1>6. call'[c].pc = point /\ call'[c].escalated = old.escalated
  BY <1>5 DEF CallState
<1>7. call[c].pc = "classify"
  BY DEF Classify
<1>8. QED
  BY <1>1, <1>4, <1>6, <1>7

\* A call on an escalated session hands the escalation on from copy to copy.
LEMMA BoundToRejectStays ==
  ASSUME SerialInv, [GuardianNext]_guardianVars,
         NEW s \in Sessions, NEW c \in Calls, BoundToReject(s, call[c])
  PROVE  BoundToReject(s, call[c])'
<1>1. PICK old \in CallState : old = call[c]
  BY DEF SerialInv, GuardianInv, GuardianTypeOK
<1>2. /\ call \in [Calls -> CallState]
      /\ sessions \in [Sessions -> SessionRow]
  BY DEF SerialInv, GuardianInv, GuardianTypeOK
<1>3. sessions[s].escalated /\ sessions'[s].escalated
  BY EscalationStays DEF BoundToReject
<1>4. CASE call'[c] = call[c]
  BY <1>3, <1>4 DEF BoundToReject
<1>5. CASE \E t \in Sessions : CallValidate(c, t)
  <2>1. PICK t \in Sessions : call'[c] = [old EXCEPT !.pc = "read", !.session = t]
    BY <1>1, <1>2, <1>5 DEF CallValidate
  <2>2. call'[c].pc = "read"
    BY <2>1 DEF CallState
  <2>3. QED
    BY <1>3, <2>2 DEF BoundToReject, Computing
<1>6. CASE call[c].pc # "idle" /\ ValidateStep(c)
  <2>1. call'[c].session = call[c].session
    BY <1>6, CallsMoveOn DEF SerialInv
  <2> SUFFICES ASSUME old.session = s
      PROVE  /\ call'[c].pc \in Computing => call'[c].escalated
             /\ call'[c].pc = "returned" => call'[c].guidance = "REJECTED"
    BY <1>1, <1>3, <2>1 DEF BoundToReject
  <2>2. old.pc \in Computing => old.escalated
    BY <1>1 DEF BoundToReject
  <2>3. CASE ReadSession(c)
    <3>1. PICK row \in SessionRow : row = sessions[s]
      BY <1>2
    <3>2. PICK st : st = Loaded(old, row)
      OBVIOUS
    <3>3. call'[c] = st
      BY <1>1, <1>2, <2>3, <3>1, <3>2 DEF ReadSession
    <3>4. st.pc = "classify" /\ st.escalated = row.escalated
      BY <3>2, LoadedCopies
    <3>5. QED
      BY <1>3, <3>1, <3>3, <3>4
  <2>4. CASE ReadClosedSession(c) \/ RecordFails(c) \/ StoreFails(c)
    <3>1. call'[c] = [old EXCEPT !.pc = "raised"]
      BY <1>1, <1>2, <2>4 DEF ReadClosedSession, RecordFails, StoreFails
    <3>2. call'[c].pc = "raised"
      BY <3>1 DEF CallState
    <3>3. QED
      BY <3>2 DEF Computing
  <2>5. CASE Classify(c)
    <3>1. /\ call[c].pc = "classify"
          /\ call'[c].pc \in {"violation", "question"}
          /\ call'[c].escalated = call[c].escalated
      BY <2>5, ClassifyPasses DEF SerialInv
    <3>2. QED
      BY <1>1, <2>2, <3>1 DEF Computing
  <2>6. CASE InsertViolation(c)
    <3>1. old.pc = "violation"
      BY <1>1, <2>6 DEF InsertViolation
    <3>2. PICK vc, esc : /\ vc = old.violation_count + 1
                         /\ esc = EscalatesAfter(old.escalated, vc)
      OBVIOUS
    <3>3. esc
      BY <2>2, <3>1, <3>2 DEF EscalatesAfter, Computing
    <3>4. call'[c] = [old EXCEPT !.pc = "question", !.violation_count = vc,
                                 !.escalated = esc]
      BY <1>1, <1>2, <2>6, <3>2 DEF InsertViolation, Offended
    <3>5. call'[c].pc = "question" /\ call'[c].escalated = esc
      BY <3>4 DEF CallState
    <3>6. QED
      BY <3>3, <3>5
  <2>7. CASE InsertQuestion(c)
    <3>1. old.pc = "question"
      BY <1>1, <2>7 DEF InsertQuestion
    <3>2. call'[c] = [old EXCEPT !.pc = "counters"]
      BY <1>1, <1>2, <2>7 DEF InsertQuestion
    <3>3. call'[c].pc = "counters" /\ call'[c].escalated = old.escalated
      BY <3>2 DEF CallState
    <3>4. QED
      BY <2>2, <3>1, <3>3 DEF Computing
  <2>8. CASE UpdateCounters(c)
    <3>1. old.pc = "counters" /\ old.escalated
      BY <1>1, <2>2, <2>8 DEF UpdateCounters, Computing
    <3>2. GuidanceOf(old) = "REJECTED"
      BY <3>1 DEF GuidanceOf, DeriveGuidanceLevel
    <3>3. call'[c] = [old EXCEPT !.pc = "returned", !.guidance = "REJECTED"]
      BY <1>1, <1>2, <2>8, <3>2 DEF UpdateCounters
    <3>4. call'[c].pc = "returned" /\ call'[c].guidance = "REJECTED"
      BY <3>3 DEF CallState
    <3>5. QED
      BY <3>4 DEF Computing
  <2>9. QED
    BY <1>6, <2>3, <2>4, <2>5, <2>6, <2>7, <2>8 DEF ValidateStep
<1>7. QED
  BY <1>2, <1>4, <1>5, <1>6, WhoWrites

\* "all subsequent turns rejected": from the escalation on, a call that has not
\* read the row yet returns REJECTED if it returns on that session at all.
THEOREM SubsequentTurnsAreRejected ==
  ASSUME Serialized = TRUE
  PROVE  GuardianSpec => SubsequentTurnsRejected
<1>1. ASSUME NEW s \in Sessions, NEW c \in Calls
      PROVE  GuardianSpec =>
               [](sessions[s].escalated /\ call[c].pc \in {"idle", "read"}
                    => [](call[c].session = s /\ call[c].pc = "returned"
                            => call[c].guidance = "REJECTED"))
  <2>1. sessions[s].escalated /\ call[c].pc \in {"idle", "read"}
          => BoundToReject(s, call[c])
    BY DEF BoundToReject, Computing
  <2>2. SerialInv /\ BoundToReject(s, call[c]) /\ [GuardianNext]_guardianVars
          => BoundToReject(s, call[c])'
    BY BoundToRejectStays
  <2>3. BoundToReject(s, call[c])
          => (call[c].session = s /\ call[c].pc = "returned"
                => call[c].guidance = "REJECTED")
    BY DEF BoundToReject
  <2>4. QED
    BY <2>1, <2>2, <2>3, SerialInvariant, PTL DEF GuardianSpec
<1>2. QED
  BY <1>1 DEF SubsequentTurnsRejected

-----------------------------------------------------------------------------
(***************************************************************************)
(* Serialised turns implement the ledger: the call that reads the row      *)
(* takes the question up, the transaction that writes the counters counts  *)
(* it on that row, and the call that takes it is the last that returned.   *)
(***************************************************************************)

\* The call with the largest count is the only one there is to choose.
LEMMA LargestCount ==
  ASSUME NEW R \in SUBSET Calls, NEW table \in [Calls -> CallState], NEW m \in R,
         \A d \in R : table[d].question_count <= table[m].question_count,
         \A d, e \in R : table[d].question_count = table[e].question_count => d = e
  PROVE  (CHOOSE c \in R : \A d \in R :
            table[d].question_count <= table[c].question_count) = m
<1> DEFINE Last(c) == c \in R /\ \A d \in R :
                        table[d].question_count <= table[c].question_count
<1>1. Last(m)
  OBVIOUS
<1>2. \A c : Last(c) => c = m
  <2>1. \A d \in R : table[d].question_count \in Nat
    BY DEF CallState
  <2>2. QED
    BY <2>1
<1>3. (CHOOSE c : Last(c)) = m
  <2> HIDE DEF Last
  <2>1. Last(CHOOSE c : Last(c))
    BY <1>1
  <2>2. QED
    BY <1>2, <2>1
<1>4. QED
  BY <1>3

\* The last verdict of a session, once it is known which call gave it.
LEMMA LastVerdictIs ==
  ASSUME SerialInv, NEW s \in Sessions, NEW m \in ReturnedOn(s),
         call[m].question_count = sessions[s].question_count
  PROVE  LastVerdict(s) = VerdictOfCall(call[m])
<1>1. /\ ReturnedOn(s) \in SUBSET Calls
      /\ call \in [Calls -> CallState]
      /\ \A d \in ReturnedOn(s) :
           call[d].question_count \in 1 .. sessions[s].question_count
      /\ \A d, e \in ReturnedOn(s) :
           call[d].question_count = call[e].question_count => d = e
  BY DEF SerialInv, ReturnsNumbered, ReturnedOn, GuardianInv, GuardianTypeOK
<1>2. \A d \in ReturnedOn(s) : call[d].question_count <= call[m].question_count
  BY <1>1
<1>3. (CHOOSE c \in ReturnedOn(s) : \A d \in ReturnedOn(s) :
         call[d].question_count <= call[c].question_count) = m
  BY <1>1, <1>2, LargestCount
<1>4. QED
  BY <1>3 DEF LastVerdict

\* The same of the next state, where the call that returns may be the last.
LEMMA NextVerdictIs ==
  ASSUME SerialInv', NEW s \in Sessions, NEW m \in ReturnedOn(s)',
         call'[m].question_count = sessions'[s].question_count
  PROVE  LastVerdict(s)' = VerdictOfCall(call'[m])
<1>1. /\ ReturnedOn(s)' \in SUBSET Calls
      /\ call' \in [Calls -> CallState]
      /\ \A d \in ReturnedOn(s)' :
           call'[d].question_count \in 1 .. sessions'[s].question_count
      /\ \A d, e \in ReturnedOn(s)' :
           call'[d].question_count = call'[e].question_count => d = e
  BY DEF SerialInv, ReturnsNumbered, ReturnedOn, GuardianInv, GuardianTypeOK
<1>2. \A d \in ReturnedOn(s)' : call'[d].question_count <= call'[m].question_count
  BY <1>1
<1>3. (CHOOSE c \in ReturnedOn(s)' : \A d \in ReturnedOn(s)' :
         call'[d].question_count <= call'[c].question_count) = m
  BY <1>1, <1>2, LargestCount
<1>4. QED
  BY <1>3 DEF LastVerdict

\* A step on which no call of the session returns leaves its last verdict.
LEMMA LastVerdictStays ==
  ASSUME SerialInv, SerialInv', NEW s \in Sessions,
         sessions'[s].question_count = sessions[s].question_count \/ ReturnedOn(s) = {},
         \A c \in Calls : call[c].pc = "returned" => call'[c] = call[c],
         \A c \in Calls : call'[c].pc = "returned" /\ call'[c].session = s
                            => call[c].pc = "returned"
  PROVE  LastVerdict(s)' = LastVerdict(s)
<1>1. ReturnedOn(s)' = ReturnedOn(s) /\ \A c \in ReturnedOn(s) : call'[c] = call[c]
  BY DEF ReturnedOn
<1>2. CASE ReturnedOn(s) = {}
  BY <1>1, <1>2 DEF LastVerdict
<1>3. CASE ReturnedOn(s) # {}
  <2>1. PICK m \in ReturnedOn(s) : call[m].question_count = sessions[s].question_count
    <3>1. {call[c].question_count : c \in ReturnedOn(s)} = 1 .. sessions[s].question_count
      BY DEF SerialInv, ReturnsNumbered
    <3>2. sessions[s].question_count \in Nat
      BY DEF SerialInv, GuardianInv, GuardianTypeOK, SessionRow
    <3>3. sessions[s].question_count \in 1 .. sessions[s].question_count
      BY <1>3, <3>1, <3>2
    <3>4. QED
      BY <3>1, <3>3
  <2>2. LastVerdict(s) = VerdictOfCall(call[m])
    BY <2>1, LastVerdictIs
  <2>3. /\ m \in ReturnedOn(s)'
        /\ call'[m].question_count = sessions'[s].question_count
    BY <1>1, <1>3, <2>1
  <2>4. LastVerdict(s)' = VerdictOfCall(call'[m])
    BY <2>3, NextVerdictIs
  <2>5. QED
    BY <1>1, <2>1, <2>2, <2>4
<1>4. QED
  BY <1>2, <1>3

LEMMA LedgerInitially == GuardianInit => Ledger!LedgerInit
<1> SUFFICES ASSUME GuardianInit PROVE Ledger!LedgerInit
  OBVIOUS
<1>1. sessions = [s \in Sessions |-> Ledger!NoRow]
  BY DEF GuardianInit, NoRow, Ledger!NoRow
<1>2. \A s : ReturnedOn(s) = {}
  BY DEF GuardianInit, NoCall, ReturnedOn
<1>3. \A s : LastVerdict(s) = Ledger!NoVerdict
  BY <1>2 DEF LastVerdict, Ledger!NoVerdict
<1>4. \A s : Working(s) = FALSE
  BY DEF GuardianInit, NoCall, Working, Computing
<1>5. QED
  BY <1>1, <1>3, <1>4 DEF Ledger!LedgerInit

\* A step that returns nothing and writes no counters changes no verdict.
LEMMA NothingReturned ==
  ASSUME SerialInv, SerialInv',
         \A s \in Sessions : sessions'[s].question_count = sessions[s].question_count,
         \A c \in Calls : call[c].pc = "returned" => call'[c] = call[c],
         \A c \in Calls : call'[c].pc = "returned" => call[c].pc = "returned"
  PROVE  [s \in Sessions |-> LastVerdict(s)]' = [s \in Sessions |-> LastVerdict(s)]
<1>1. \A s \in Sessions : LastVerdict(s)' = LastVerdict(s)
  BY LastVerdictStays
<1>2. QED
  BY <1>1

\* A step of a call in flight decides whether its session is worked on, and
\* leaves the other sessions alone.
LEMMA WorkingFollowsCall ==
  ASSUME SerialInv, NEW c \in Calls, NEW s \in Sessions, InFlight(c), call[c].session = s,
         call'[c].session = s, \A d \in Calls : d # c => call'[d] = call[d]
  PROVE  /\ Working(s) <=> call[c].pc \in Computing
         /\ Working(s)' <=> call'[c].pc \in Computing
         /\ \A t \in Sessions : t # s => (Working(t)' <=> Working(t))
<1>1. \A d \in Calls : d # c /\ call[d].session = s => call[d].pc \notin Computing
  BY AloneOnSession DEF SerialInv, InFlight, Computing, Ended
<1>2. QED
  BY <1>1 DEF Working

\* The ledger's pending, once it is known on which sessions a call is at work.
LEMMA PendingOf ==
  ASSUME NEW s \in Sessions, NEW value \in BOOLEAN, Working(s)' <=> value,
         \A t \in Sessions : t # s => (Working(t)' <=> Working(t))
  PROVE  [t \in Sessions |-> Working(t)]'
           = [[t \in Sessions |-> Working(t)] EXCEPT ![s] = value]
<1>1. /\ \A t \in Sessions : t # s => Working(t)' = Working(t)
      /\ Working(s)' = value
  BY DEF Working
<1>2. QED
  BY <1>1

\* The start of a session is the ledger's Open.
LEMMA StartOpens ==
  ASSUME SerialInv, SerialInv', NEW s \in Sessions, SessionStart(s)
  PROVE  Ledger!Open(s)
<1>1. /\ sessions[s].status = "none"
      /\ sessions' = [sessions EXCEPT ![s] = Ledger!FreshRow]
      /\ call' = call
  BY DEF SessionStart, NoRow, Ledger!NoRow, Ledger!FreshRow
<1>2. \A c \in Calls : call[c].session = s => call[c].pc = "idle"
  BY <1>1 DEF SerialInv, RowsOwned
<1>3. ReturnedOn(s) = {}
  BY <1>2 DEF ReturnedOn
<1>4. \A t \in Sessions : t # s => sessions'[t] = sessions[t]
  BY <1>1 DEF SerialInv, GuardianInv, GuardianTypeOK
<1>5. \A t \in Sessions : LastVerdict(t)' = LastVerdict(t)
  <2> SUFFICES ASSUME NEW t \in Sessions PROVE LastVerdict(t)' = LastVerdict(t)
    OBVIOUS
  <2>1. sessions'[t].question_count = sessions[t].question_count \/ ReturnedOn(t) = {}
    BY <1>3, <1>4
  <2>2. QED
    BY <1>1, <2>1, LastVerdictStays
<1>6. QED
  BY <1>1, <1>5 DEF Ledger!Open, Working

\* The end of a session is the ledger's Close.
LEMMA EndCloses ==
  ASSUME SerialInv, SerialInv', NEW s \in Sessions, SessionEnd(s)
  PROVE  Ledger!Close(s)
<1>1. /\ sessions[s].status = "active"
      /\ sessions' = [sessions EXCEPT ![s].status = "closed"]
      /\ call' = call
  BY DEF SessionEnd
<1>2. \A t \in Sessions : sessions'[t].question_count = sessions[t].question_count
  BY <1>1 DEF SerialInv, GuardianInv, GuardianTypeOK, SessionRow
<1>3. [t \in Sessions |-> LastVerdict(t)]' = [t \in Sessions |-> LastVerdict(t)]
  BY <1>1, <1>2, NothingReturned
<1>4. QED
  BY <1>1, <1>3 DEF Ledger!Close, Working

\* The transaction that writes the counters is the ledger's Ask.
LEMMA CountersAnswer ==
  ASSUME SerialInv, SerialInv', NEW c \in Calls, UpdateCounters(c)
  PROVE  \E s \in Sessions, classification \in Classifications :
           Ledger!Ask(s, classification)
<1>1. PICK old \in CallState : old = call[c]
  BY DEF SerialInv, GuardianInv, GuardianTypeOK
<1>2. PICK s : s = old.session
  OBVIOUS
<1>3. PICK kind : kind = old.classification
  OBVIOUS
<1>4. old.pc = "counters" /\ s \in Sessions /\ kind \in Classifications
  BY <1>1, <1>2, <1>3 DEF UpdateCounters, SerialInv, GuardianInv, CallWellFormed
<1>5. PICK before \in SessionRow : before = sessions[s]
  BY <1>4 DEF SerialInv, GuardianInv, GuardianTypeOK
<1>6. PICK level : level = GuidanceOf(old)
  OBVIOUS
<1>7. PICK row : row = Stored(before, old)
  OBVIOUS
<1> DEFINE st == [old EXCEPT !.pc = "returned", !.guidance = level]
<1>8. /\ sessions' = [sessions EXCEPT ![s] = row]
      /\ call' = [call EXCEPT ![c] = st]
  BY <1>1, <1>2, <1>5, <1>6, <1>7
     DEF UpdateCounters, SerialInv, GuardianInv, GuardianTypeOK
<1>9. /\ st.pc = "returned"
      /\ st.session = s
      /\ st.classification = kind
      /\ st.guidance = level
      /\ st.question_count = old.question_count
      /\ st.violation_count = old.violation_count
      /\ st.escalated = old.escalated
  BY <1>2, <1>3 DEF CallState
<1> HIDE DEF st
<1>10. /\ row.question_count = old.question_count
       /\ row.violation_count = old.violation_count
       /\ row.escalated = old.escalated
  BY <1>7 DEF Stored, SessionRow
<1>11. Current(old, before)
  <2>1. InFlight(c)
    BY <1>1, <1>4 DEF InFlight, Ended
  <2>2. QED
    BY <1>1, <1>2, <1>5, <2>1 DEF SerialInv, CopiesCurrent
<1>12. /\ old.question_count = before.question_count + 1
       /\ old.violation_count = ViolationsAfter(before.violation_count, kind)
       /\ IsViolation(kind) =>
            (old.escalated <=> EscalatesAfter(before.escalated, old.violation_count))
       /\ ~IsViolation(kind) => (old.escalated <=> before.escalated)
  BY <1>3, <1>4, <1>11 DEF Current
<1>13. row = Ledger!Counted(before, kind)
  <2>1. /\ old.escalated \in BOOLEAN
        /\ before.escalated \in BOOLEAN
        /\ before.violation_count \in Nat
        /\ old.violation_count \in Nat
    BY DEF CallState, SessionRow
  <2>2. PICK vc : vc = Ledger!ViolationsAfter(before.violation_count, kind)
    OBVIOUS
  <2>3. old.violation_count = vc
    BY <1>12, <2>2 DEF ViolationsAfter, IsViolation,
       Ledger!ViolationsAfter, Ledger!IsViolation
  <2>4. PICK esc : esc = IF Ledger!IsViolation(kind)
                         THEN Ledger!EscalatesAfter(before.escalated, vc)
                         ELSE before.escalated
    OBVIOUS
  <2>5. esc \in BOOLEAN
    BY <2>1, <2>4 DEF Ledger!EscalatesAfter
  <2>6. old.escalated <=> esc
    BY <1>12, <2>3, <2>4 DEF IsViolation, EscalatesAfter,
       Ledger!IsViolation, Ledger!EscalatesAfter
  <2>7. old.escalated = esc
    BY <2>1, <2>5, <2>6
  <2>8. Ledger!Counted(before, kind)
          = [before EXCEPT !.question_count = before.question_count + 1,
                           !.violation_count = vc, !.escalated = esc]
    BY <2>2, <2>4 DEF Ledger!Counted
  <2>9. QED
    BY <1>7, <1>12, <2>3, <2>7, <2>8 DEF Stored
<1>14. /\ call'[c] = st
       /\ \A d \in Calls : d # c => call'[d] = call[d]
       /\ sessions'[s] = row
       /\ \A t \in Sessions : t # s => sessions'[t] = sessions[t]
  BY <1>4, <1>8 DEF SerialInv, GuardianInv, GuardianTypeOK
<1>15. LastVerdict(s)' = VerdictOfCall(st)
  <2>1. c \in ReturnedOn(s)' /\ call'[c].question_count = sessions'[s].question_count
    BY <1>9, <1>10, <1>14 DEF ReturnedOn
  <2>2. LastVerdict(s)' = VerdictOfCall(call'[c])
    BY <1>4, <2>1, NextVerdictIs
  <2>3. QED
    BY <1>14, <2>2
<1>16. VerdictOfCall(st) = Ledger!VerdictOn(row, kind)
  <2>1. level = Ledger!DeriveGuidanceLevel(kind, row.question_count,
                                           row.violation_count, row.escalated)
    BY <1>3, <1>6, <1>10 DEF GuidanceOf, DeriveGuidanceLevel, Throttle,
       Ledger!DeriveGuidanceLevel, Ledger!Throttle
  <2>2. QED
    BY <1>9, <1>10, <2>1 DEF VerdictOfCall, Ledger!VerdictOn
<1>17. ASSUME NEW t \in Sessions, t # s
       PROVE  LastVerdict(t)' = LastVerdict(t)
  <2>1. sessions'[t].question_count = sessions[t].question_count
    BY <1>14, <1>17
  <2>2. \A d \in Calls : call[d].pc = "returned" => call'[d] = call[d]
    BY <1>1, <1>4, <1>14
  <2>3. \A d \in Calls : call'[d].pc = "returned" /\ call'[d].session = t
                           => call[d].pc = "returned"
    BY <1>9, <1>14, <1>17
  <2>4. QED
    BY <2>1, <2>2, <2>3, LastVerdictStays
<1>18. [t \in Sessions |-> LastVerdict(t)]'
         = [[t \in Sessions |-> LastVerdict(t)] EXCEPT ![s] = Ledger!VerdictOn(row, kind)]
  BY <1>4, <1>15, <1>16, <1>17
<1>19. /\ Working(s)
       /\ ~Working(s)'
       /\ \A t \in Sessions : t # s => (Working(t)' <=> Working(t))
  <2>1. InFlight(c) /\ call[c].pc \in Computing /\ call'[c].pc \notin Computing
    BY <1>1, <1>4, <1>9, <1>14 DEF InFlight, Ended, Computing
  <2>2. QED
    BY <1>1, <1>2, <1>4, <1>9, <1>14, <2>1, WorkingFollowsCall
<1>20. [t \in Sessions |-> Working(t)]' = [[t \in Sessions |-> Working(t)] EXCEPT ![s] = FALSE]
  BY <1>4, <1>19, PendingOf
<1>21. Ledger!Ask(s, kind)
  BY <1>4, <1>5, <1>8, <1>13, <1>14, <1>18, <1>19, <1>20 DEF Ledger!Ask
<1>22. QED
  BY <1>4, <1>21

\* Only the step that writes the counters returns.
LEMMA OtherStepsReturnNothing ==
  ASSUME GuardianInv, NEW c \in Calls,
         ValidateStep(c) \/ (\E s \in Sessions : CallValidate(c, s)),
         ~UpdateCounters(c)
  PROVE  /\ sessions' = sessions
         /\ \A d \in Calls : d # c => call'[d] = call[d]
         /\ call[c].pc # "returned"
         /\ call'[c].pc # "returned"
<1>1. PICK old \in CallState : old = call[c]
  BY DEF GuardianInv, GuardianTypeOK
<1>2. call \in [Calls -> CallState]
  BY DEF GuardianInv, GuardianTypeOK
<1>3. sessions' = sessions
  BY DEF ValidateStep, CallValidate, ReadSession, ReadClosedSession, Classify,
     InsertViolation, InsertQuestion, RecordFails, StoreFails
<1>4. /\ \A d \in Calls : d # c => call'[d] = call[d]
      /\ call[c].pc # "returned"
      /\ call'[c].pc # "returned"
  <2>1. CASE \E s \in Sessions : CallValidate(c, s)
    <3>1. PICK s \in Sessions : CallValidate(c, s)
      BY <2>1
    <3> DEFINE st == [old EXCEPT !.pc = "read", !.session = s]
    <3>2. /\ old.pc = "idle"
          /\ call' = [call EXCEPT ![c] = st]
      BY <1>1, <3>1 DEF CallValidate
    <3>3. st.pc = "read"
      BY DEF CallState
    <3> HIDE DEF st
    <3>4. QED
      BY <1>1, <1>2, <3>2, <3>3
  <2>2. CASE ReadSession(c)
    <3>1. Loaded(old, sessions[old.session]).pc = "classify"
      BY DEF Loaded, CallState
    <3>2. QED
      BY <1>1, <1>2, <2>2, <3>1 DEF ReadSession
  <2>3. CASE ReadClosedSession(c)
    BY <1>2, <2>3 DEF ReadClosedSession, CallState
  <2>4. CASE Classify(c)
    <3>1. \A d \in Calls : d # c => call'[d] = call[d]
      BY <1>2, <2>4 DEF Classify
    <3>2. QED
      BY <2>4, <3>1, ClassifyPasses
  <2>5. CASE InsertViolation(c)
    <3>1. Offended(old).pc = "question"
      BY DEF Offended, CallState
    <3>2. QED
      BY <1>1, <1>2, <2>5, <3>1 DEF InsertViolation
  <2>6. CASE InsertQuestion(c)
    BY <1>2, <2>6 DEF InsertQuestion, CallState
  <2>7. CASE RecordFails(c) \/ StoreFails(c)
    BY <1>2, <2>7 DEF RecordFails, StoreFails, CallState
  <2>8. QED
    BY <2>1, <2>2, <2>3, <2>4, <2>5, <2>6, <2>7 DEF ValidateStep
<1>5. QED
  BY <1>3, <1>4

\* Where such a step takes its call: it reads the row, works on, or raises.
LEMMA OtherStepsMove ==
  ASSUME GuardianInv, NEW c \in Calls, ValidateStep(c), ~UpdateCounters(c)
  PROVE  \/ /\ call[c].pc = "read"
            /\ call'[c].pc \in Computing
            /\ sessions[call[c].session].status # "closed"
         \/ call[c].pc = "read" /\ call'[c].pc = "raised"
         \/ call[c].pc \in Computing /\ call'[c].pc \in Computing
         \/ call[c].pc \in Computing /\ call'[c].pc = "raised"
<1>1. PICK old \in CallState : old = call[c]
  BY DEF GuardianInv, GuardianTypeOK
<1>2. call \in [Calls -> CallState]
  BY DEF GuardianInv, GuardianTypeOK
<1>3. CASE ReadSession(c)
  <2>1. Loaded(old, sessions[old.session]).pc = "classify"
    BY DEF Loaded, CallState
  <2>2. QED
    BY <1>1, <1>2, <1>3, <2>1 DEF ReadSession, Computing
<1>4. CASE Classify(c)
  BY <1>4, ClassifyPasses DEF Computing
<1>5. CASE InsertViolation(c)
  <2>1. Offended(old).pc = "question"
    BY DEF Offended, CallState
  <2>2. QED
    BY <1>1, <1>2, <1>5, <2>1 DEF InsertViolation, Computing
<1>6. CASE InsertQuestion(c)
  BY <1>2, <1>6 DEF InsertQuestion, CallState, Computing
<1>7. CASE ReadClosedSession(c) \/ RecordFails(c) \/ StoreFails(c)
  <2>1. call'[c] = [old EXCEPT !.pc = "raised"]
    BY <1>1, <1>2, <1>7 DEF ReadClosedSession, RecordFails, StoreFails
  <2>2. call'[c].pc = "raised"
    BY <2>1 DEF CallState
  <2>3. call[c].pc \in {"read"} \cup Computing
    BY <1>7 DEF ReadClosedSession, RecordFails, StoreFails, Computing
  <2>4. QED
    BY <2>2, <2>3
<1>8. QED
  BY <1>3, <1>4, <1>5, <1>6, <1>7 DEF ValidateStep

\* The call that reads the row takes the question up, the one that raises after
\* that gives it up; the other steps are no steps of the ledger.
LEMMA OtherStepsOfLedger ==
  ASSUME SerialInv, SerialInv', NEW c \in Calls,
         ValidateStep(c) \/ (\E s \in Sessions : CallValidate(c, s)),
         ~UpdateCounters(c)
  PROVE  \/ \E s \in Sessions : Ledger!Begin(s) \/ Ledger!Abandon(s)
         \/ UNCHANGED Ledger!ledgerVars
<1>1. /\ sessions' = sessions
      /\ \A d \in Calls : d # c => call'[d] = call[d]
      /\ call[c].pc # "returned"
      /\ call'[c].pc # "returned"
  BY OtherStepsReturnNothing DEF SerialInv
<1>2. /\ \A s \in Sessions : sessions'[s].question_count = sessions[s].question_count
      /\ \A d \in Calls : call[d].pc = "returned" => call'[d] = call[d]
      /\ \A d \in Calls : call'[d].pc = "returned" => call[d].pc = "returned"
  BY <1>1
<1>3. [s \in Sessions |-> LastVerdict(s)]' = [s \in Sessions |-> LastVerdict(s)]
  BY <1>2, NothingReturned
<1>4. CASE \E s \in Sessions : CallValidate(c, s)
  <2>1. PICK old \in CallState : old = call[c]
    BY DEF SerialInv, GuardianInv, GuardianTypeOK
  <2>2. PICK s \in Sessions : /\ old.pc = "idle"
                              /\ call'[c] = [old EXCEPT !.pc = "read", !.session = s]
    BY <1>4, <2>1 DEF CallValidate, SerialInv, GuardianInv, GuardianTypeOK
  <2>3. call[c].pc \notin Computing /\ call'[c].pc \notin Computing
    <3>1. call'[c].pc = "read"
      BY <2>2 DEF CallState
    <3>2. QED
      BY <2>1, <2>2, <3>1 DEF Computing
  <2>4. \A t \in Sessions : Working(t)' <=> Working(t)
    BY <1>1, <2>3 DEF Working
  <2>5. [t \in Sessions |-> Working(t)]' = [t \in Sessions |-> Working(t)]
    BY <2>4 DEF Working
  <2>6. QED
    BY <1>1, <1>3, <2>5 DEF Ledger!ledgerVars
<1>5. CASE ValidateStep(c)
  <2>1. \/ /\ call[c].pc = "read"
           /\ call'[c].pc \in Computing
           /\ sessions[call[c].session].status # "closed"
        \/ call[c].pc = "read" /\ call'[c].pc = "raised"
        \/ call[c].pc \in Computing /\ call'[c].pc \in Computing
        \/ call[c].pc \in Computing /\ call'[c].pc = "raised"
    BY <1>5, OtherStepsMove DEF SerialInv
  <2>2. /\ call[c].pc # "idle"
        /\ InFlight(c)
    BY <2>1 DEF InFlight, Ended, Computing
  <2>3. PICK s \in Sessions : s = call[c].session
    BY <2>2 DEF SerialInv, GuardianInv, CallWellFormed
  <2>4. call'[c].session = s
    BY <1>5, <2>2, <2>3, CallsMoveOn DEF SerialInv, GuardianNext
  <2>5. /\ Working(s) <=> call[c].pc \in Computing
        /\ Working(s)' <=> call'[c].pc \in Computing
        /\ \A t \in Sessions : t # s => (Working(t)' <=> Working(t))
    BY <1>1, <2>2, <2>3, <2>4, WorkingFollowsCall
  <2>6. CASE /\ call[c].pc = "read"
             /\ call'[c].pc \in Computing
             /\ sessions[s].status # "closed"
    <3>1. sessions[s].status = "active"
      <4>1. sessions[s].status # "none"
        BY <2>2, <2>3 DEF SerialInv, RowsOwned
      <4>2. QED
        BY <2>6, <4>1 DEF SerialInv, GuardianInv, GuardianTypeOK, SessionRow, Statuses
    <3>2. ~Working(s) /\ Working(s)'
      BY <2>5, <2>6 DEF Computing
    <3>3. [t \in Sessions |-> Working(t)]'
            = [[t \in Sessions |-> Working(t)] EXCEPT ![s] = TRUE]
      BY <2>5, <3>2, PendingOf
    <3>4. Ledger!Begin(s)
      BY <1>1, <1>3, <3>1, <3>2, <3>3 DEF Ledger!Begin
    <3>5. QED
      BY <3>4
  <2>7. CASE call[c].pc \in Computing /\ call'[c].pc = "raised"
    <3>1. Working(s) /\ ~Working(s)'
      BY <2>5, <2>7 DEF Computing
    <3>2. [t \in Sessions |-> Working(t)]'
            = [[t \in Sessions |-> Working(t)] EXCEPT ![s] = FALSE]
      BY <2>5, <3>1, PendingOf
    <3>3. Ledger!Abandon(s)
      BY <1>1, <1>3, <3>1, <3>2 DEF Ledger!Abandon
    <3>4. QED
      BY <3>3
  <2>8. CASE \/ call[c].pc = "read" /\ call'[c].pc = "raised"
             \/ call[c].pc \in Computing /\ call'[c].pc \in Computing
    <3>1. call[c].pc \in Computing <=> call'[c].pc \in Computing
      BY <2>8 DEF Computing
    <3>2. \A t \in Sessions : Working(t)' <=> Working(t)
      BY <2>5, <3>1
    <3>3. [t \in Sessions |-> Working(t)]' = [t \in Sessions |-> Working(t)]
      BY <3>2 DEF Working
    <3>4. QED
      BY <1>1, <1>3, <3>3 DEF Ledger!ledgerVars
  <2>9. QED
    BY <2>1, <2>3, <2>6, <2>7, <2>8
<1>6. QED
  BY <1>4, <1>5

\* Every step of serialised turns is a step of the ledger or no step of it.
LEMMA StepsAreLedgerSteps ==
  ASSUME Serialized = TRUE, SerialInv, [GuardianNext]_guardianVars
  PROVE  [Ledger!LedgerNext]_Ledger!ledgerVars
<1>1. SerialInv'
  BY SerialStepKeepsInv
<1>2. ASSUME NEW s \in Sessions, SessionStart(s)
      PROVE  Ledger!LedgerNext
  BY <1>1, <1>2, StartOpens DEF Ledger!LedgerNext
<1>3. ASSUME NEW s \in Sessions, SessionEnd(s)
      PROVE  Ledger!LedgerNext
  BY <1>1, <1>3, EndCloses DEF Ledger!LedgerNext
<1>4. ASSUME NEW c \in Calls, UpdateCounters(c)
      PROVE  Ledger!LedgerNext
  <2>1. \E s \in Sessions, classification \in Classifications :
          Ledger!Ask(s, classification)
    BY <1>1, <1>4, CountersAnswer
  <2>2. Classifications = Ledger!Classifications
    BY DEF Classifications, Ledger!Classifications
  <2>3. QED
    BY <2>1, <2>2 DEF Ledger!LedgerNext
<1>5. ASSUME NEW c \in Calls,
             ValidateStep(c) \/ (\E s \in Sessions : CallValidate(c, s)),
             ~UpdateCounters(c)
      PROVE  Ledger!LedgerNext \/ UNCHANGED Ledger!ledgerVars
  BY <1>1, <1>5, OtherStepsOfLedger DEF Ledger!LedgerNext
<1>6. CASE UNCHANGED guardianVars
  <2>1. sessions' = sessions /\ call' = call
    BY <1>6 DEF guardianVars
  <2>2. [s \in Sessions |-> LastVerdict(s)]' = [s \in Sessions |-> LastVerdict(s)]
    BY <1>1, <2>1, NothingReturned
  <2>3. [s \in Sessions |-> Working(s)]' = [s \in Sessions |-> Working(s)]
    BY <2>1 DEF Working
  <2>4. QED
    BY <2>1, <2>2, <2>3 DEF Ledger!ledgerVars
<1>7. QED
  BY <1>2, <1>3, <1>4, <1>5, <1>6 DEF GuardianNext

\* The Guardian's transactions implement the ledger when turns are serialised,
\* for any number of sessions and calls, whichever transactions fail and
\* whenever a session is ended.
THEOREM GuardianImplementsLedger ==
  ASSUME Serialized = TRUE
  PROVE  GuardianSpec => ImplementsLedger
<1>1. GuardianInit => Ledger!LedgerInit
  BY LedgerInitially
<1>2. SerialInv /\ [GuardianNext]_guardianVars => [Ledger!LedgerNext]_Ledger!ledgerVars
  BY StepsAreLedgerSteps
<1>3. QED
  BY <1>1, <1>2, SerialInvariant, PTL DEF GuardianSpec, ImplementsLedger, Ledger!LedgerSpec

=============================================================================
