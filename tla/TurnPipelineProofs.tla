------------------------- MODULE TurnPipelineProofs -------------------------
(***************************************************************************)
(* What holds of the turns of Orchestrator.handle_turn for any number of   *)
(* sessions and turns and any number of retries, however turns overlap and *)
(* whichever database transactions fail.  A step of a turn is a step of    *)
(* the Guardian or leaves the Guardian alone, so GuardianInv carries over; *)
(* TurnInv adds what a turn has left in the tables and in the history by   *)
(* the point it has reached.                                               *)
(***************************************************************************)
EXTENDS TurnPipeline, GuardianSessionsProofs, SequenceTheorems

(***************************************************************************)
(* Lemmas about verdicts and about positions in a history.                 *)
(***************************************************************************)

\* A row more in the verifications table is a verdict more on its own draft.
LEMMA VerdictAdded ==
  ASSUME NEW rows, NEW row \in VerificationRow, NEW t \in Calls, NEW b \in BOOLEAN
  PROVE  LET before == {v.attempt : v \in {w \in rows : w.turn = t /\ w.passes = b}}
             after  == {v.attempt : v \in {w \in rows \cup {row} :
                                            w.turn = t /\ w.passes = b}}
         IN  /\ row.turn = t /\ row.passes = b => after = before \cup {row.attempt}
             /\ ~(row.turn = t /\ row.passes = b) => after = before
OBVIOUS

\* Where an entry stands in a history, and where once one more is appended.
LEMMA PositionAdded ==
  ASSUME NEW h \in Seq(Entry), NEW e \in Entry, NEW x
  PROVE  /\ Append(h, e) \in Seq(Entry)
         /\ Len(h) \in Nat
         /\ DOMAIN h = 1 .. Len(h)
         /\ DOMAIN Append(h, e) = 1 .. Len(h) + 1
         /\ x = e => {i \in DOMAIN Append(h, e) : Append(h, e)[i] = x}
                       = {i \in DOMAIN h : h[i] = x} \cup {Len(h) + 1}
         /\ x # e => {i \in DOMAIN Append(h, e) : Append(h, e)[i] = x}
                       = {i \in DOMAIN h : h[i] = x}
<1>1. /\ Append(h, e) \in Seq(Entry)
      /\ Len(Append(h, e)) = Len(h) + 1
      /\ \A i \in 1 .. Len(h) : Append(h, e)[i] = h[i]
      /\ Append(h, e)[Len(h) + 1] = e
  BY AppendProperties
<1>2. Len(h) \in Nat /\ DOMAIN h = 1 .. Len(h) /\ DOMAIN Append(h, e) = 1 .. Len(h) + 1
  BY <1>1, LenProperties
<1> DEFINE g == Append(h, e)
           n == Len(h)
<1>3. n \in Nat /\ DOMAIN h = 1 .. n /\ DOMAIN g = 1 .. n + 1
        /\ (\A i \in 1 .. n : g[i] = h[i]) /\ g[n + 1] = e
  BY <1>1, <1>2
<1> HIDE DEF g, n
<1>4. \A i : i \in 1 .. n + 1 <=> (i \in 1 .. n \/ i = n + 1)
  BY <1>3
<1>5. x = e => {i \in DOMAIN g : g[i] = x} = {i \in DOMAIN h : h[i] = x} \cup {n + 1}
  BY <1>3, <1>4
<1>6. x # e => {i \in DOMAIN g : g[i] = x} = {i \in DOMAIN h : h[i] = x}
  BY <1>3, <1>4
<1>7. QED
  BY <1>1, <1>2, <1>5, <1>6 DEF g, n

-----------------------------------------------------------------------------
(***************************************************************************)
(* The Guardian's part.                                                    *)
(***************************************************************************)

\* Whatever a turn does, the Guardian sees one of its own steps or none.
LEMMA TurnStepsAreGuardianSteps ==
  ASSUME [TurnNext]_vars
  PROVE  [GuardianNext]_guardianVars
<1>1. ASSUME NEW s \in Sessions, OpenSession(s) \/ EndSession(s)
      PROVE  GuardianNext
  BY <1>1 DEF OpenSession, EndSession, GuardianNext
<1>2. ASSUME NEW t \in Calls, NEW s \in Sessions, StartTurn(t, s)
      PROVE  GuardianNext
  BY <1>2 DEF StartTurn, GuardianNext
<1>3. ASSUME NEW t \in Calls, Validate(t)
      PROVE  GuardianNext
  BY <1>3 DEF Validate, GuardianNext
<1>4. ASSUME NEW t \in Calls, TurnStep(t), ~Validate(t)
      PROVE  UNCHANGED guardianVars
  BY <1>4 DEF TurnStep, RefuseTurn, AdmitTurn, CompanionDrafts, CompanionFails,
     JudgeDraft, FileVerdict, VerifyFails, LogTurn, LogFails, RecordQuestion,
     RecordResponse
<1>5. UNCHANGED vars => UNCHANGED guardianVars
  BY DEF vars
<1>6. QED
  BY <1>1, <1>2, <1>3, <1>4, <1>5 DEF TurnNext

\* The Guardian's part of the invariant survives every step of a turn.
LEMMA TurnStepKeepsGuardianInv ==
  ASSUME GuardianInv, VerdictsOnFile, [TurnNext]_vars
  PROVE  GuardianInv' /\ VerdictsOnFile'
BY TurnStepsAreGuardianSteps, GuardianStepKeepsInv, VerdictsStayOnFile

-----------------------------------------------------------------------------

\* Before the first turn there is nothing to explain.
LEMMA TurnInitEstablishesInv == TurnInit => TurnInv
<1> SUFFICES ASSUME TurnInit PROVE TurnInv
  OBVIOUS
<1>1. GuardianInv
  BY InitEstablishesInv DEF TurnInit
<1>2. TurnTypeOK
  <2>1. NoTurn \in TurnState
    BY DEF NoTurn, TurnState, TurnPoints, Judgements, Responses
  <2>2. <<>> \in Seq(Entry)
    BY EmptySeq
  <2>3. QED
    BY <1>1, <2>1, <2>2 DEF TurnInit, TurnTypeOK, GuardianInv
<1>3. VerdictsOnFile
  BY DEF TurnInit, GuardianInit, NoCall, VerdictsOnFile
<1>4. TurnFollowsCall
  BY DEF TurnInit, GuardianInit, NoCall, NoTurn, TurnFollowsCall, Unanswered
<1>5. AttemptsRejected
  <2>1. \A t, b : VerdictsOn(t, b) = {}
    BY DEF TurnInit, VerdictsOn
  <2>2. 0 .. 0 - 1 = {}
    OBVIOUS
  <2>3. \A t \in Calls : turn[t].attempt = 0 /\ turn[t].verifier_passes
    BY DEF TurnInit, NoTurn
  <2>4. 0 <= MaxRetries
    BY RetriesAssumption DEF RetriesAssumption
  <2>5. QED
    BY <2>1, <2>2, <2>3, <2>4 DEF AttemptsRejected
<1>6. AnswersExplained
  BY DEF TurnInit, NoTurn, AnswersExplained
<1>7. EntriesSoFar
  <2>1. \A s \in Sessions : history[s] = <<>>
    BY DEF TurnInit
  <2>2. \A s \in Sessions : \A role, t : Positions(s, role, t) = {}
    BY <2>1 DEF Positions
  <2>3. \A t \in Calls : turn[t].pc = "idle"
    BY DEF TurnInit, NoTurn
  <2>4. QED
    BY <2>2, <2>3 DEF EntriesSoFar
<1>8. QED
  BY <1>1, <1>2, <1>3, <1>4, <1>5, <1>6, <1>7 DEF TurnInv

-----------------------------------------------------------------------------

\* A step of the Guardian that no turn notices keeps the invariant.
LEMMA GuardianOnlyStep ==
  ASSUME TurnInv, [GuardianNext]_guardianVars, UNCHANGED pipelineVars,
         GuardianInv', VerdictsOnFile',
         \A t \in Calls : call[t].pc = "idle" => call'[t] = call[t]
  PROVE  TurnInv'
<1>1. /\ turn' = turn
      /\ verifications' = verifications
      /\ interactions' = interactions
      /\ history' = history
  BY DEF pipelineVars
<1>2. TurnTypeOK'
  BY <1>1 DEF TurnInv, TurnTypeOK, GuardianInv
<1>3. /\ \A t \in Calls : call[t].pc \in Ended => call'[t] = call[t]
      /\ \A t \in Calls : call[t].pc # "idle" => call'[t].pc # "idle"
      /\ \A t \in Calls : SessionOf(t)' = SessionOf(t)
  BY CallsMoveOn DEF TurnInv, SessionOf
<1>4. TurnFollowsCall'
  <2> SUFFICES ASSUME NEW t \in Calls
      PROVE  /\ turn'[t].pc = "idle" <=> call'[t].pc = "idle"
             /\ turn'[t].pc \notin {"idle", "validate"} =>
                  /\ call'[t].pc \in Ended
                  /\ turn'[t].guidance = GuidanceFor(t)'
             /\ turn'[t].guidance = "REJECTED" =>
                  turn'[t].response \in {"refusal", "escalation"}
             /\ turn'[t].response = "none" <=> turn'[t].pc \in Unanswered
             /\ turn'[t].response = "escalation" => call'[t].escalated
             /\ turn'[t].response = "refusal" => /\ call'[t].pc = "returned"
                                                 /\ call'[t].guidance = "REJECTED"
                                                 /\ ~call'[t].escalated
    BY DEF TurnFollowsCall
  <2>1. /\ turn[t].pc = "idle" <=> call[t].pc = "idle"
        /\ turn[t].pc \notin {"idle", "validate"} =>
             /\ call[t].pc \in Ended
             /\ turn[t].guidance = GuidanceFor(t)
        /\ turn[t].guidance = "REJECTED" =>
             turn[t].response \in {"refusal", "escalation"}
        /\ turn[t].response = "none" <=> turn[t].pc \in Unanswered
        /\ turn[t].response = "escalation" => call[t].escalated
        /\ turn[t].response = "refusal" => /\ call[t].pc = "returned"
                                           /\ call[t].guidance = "REJECTED"
                                           /\ ~call[t].escalated
    BY DEF TurnInv, TurnFollowsCall
  <2>2. turn[t].response # "none" => call[t].pc \in Ended
    BY <2>1 DEF Unanswered
  <2>3. turn'[t] = turn[t]
    BY <1>1
  <2>4. CASE call'[t] = call[t]
    <3>1. GuidanceFor(t)' = GuidanceFor(t)
      BY <2>4 DEF GuidanceFor
    <3>2. QED
      BY <2>1, <2>3, <2>4, <3>1
  <2>5. CASE call'[t] # call[t]
    BY <1>3, <2>1, <2>2, <2>3, <2>5
  <2>6. QED
    BY <2>4, <2>5
<1>5. AttemptsRejected' /\ AnswersExplained'
  BY <1>1 DEF TurnInv, AttemptsRejected, AnswersExplained, VerdictsOn
<1>6. EntriesSoFar'
  BY <1>1, <1>3 DEF TurnInv, EntriesSoFar, Positions
<1>7. QED
  BY <1>2, <1>4, <1>5, <1>6 DEF TurnInv

\* A turn that is handed to a thread has left nothing behind yet.
LEMMA StartTurnKeepsInv ==
  ASSUME TurnInv, NEW t \in Calls, NEW s \in Sessions, StartTurn(t, s),
         GuardianInv', VerdictsOnFile'
  PROVE  TurnInv'
<1>1. /\ turn \in [Calls -> TurnState]
      /\ call \in [Calls -> CallState]
  BY DEF TurnInv, TurnTypeOK, GuardianTypeOK
<1>2. /\ call[t].pc = "idle"
      /\ call' = [call EXCEPT ![t].pc = "read", ![t].session = s]
      /\ turn' = [turn EXCEPT ![t].pc = "validate"]
      /\ UNCHANGED <<verifications, interactions, history>>
  BY DEF StartTurn, CallValidate
<1>3. PICK old \in TurnState : old = turn[t]
  BY <1>1
<1> DEFINE st == [old EXCEPT !.pc = "validate"]
<1>4. /\ turn' = [turn EXCEPT ![t] = st]
      /\ turn'[t] = st
      /\ \A u \in Calls : u # t => turn'[u] = turn[u] /\ call'[u] = call[u]
  BY <1>1, <1>2, <1>3
<1>5. /\ st \in TurnState
      /\ st.pc = "validate"
      /\ st.guidance = old.guidance
      /\ st.attempt = old.attempt
      /\ st.response = old.response
      /\ st.verifier_passes = old.verifier_passes
      /\ st.verifier_error = old.verifier_error
  BY DEF TurnState, TurnPoints
<1>6. call'[t].pc = "read" /\ call'[t].session = s
  BY <1>1, <1>2 DEF CallState
<1>7. old.pc = "idle" /\ old.response = "none"
  BY <1>2, <1>3 DEF TurnInv, TurnFollowsCall, Unanswered
<1> HIDE DEF st
<1>8. TurnTypeOK'
  BY <1>1, <1>2, <1>4, <1>5 DEF TurnInv, TurnTypeOK, GuardianInv
<1>9. TurnFollowsCall'
  <2>1. \A u \in Calls : u # t => GuidanceFor(u)' = GuidanceFor(u)
    BY <1>4 DEF GuidanceFor
  <2>2. st.guidance # "REJECTED"
    BY <1>3, <1>5, <1>7 DEF TurnInv, TurnFollowsCall
  <2>3. QED
    BY <1>4, <1>5, <1>6, <1>7, <2>1, <2>2 DEF TurnInv, TurnFollowsCall, Unanswered
<1>10. \A u, b : VerdictsOn(u, b)' = VerdictsOn(u, b)
  BY <1>2 DEF VerdictsOn
<1>11. AttemptsRejected'
  <2> SUFFICES ASSUME NEW u \in Calls
      PROVE  /\ turn'[u].pc \in {"idle", "validate"} => turn'[u].attempt = 0
             /\ turn'[u].pc \in Unanswered =>
                  /\ turn'[u].attempt <= MaxRetries
                  /\ turn'[u].verifier_passes <=> turn'[u].attempt = 0
                  /\ VerdictsOn(u, FALSE) = 0 .. turn'[u].attempt - 1
                  /\ VerdictsOn(u, TRUE) = {}
    BY <1>10 DEF AttemptsRejected
  <2>1. CASE u = t
    <3>1. AttemptsRejected
      BY DEF TurnInv
    <3>2. turn[t].pc = "idle"
      BY <1>3, <1>7
    <3>3. /\ turn[t].attempt = 0
          /\ turn[t].attempt <= MaxRetries
          /\ turn[t].verifier_passes <=> turn[t].attempt = 0
          /\ VerdictsOn(t, FALSE) = 0 .. turn[t].attempt - 1
          /\ VerdictsOn(t, TRUE) = {}
      BY <3>1, <3>2 DEF AttemptsRejected, Unanswered
    <3>4. turn'[t].attempt = turn[t].attempt /\ turn'[t].verifier_passes = turn[t].verifier_passes
      BY <1>3, <1>4, <1>5
    <3>5. QED
      BY <2>1, <3>3, <3>4
  <2>2. CASE u # t
    <3>1. turn'[u] = turn[u]
      BY <1>4, <2>2
    <3>2. AttemptsRejected
      BY DEF TurnInv
    <3>3. QED
      BY <3>1, <3>2, Zenon DEF AttemptsRejected
  <2>3. QED
    BY <2>1, <2>2
<1>12. AnswersExplained'
  <2> SUFFICES ASSUME NEW u \in Calls
      PROVE  LET x == turn'[u] IN
             /\ x.response = "draft" =>
                  /\ VerdictsOn(u, FALSE) = 0 .. x.retries - 1
                  /\ VerdictsOn(u, TRUE) = IF x.verifier_error THEN {} ELSE {x.retries}
                  /\ x.retries <= MaxRetries
             /\ x.response = "error" =>
                  /\ VerdictsOn(u, FALSE) = 0 .. x.retries - 1
                  /\ VerdictsOn(u, TRUE) = {}
                  /\ x.verifier_passes <=> x.retries = 0
             /\ x.response = "fallback" =>
                  /\ VerdictsOn(u, FALSE) = 0 .. MaxRetries
                  /\ VerdictsOn(u, TRUE) = {}
             /\ x.response \in {"refusal", "escalation"} =>
                  VerdictsOn(u, FALSE) \cup VerdictsOn(u, TRUE) = {}
             /\ x.verifier_error => x.response = "draft"
    BY <1>10 DEF AnswersExplained
  <2>1. CASE u = t
    <3>1. ~old.verifier_error
      BY <1>3, <1>7 DEF TurnInv, AnswersExplained
    <3>2. QED
      BY <1>4, <1>5, <1>7, <2>1, <3>1
  <2>2. CASE u # t
    <3>1. turn'[u] = turn[u]
      BY <1>4, <2>2
    <3>2. AnswersExplained
      BY DEF TurnInv
    <3>3. QED
      BY <3>1, <3>2, Zenon DEF AnswersExplained
  <2>3. QED
    BY <2>1, <2>2
<1>13. EntriesSoFar'
  <2>1. \A r \in Sessions : \A role, u : Positions(r, role, u)' = Positions(r, role, u)
    BY <1>2 DEF Positions
  <2>2. \A r \in Sessions : Positions(r, "user", t) = {} /\ Positions(r, "assistant", t) = {}
    BY <1>3, <1>7 DEF TurnInv, EntriesSoFar
  <2>3. \A u \in Calls : u # t => SessionOf(u)' = SessionOf(u)
    BY <1>4 DEF SessionOf
  <2>4. ASSUME NEW r \in Sessions, NEW u \in Calls
        PROVE  /\ SessionOf(u)' # r \/ turn'[u].pc \notin {"reply", "done"} =>
                    Positions(r, "user", u) = {}
               /\ SessionOf(u)' # r \/ turn'[u].pc # "done" =>
                    Positions(r, "assistant", u) = {}
               /\ SessionOf(u)' = r /\ turn'[u].pc = "reply" =>
                    \E i \in DOMAIN history[r] : Positions(r, "user", u) = {i}
               /\ SessionOf(u)' = r /\ turn'[u].pc = "done" =>
                    \E i, j \in DOMAIN history[r] :
                      /\ i < j
                      /\ Positions(r, "user", u) = {i}
                      /\ Positions(r, "assistant", u) = {j}
    <3>1. CASE u = t
      BY <1>4, <1>5, <2>2, <3>1
    <3>2. CASE u # t
      <4>1. turn'[u] = turn[u] /\ SessionOf(u)' = SessionOf(u)
        BY <1>4, <2>3, <3>2
      <4>2. QED
        BY <4>1 DEF TurnInv, EntriesSoFar
    <3>3. QED
      BY <3>1, <3>2
  <2>5. QED
    BY <1>2, <2>1, <2>4 DEF EntriesSoFar
<1>14. QED
  BY <1>8, <1>9, <1>11, <1>12, <1>13 DEF TurnInv

-----------------------------------------------------------------------------
(***************************************************************************)
(* Steps of a turn that leave the Guardian and the history alone.          *)
(***************************************************************************)

\* What AttemptsRejected and AnswersExplained say of one turn whose failed and
\* passing verdicts are these.
AttemptsLeft(st, failed, passed) ==
  st.pc \in Unanswered =>
    /\ st.attempt <= MaxRetries
    /\ st.verifier_passes <=> st.attempt = 0
    /\ failed = 0 .. st.attempt - 1
    /\ passed = {}

AnswerExplained(st, failed, passed) ==
  /\ st.response = "draft" =>
       /\ failed = 0 .. st.retries - 1
       /\ passed = IF st.verifier_error THEN {} ELSE {st.retries}
       /\ st.retries <= MaxRetries
  /\ st.response = "error" =>
       /\ failed = 0 .. st.retries - 1
       /\ passed = {}
       /\ st.verifier_passes <=> st.retries = 0
  /\ st.response = "fallback" =>
       /\ failed = 0 .. MaxRetries
       /\ passed = {}
  /\ st.response \in {"refusal", "escalation"} => failed \cup passed = {}
  /\ st.verifier_error => st.response = "draft"

\* A turn that moves to st between its validation and its record keeps the
\* invariant if st is explained by the verdicts on file by then.
LEMMA TurnOnlyStep ==
  ASSUME TurnInv, NEW t \in Calls, NEW st \in TurnState,
         turn' = [turn EXCEPT ![t] = st],
         UNCHANGED <<guardianVars, history>>,
         verifications' \subseteq VerificationRow,
         interactions' \subseteq Calls,
         \A u \in Calls, b \in BOOLEAN : u # t => VerdictsOn(u, b)' = VerdictsOn(u, b),
         turn[t].pc \notin {"idle", "reply", "done"},
         st.pc \notin {"idle", "validate", "reply", "done"},
         call[t].pc \in Ended,
         st.guidance = GuidanceFor(t),
         st.guidance = "REJECTED" => st.response \in {"refusal", "escalation"},
         st.response = "none" <=> st.pc \in Unanswered,
         st.response = "escalation" => call[t].escalated,
         st.response = "refusal" => /\ call[t].pc = "returned"
                                    /\ call[t].guidance = "REJECTED"
                                    /\ ~call[t].escalated,
         NEW failed, failed = VerdictsOn(t, FALSE)',
         NEW passed, passed = VerdictsOn(t, TRUE)',
         AttemptsLeft(st, failed, passed),
         AnswerExplained(st, failed, passed)
  PROVE  TurnInv'
<1>1. /\ sessions' = sessions
      /\ questions' = questions
      /\ violations' = violations
      /\ call' = call
      /\ history' = history
  BY DEF guardianVars
<1>2. /\ turn'[t] = st
      /\ \A u \in Calls : u # t => turn'[u] = turn[u]
      /\ turn' \in [Calls -> TurnState]
  BY DEF TurnInv, TurnTypeOK
<1>3. GuardianInv' /\ VerdictsOnFile'
  BY GuardianStepKeepsInv, VerdictsStayOnFile DEF TurnInv
<1>4. TurnTypeOK'
  BY <1>1, <1>2, <1>3 DEF TurnInv, TurnTypeOK, GuardianInv
<1>5. TurnFollowsCall'
  <2> SUFFICES ASSUME NEW u \in Calls
      PROVE  /\ turn'[u].pc = "idle" <=> call'[u].pc = "idle"
             /\ turn'[u].pc \notin {"idle", "validate"} =>
                  /\ call'[u].pc \in Ended
                  /\ turn'[u].guidance = GuidanceFor(u)
             /\ turn'[u].guidance = "REJECTED" =>
                  turn'[u].response \in {"refusal", "escalation"}
             /\ turn'[u].response = "none" <=> turn'[u].pc \in Unanswered
             /\ turn'[u].response = "escalation" => call'[u].escalated
             /\ turn'[u].response = "refusal" => /\ call'[u].pc = "returned"
                                                 /\ call'[u].guidance = "REJECTED"
                                                 /\ ~call'[u].escalated
    <3>1. \A v \in Calls : GuidanceFor(v)' = GuidanceFor(v)
      BY <1>1 DEF GuidanceFor
    <3>2. QED
      BY <3>1 DEF TurnFollowsCall
  <2>1. CASE u = t
    <3>1. call[t].pc # "idle"
      BY DEF Ended
    <3>2. QED
      BY <1>1, <1>2, <2>1, <3>1
  <2>2. CASE u # t
    <3>1. turn'[u] = turn[u] /\ call'[u] = call[u]
      BY <1>1, <1>2, <2>2
    <3>2. QED
      BY <3>1 DEF TurnInv, TurnFollowsCall
  <2>3. QED
    BY <2>1, <2>2
<1>6. AttemptsRejected'
  <2> SUFFICES ASSUME NEW u \in Calls
      PROVE  /\ turn'[u].pc \in {"idle", "validate"} => turn'[u].attempt = 0
             /\ AttemptsLeft(turn'[u], VerdictsOn(u, FALSE)', VerdictsOn(u, TRUE)')
    BY DEF AttemptsRejected, AttemptsLeft
  <2>1. CASE u = t
    BY <1>2, <2>1
  <2>2. CASE u # t
    <3>1. /\ turn'[u] = turn[u]
          /\ VerdictsOn(u, FALSE)' = VerdictsOn(u, FALSE)
          /\ VerdictsOn(u, TRUE)' = VerdictsOn(u, TRUE)
      BY <1>2, <2>2
    <3>2. QED
      BY <3>1 DEF TurnInv, AttemptsRejected, AttemptsLeft
  <2>3. QED
    BY <2>1, <2>2
<1>7. AnswersExplained'
  <2> SUFFICES ASSUME NEW u \in Calls
      PROVE  AnswerExplained(turn'[u], VerdictsOn(u, FALSE)', VerdictsOn(u, TRUE)')
    BY DEF AnswersExplained, AnswerExplained
  <2>1. CASE u = t
    BY <1>2, <2>1
  <2>2. CASE u # t
    <3>1. /\ turn'[u] = turn[u]
          /\ VerdictsOn(u, FALSE)' = VerdictsOn(u, FALSE)
          /\ VerdictsOn(u, TRUE)' = VerdictsOn(u, TRUE)
      BY <1>2, <2>2
    <3>2. AnswersExplained
      BY DEF TurnInv
    <3>3. AnswerExplained(turn[u], VerdictsOn(u, FALSE), VerdictsOn(u, TRUE))
      BY <3>2 DEF AnswersExplained, AnswerExplained
    <3>4. QED
      BY <3>1, <3>3
  <2>3. QED
    BY <2>1, <2>2
<1>8. EntriesSoFar'
  <2>1. \A u \in Calls : /\ SessionOf(u)' = SessionOf(u)
                         /\ turn'[u].pc = "reply" <=> turn[u].pc = "reply"
                         /\ turn'[u].pc = "done" <=> turn[u].pc = "done"
    BY <1>1, <1>2 DEF SessionOf
  <2>2. \A r \in Sessions : \A role, u : Positions(r, role, u)' = Positions(r, role, u)
    BY <1>1 DEF Positions
  <2>3. QED
    BY <1>1, <2>1, <2>2 DEF TurnInv, EntriesSoFar
<1>9. QED
  BY <1>3, <1>4, <1>5, <1>6, <1>7, <1>8 DEF TurnInv

\* What TurnInv says of one turn.
LEMMA TurnSoFar ==
  ASSUME TurnInv, NEW t \in Calls
  PROVE  /\ turn \in [Calls -> TurnState]
         /\ turn[t] \in TurnState
         /\ call[t] \in CallState
         /\ turn[t].attempt \in Nat
         /\ turn[t].pc \notin {"idle", "validate"} =>
              /\ call[t].pc \in Ended
              /\ turn[t].guidance = GuidanceFor(t)
         /\ turn[t].guidance = "REJECTED" =>
              turn[t].response \in {"refusal", "escalation"}
         /\ turn[t].response = "none" <=> turn[t].pc \in Unanswered
         /\ turn[t].response = "escalation" => call[t].escalated
         /\ turn[t].response = "refusal" => /\ call[t].pc = "returned"
                                            /\ call[t].guidance = "REJECTED"
                                            /\ ~call[t].escalated
         /\ turn[t].pc \in {"idle", "validate"} => turn[t].attempt = 0
         /\ AttemptsLeft(turn[t], VerdictsOn(t, FALSE), VerdictsOn(t, TRUE))
         /\ AnswerExplained(turn[t], VerdictsOn(t, FALSE), VerdictsOn(t, TRUE))
         /\ verifications \subseteq VerificationRow
         /\ interactions \subseteq Calls
<1>1. turn \in [Calls -> TurnState] /\ call \in [Calls -> CallState]
  BY DEF TurnInv, TurnTypeOK, GuardianTypeOK
<1>2. turn[t] \in TurnState /\ call[t] \in CallState /\ turn[t].attempt \in Nat
  BY <1>1 DEF TurnState
<1>3. AttemptsLeft(turn[t], VerdictsOn(t, FALSE), VerdictsOn(t, TRUE))
  BY DEF TurnInv, AttemptsRejected, AttemptsLeft
<1>4. AnswerExplained(turn[t], VerdictsOn(t, FALSE), VerdictsOn(t, TRUE))
  BY DEF TurnInv, AnswersExplained, AnswerExplained
<1>5. turn[t].pc \in {"idle", "validate"} => turn[t].attempt = 0
  BY DEF TurnInv, AttemptsRejected
<1>6. verifications \subseteq VerificationRow /\ interactions \subseteq Calls
  BY DEF TurnInv, TurnTypeOK
<1>7. QED
  BY <1>1, <1>2, <1>3, <1>4, <1>5, <1>6 DEF TurnInv, TurnFollowsCall

\* A step that files no verdict leaves the verdicts as they are.
LEMMA VerdictsUnchanged ==
  ASSUME UNCHANGED verifications
  PROVE  \A u, b : VerdictsOn(u, b)' = VerdictsOn(u, b)
BY DEF VerdictsOn

\* A refused turn was never drafted, and is refused as its call returned.
LEMMA RefuseTurnKeepsInv ==
  ASSUME TurnInv, NEW t \in Calls, RefuseTurn(t)
  PROVE  TurnInv'
<1>1. PICK old \in TurnState : old = turn[t]
  BY TurnSoFar
<1>2. PICK level, refusal : level = GuidanceFor(t) /\ refusal = RefusalFor(t)
  OBVIOUS
<1> DEFINE st == [old EXCEPT !.pc = "log", !.guidance = level, !.response = refusal]
<1>3. /\ old.pc = "validate"
      /\ call[t].pc \in Ended
      /\ level = "REJECTED"
      /\ UNCHANGED <<guardianVars, verifications, interactions, history>>
      /\ turn' = [turn EXCEPT ![t] = st]
  BY <1>1, <1>2, TurnSoFar DEF RefuseTurn
<1>4. call[t].pc = "returned" /\ call[t].guidance = "REJECTED"
  BY <1>2, <1>3 DEF GuidanceFor
<1>5. refusal = IF call[t].escalated THEN "escalation" ELSE "refusal"
  BY <1>2 DEF RefusalFor
<1>6. /\ st \in TurnState
      /\ st.pc = "log"
      /\ st.guidance = level
      /\ st.response = refusal
      /\ st.verifier_error = old.verifier_error
  BY <1>3, <1>5 DEF TurnState, TurnPoints, Responses, GuidanceLevels
<1>7. /\ st.response = "none" <=> st.pc \in Unanswered
      /\ st.response = "escalation" => call[t].escalated
      /\ st.response = "refusal" => ~call[t].escalated
  BY <1>5, <1>6 DEF Unanswered
<1>8. /\ old.attempt = 0
      /\ AttemptsLeft(old, VerdictsOn(t, FALSE), VerdictsOn(t, TRUE))
      /\ ~old.verifier_error
  BY <1>1, <1>3, TurnSoFar DEF AnswerExplained, Unanswered
<1>9. VerdictsOn(t, FALSE) = {} /\ VerdictsOn(t, TRUE) = {}
  <2>1. 0 .. 0 - 1 = {}
    OBVIOUS
  <2>2. QED
    BY <1>3, <1>8, <2>1 DEF AttemptsLeft, Unanswered
<1>10. PICK failed, passed : failed = VerdictsOn(t, FALSE)' /\ passed = VerdictsOn(t, TRUE)'
  OBVIOUS
<1>11. failed = {} /\ passed = {}
  BY <1>3, <1>9, <1>10, VerdictsUnchanged
<1>12. AttemptsLeft(st, failed, passed) /\ AnswerExplained(st, failed, passed)
  <2> HIDE DEF st
  <2>1. QED
    BY <1>5, <1>6, <1>8, <1>11 DEF AttemptsLeft, AnswerExplained, Unanswered
<1>13. QED
  <2> HIDE DEF st
  <2>1. \A u \in Calls, b \in BOOLEAN : VerdictsOn(u, b)' = VerdictsOn(u, b)
    BY <1>3, VerdictsUnchanged
  <2>2. verifications' \subseteq VerificationRow /\ interactions' \subseteq Calls
    BY <1>3, TurnSoFar
  <2>3. QED
    BY <1>1, <1>2, <1>3, <1>4, <1>5, <1>6, <1>7, <1>10, <1>12, <2>1, <2>2, TurnOnlyStep

\* A step on to a point with no answer yet, no attempt more and no verdict more.
LEMMA TurnWorksOn ==
  ASSUME TurnInv, NEW t \in Calls, NEW st \in TurnState,
         turn' = [turn EXCEPT ![t] = st],
         UNCHANGED <<guardianVars, verifications, interactions, history>>,
         turn[t].pc \in {"validate", "draft", "verify"},
         call[t].pc \in Ended,
         st.pc \in {"draft", "verify", "file"},
         st.guidance = GuidanceFor(t),
         st.guidance # "REJECTED",
         st.attempt = turn[t].attempt,
         st.response = turn[t].response,
         st.verifier_passes = turn[t].verifier_passes,
         st.verifier_error = turn[t].verifier_error
  PROVE  TurnInv'
<1>1. PICK failed, passed : failed = VerdictsOn(t, FALSE)' /\ passed = VerdictsOn(t, TRUE)'
  OBVIOUS
<1>2. failed = VerdictsOn(t, FALSE) /\ passed = VerdictsOn(t, TRUE)
  BY <1>1, VerdictsUnchanged
<1>3. turn[t].pc \in Unanswered /\ st.pc \in Unanswered
  BY DEF Unanswered
<1>4. /\ turn[t].response = "none"
      /\ ~turn[t].verifier_error
      /\ AttemptsLeft(turn[t], failed, passed)
      /\ verifications' \subseteq VerificationRow
      /\ interactions' \subseteq Calls
  BY <1>2, <1>3, TurnSoFar DEF AnswerExplained
<1>5. AttemptsLeft(st, failed, passed) /\ AnswerExplained(st, failed, passed)
  BY <1>3, <1>4 DEF AttemptsLeft, AnswerExplained
<1>6. \A u \in Calls, b \in BOOLEAN : VerdictsOn(u, b)' = VerdictsOn(u, b)
  BY VerdictsUnchanged
<1>7. /\ turn[t].pc \notin {"idle", "reply", "done"}
      /\ st.pc \notin {"idle", "validate", "reply", "done"}
      /\ st.response = "none" <=> st.pc \in Unanswered
      /\ st.response # "escalation"
      /\ st.response # "refusal"
  BY <1>3, <1>4
<1>8. UNCHANGED <<guardianVars, history>>
  OBVIOUS
<1>9. QED
  BY <1>1, <1>4, <1>5, <1>6, <1>7, <1>8, TurnOnlyStep

LEMMA AdmitTurnKeepsInv ==
  ASSUME TurnInv, NEW t \in Calls, AdmitTurn(t)
  PROVE  TurnInv'
<1>1. PICK old \in TurnState : old = turn[t]
  BY TurnSoFar
<1>2. PICK level : level = GuidanceFor(t)
  OBVIOUS
<1> DEFINE st == [old EXCEPT !.pc = "draft", !.guidance = level]
<1>3. /\ old.pc = "validate"
      /\ call[t].pc \in Ended
      /\ level # "REJECTED"
      /\ UNCHANGED <<guardianVars, verifications, interactions, history>>
      /\ turn' = [turn EXCEPT ![t] = st]
  BY <1>1, <1>2, TurnSoFar DEF AdmitTurn
<1>4. level \in GuidanceLevels \cup {"none"}
  BY <1>2, TurnSoFar DEF GuidanceFor, GuidanceLevels, CallState
<1>5. /\ st \in TurnState
      /\ st.pc = "draft"
      /\ st.guidance = level
      /\ st.attempt = old.attempt
      /\ st.response = old.response
      /\ st.verifier_passes = old.verifier_passes
      /\ st.verifier_error = old.verifier_error
  BY <1>4 DEF TurnState, TurnPoints
<1>6. QED
  <2> HIDE DEF st
  <2>1. QED
    BY <1>1, <1>2, <1>3, <1>5, TurnWorksOn

LEMMA CompanionDraftsKeepsInv ==
  ASSUME TurnInv, NEW t \in Calls, CompanionDrafts(t)
  PROVE  TurnInv'
<1>1. PICK old \in TurnState : old = turn[t]
  BY TurnSoFar
<1> DEFINE st == [old EXCEPT !.pc = "verify"]
<1>2. /\ old.pc = "draft"
      /\ UNCHANGED <<guardianVars, verifications, interactions, history>>
      /\ turn' = [turn EXCEPT ![t] = st]
  BY <1>1, TurnSoFar DEF CompanionDrafts
<1>3. /\ st \in TurnState
      /\ st.pc = "verify"
      /\ st.guidance = old.guidance
      /\ st.attempt = old.attempt
      /\ st.response = old.response
      /\ st.verifier_passes = old.verifier_passes
      /\ st.verifier_error = old.verifier_error
  <2>1. st \in TurnState
    BY DEF TurnState, TurnPoints
  <2>2. st.pc = "verify" /\ st.guidance = old.guidance /\ st.attempt = old.attempt
    BY DEF TurnState
  <2>3. /\ st.response = old.response
        /\ st.verifier_passes = old.verifier_passes
        /\ st.verifier_error = old.verifier_error
    BY DEF TurnState
  <2>4. QED
    BY <2>1, <2>2, <2>3
<1>4. call[t].pc \in Ended /\ old.guidance = GuidanceFor(t) /\ old.guidance # "REJECTED"
  BY <1>1, <1>2, TurnSoFar DEF Unanswered
<1>5. QED
  <2> HIDE DEF st
  <2>1. turn[t].pc \in {"validate", "draft", "verify"} /\ st.pc \in {"draft", "verify", "file"}
    BY <1>1, <1>2, <1>3
  <2>2. /\ st.guidance = GuidanceFor(t)
        /\ st.guidance # "REJECTED"
        /\ st.attempt = turn[t].attempt
        /\ st.response = turn[t].response
        /\ st.verifier_passes = turn[t].verifier_passes
        /\ st.verifier_error = turn[t].verifier_error
    BY <1>1, <1>3, <1>4
  <2>3. QED
    BY <1>2, <1>3, <1>4, <2>1, <2>2, TurnWorksOn

LEMMA JudgeDraftKeepsInv ==
  ASSUME TurnInv, NEW t \in Calls, JudgeDraft(t)
  PROVE  TurnInv'
<1>1. PICK old \in TurnState : old = turn[t]
  BY TurnSoFar
<1>2. PICK judged \in {"passes", "fails"} :
        turn' = [turn EXCEPT ![t].pc = "file", ![t].judged = judged]
  BY DEF JudgeDraft
<1> DEFINE st == [old EXCEPT !.pc = "file", !.judged = judged]
<1>3. /\ old.pc = "verify"
      /\ UNCHANGED <<guardianVars, verifications, interactions, history>>
      /\ turn' = [turn EXCEPT ![t] = st]
  BY <1>1, <1>2, TurnSoFar DEF JudgeDraft
<1>4. /\ st \in TurnState
      /\ st.pc = "file"
      /\ st.guidance = old.guidance
      /\ st.attempt = old.attempt
      /\ st.response = old.response
      /\ st.verifier_passes = old.verifier_passes
      /\ st.verifier_error = old.verifier_error
  <2>1. st \in TurnState
    BY DEF TurnState, TurnPoints, Judgements
  <2>2. st.pc = "file" /\ st.guidance = old.guidance /\ st.attempt = old.attempt
    BY DEF TurnState
  <2>3. /\ st.response = old.response
        /\ st.verifier_passes = old.verifier_passes
        /\ st.verifier_error = old.verifier_error
    BY DEF TurnState
  <2>4. QED
    BY <2>1, <2>2, <2>3
<1>5. call[t].pc \in Ended /\ old.guidance = GuidanceFor(t) /\ old.guidance # "REJECTED"
  BY <1>1, <1>3, TurnSoFar DEF Unanswered
<1>6. QED
  <2> HIDE DEF st
  <2>1. turn[t].pc \in {"validate", "draft", "verify"} /\ st.pc \in {"draft", "verify", "file"}
    BY <1>1, <1>3, <1>4
  <2>2. /\ st.guidance = GuidanceFor(t)
        /\ st.guidance # "REJECTED"
        /\ st.attempt = turn[t].attempt
        /\ st.response = turn[t].response
        /\ st.verifier_passes = turn[t].verifier_passes
        /\ st.verifier_error = turn[t].verifier_error
    BY <1>1, <1>4, <1>5
  <2>3. QED
    BY <1>3, <1>4, <1>5, <2>1, <2>2, TurnWorksOn

-----------------------------------------------------------------------------

\* A step to an answer: the turn is logged next, and its answer is explained
\* by the verdicts on file by then.
LEMMA TurnAnswers ==
  ASSUME TurnInv, NEW t \in Calls, NEW st \in TurnState,
         turn' = [turn EXCEPT ![t] = st],
         UNCHANGED <<guardianVars, interactions, history>>,
         verifications' \subseteq VerificationRow,
         \A u \in Calls, b \in BOOLEAN : u # t => VerdictsOn(u, b)' = VerdictsOn(u, b),
         turn[t].pc \in {"draft", "verify", "file"},
         st.pc = "log",
         st.guidance = turn[t].guidance,
         st.response \in {"draft", "fallback", "error"},
         NEW failed, failed = VerdictsOn(t, FALSE)',
         NEW passed, passed = VerdictsOn(t, TRUE)',
         AnswerExplained(st, failed, passed)
  PROVE  TurnInv'
<1>1. /\ turn[t].pc \notin {"idle", "reply", "done"}
      /\ st.pc \notin {"idle", "validate", "reply", "done"}
      /\ st.response = "none" <=> st.pc \in Unanswered
      /\ st.response # "escalation"
      /\ st.response # "refusal"
      /\ AttemptsLeft(st, failed, passed)
  BY DEF Unanswered, AttemptsLeft
<1>2. /\ call[t].pc \in Ended
      /\ interactions' \subseteq Calls
      /\ st.guidance = GuidanceFor(t)
      /\ st.guidance # "REJECTED"
  BY TurnSoFar DEF Unanswered
<1>3. UNCHANGED <<guardianVars, history>>
  OBVIOUS
<1>4. QED
  BY <1>1, <1>2, <1>3, TurnOnlyStep

\* The companion's error comes after as many rejections as attempts were used.
LEMMA CompanionFailsKeepsInv ==
  ASSUME TurnInv, NEW t \in Calls, CompanionFails(t)
  PROVE  TurnInv'
<1>1. PICK old \in TurnState : old = turn[t]
  BY TurnSoFar
<1>2. old.attempt \in Nat
  BY DEF TurnState
<1>3. PICK n \in Nat : n = old.attempt
  BY <1>2
<1> DEFINE st == [old EXCEPT !.pc = "log", !.response = "error", !.retries = n,
                             !.fallback = TRUE]
<1>4. /\ old.pc = "draft"
      /\ UNCHANGED <<guardianVars, verifications, interactions, history>>
      /\ turn' = [turn EXCEPT ![t] = st]
  BY <1>1, <1>3, TurnSoFar DEF CompanionFails
<1>5. /\ st \in TurnState
      /\ st.pc = "log"
      /\ st.guidance = old.guidance
      /\ st.response = "error"
      /\ st.retries = n
      /\ st.verifier_passes = old.verifier_passes
      /\ st.verifier_error = old.verifier_error
  BY DEF TurnState, TurnPoints, Responses
<1>6. PICK failed, passed : failed = VerdictsOn(t, FALSE)' /\ passed = VerdictsOn(t, TRUE)'
  OBVIOUS
<1>7. AttemptsLeft(old, failed, passed)
  BY <1>1, <1>4, <1>6, TurnSoFar, VerdictsUnchanged
<1> HIDE DEF st
<1>8. AnswerExplained(st, failed, passed)
  <2>1. ~old.verifier_error
    BY <1>1, <1>4, TurnSoFar DEF AnswerExplained, Unanswered
  <2>2. QED
    BY <1>3, <1>4, <1>5, <1>7, <2>1 DEF AttemptsLeft, AnswerExplained, Unanswered
<1>9. \A u \in Calls, b \in BOOLEAN : VerdictsOn(u, b)' = VerdictsOn(u, b)
  BY <1>4, VerdictsUnchanged
<1>10. verifications' \subseteq VerificationRow
  BY <1>4, TurnSoFar
<1>11. QED
  BY <1>1, <1>4, <1>5, <1>6, <1>8, <1>9, <1>10, TurnAnswers

\* What _draft_and_verify returns with a draft.
LEMMA DeliveredFields ==
  ASSUME NEW old \in TurnState
  PROVE  /\ Delivered(old) \in TurnState
         /\ Delivered(old).pc = "log"
         /\ Delivered(old).response = "draft"
         /\ Delivered(old).guidance = old.guidance
         /\ Delivered(old).retries = old.attempt
         /\ Delivered(old).verifier_error = old.verifier_error
<1>1. PICK n \in Nat : n = old.attempt
  BY DEF TurnState
<1> DEFINE st == [old EXCEPT !.pc = "log", !.response = "draft", !.retries = n,
                             !.verifier_passes = TRUE]
<1>2. /\ st \in TurnState
      /\ st.pc = "log"
      /\ st.response = "draft"
      /\ st.guidance = old.guidance
      /\ st.retries = n
      /\ st.verifier_error = old.verifier_error
  BY DEF TurnState, TurnPoints, Responses
<1>3. Delivered(old) = st
  BY <1>1 DEF Delivered
<1> HIDE DEF st
<1>4. QED
  BY <1>1, <1>2, <1>3

\* What the loop of _draft_and_verify makes of a rejection: one attempt more,
\* or the fallback.
LEMMA RejectedFields ==
  ASSUME NEW old \in TurnState
  PROVE  /\ Rejected(old) \in TurnState
         /\ ~Rejected(old).verifier_passes
         /\ Rejected(old).guidance = old.guidance
         /\ Rejected(old).verifier_error = old.verifier_error
         /\ old.attempt < MaxRetries =>
              /\ Rejected(old).pc = "draft"
              /\ Rejected(old).attempt = old.attempt + 1
              /\ Rejected(old).response = old.response
         /\ ~(old.attempt < MaxRetries) =>
              /\ Rejected(old).pc = "log"
              /\ Rejected(old).response = "fallback"
<1>1. old.attempt \in Nat /\ MaxRetries \in Nat
  BY RetriesAssumption DEF TurnState, RetriesAssumption
<1>2. CASE old.attempt < MaxRetries
  <2>1. PICK n \in Nat : n = old.attempt + 1
    BY <1>1
  <2> DEFINE st == [old EXCEPT !.pc = "draft", !.attempt = n, !.judged = "none",
                               !.verifier_passes = FALSE]
  <2>2. /\ st \in TurnState
        /\ st.pc = "draft"
        /\ st.attempt = n
        /\ st.response = old.response
        /\ ~st.verifier_passes
        /\ st.guidance = old.guidance
        /\ st.verifier_error = old.verifier_error
    BY DEF TurnState, TurnPoints, Judgements
  <2>3. Rejected(old) = st
    BY <1>2, <2>1 DEF Rejected
  <2> HIDE DEF st
  <2>4. QED
    BY <1>2, <2>1, <2>2, <2>3
<1>3. CASE ~(old.attempt < MaxRetries)
  <2> DEFINE st == [old EXCEPT !.pc = "log", !.response = "fallback",
                               !.retries = MaxRetries, !.fallback = TRUE,
                               !.verifier_passes = FALSE]
  <2>1. /\ st \in TurnState
        /\ st.pc = "log"
        /\ st.response = "fallback"
        /\ ~st.verifier_passes
        /\ st.guidance = old.guidance
        /\ st.verifier_error = old.verifier_error
    BY <1>1 DEF TurnState, TurnPoints, Responses
  <2>2. Rejected(old) = st
    BY <1>3 DEF Rejected
  <2> HIDE DEF st
  <2>3. QED
    BY <1>3, <2>1, <2>2
<1>4. QED
  BY <1>2, <1>3

\* The row on a draft is the only change to the verdicts on file.
LEMMA VerdictFiled ==
  ASSUME TurnInv, NEW t \in Calls, FileVerdict(t)
  PROVE  /\ verifications' \subseteq VerificationRow
         /\ \A u \in Calls, b \in BOOLEAN : u # t => VerdictsOn(u, b)' = VerdictsOn(u, b)
         /\ turn[t].judged = "passes" =>
              /\ VerdictsOn(t, FALSE)' = VerdictsOn(t, FALSE)
              /\ VerdictsOn(t, TRUE)' = VerdictsOn(t, TRUE) \cup {turn[t].attempt}
         /\ turn[t].judged # "passes" =>
              /\ VerdictsOn(t, FALSE)' = VerdictsOn(t, FALSE) \cup {turn[t].attempt}
              /\ VerdictsOn(t, TRUE)' = VerdictsOn(t, TRUE)
<1> DEFINE row == [turn |-> t, attempt |-> turn[t].attempt,
                  passes |-> turn[t].judged = "passes"]
<1>1. row = VerificationOf(t)
  BY DEF VerificationOf
<1>2. /\ row.turn = t
      /\ row.attempt = turn[t].attempt
      /\ row.passes <=> turn[t].judged = "passes"
      /\ row \in VerificationRow
  <2>1. turn[t].attempt \in Nat /\ (turn[t].judged = "passes") \in BOOLEAN
    BY TurnSoFar
  <2>2. row \in VerificationRow
    BY <2>1 DEF VerificationRow
  <2>3. QED
    BY <2>2
<1>3. verifications' = verifications \cup {row}
  BY <1>1 DEF FileVerdict
<1> HIDE DEF row
<1>4. ASSUME NEW u \in Calls, NEW b \in BOOLEAN
      PROVE  /\ row.turn = u /\ row.passes = b =>
                  VerdictsOn(u, b)' = VerdictsOn(u, b) \cup {row.attempt}
             /\ ~(row.turn = u /\ row.passes = b) => VerdictsOn(u, b)' = VerdictsOn(u, b)
  <2>1. VerdictsOn(u, b)'
          = {v.attempt : v \in {w \in verifications \cup {row} : w.turn = u /\ w.passes = b}}
    BY <1>3 DEF VerdictsOn
  <2>2. VerdictsOn(u, b)
          = {v.attempt : v \in {w \in verifications : w.turn = u /\ w.passes = b}}
    BY DEF VerdictsOn
  <2>3. QED
    BY <1>2, <2>1, <2>2, VerdictAdded
<1>5. verifications' \subseteq VerificationRow
  BY <1>2, <1>3, TurnSoFar
<1>6. ASSUME NEW u \in Calls, NEW b \in BOOLEAN, u # t
      PROVE  VerdictsOn(u, b)' = VerdictsOn(u, b)
  BY <1>2, <1>4, <1>6
<1>7. ASSUME turn[t].judged = "passes"
      PROVE  /\ VerdictsOn(t, FALSE)' = VerdictsOn(t, FALSE)
             /\ VerdictsOn(t, TRUE)' = VerdictsOn(t, TRUE) \cup {turn[t].attempt}
  <2>1. row.passes = TRUE /\ row.passes # FALSE
    BY <1>2, <1>7 DEF VerificationRow
  <2>2. QED
    BY <1>2, <1>4, <2>1
<1>8. ASSUME turn[t].judged # "passes"
      PROVE  /\ VerdictsOn(t, FALSE)' = VerdictsOn(t, FALSE) \cup {turn[t].attempt}
             /\ VerdictsOn(t, TRUE)' = VerdictsOn(t, TRUE)
  <2>1. row.passes = FALSE /\ row.passes # TRUE
    BY <1>2, <1>8 DEF VerificationRow
  <2>2. QED
    BY <1>2, <1>4, <2>1
<1>9. QED
  BY <1>5, <1>6, <1>7, <1>8

\* Filing a verdict delivers the draft, uses up an attempt or falls back, and
\* in each case the verdicts on file tell how the turn got there.
LEMMA FileVerdictKeepsInv ==
  ASSUME TurnInv, NEW t \in Calls, FileVerdict(t)
  PROVE  TurnInv'
<1>1. PICK old \in TurnState : old = turn[t]
  BY TurnSoFar
<1>2. PICK n \in Nat : n = old.attempt
  BY DEF TurnState
<1>3. PICK failed, passed : failed = VerdictsOn(t, FALSE)' /\ passed = VerdictsOn(t, TRUE)'
  OBVIOUS
<1>4. PICK st : st = IF old.judged = "passes" THEN Delivered(old) ELSE Rejected(old)
  OBVIOUS
<1>5. /\ old.pc = "file"
      /\ turn' = [turn EXCEPT ![t] = st]
      /\ UNCHANGED <<guardianVars, interactions, history>>
  BY <1>1, <1>4 DEF FileVerdict
<1>6. /\ n <= MaxRetries
      /\ VerdictsOn(t, FALSE) = 0 .. n - 1
      /\ VerdictsOn(t, TRUE) = {}
      /\ old.response = "none"
      /\ ~old.verifier_error
      /\ call[t].pc \in Ended
      /\ old.guidance = GuidanceFor(t)
      /\ old.guidance # "REJECTED"
  BY <1>1, <1>2, <1>5, TurnSoFar DEF AttemptsLeft, AnswerExplained, Unanswered
<1>7. /\ verifications' \subseteq VerificationRow
      /\ \A u \in Calls, b \in BOOLEAN : u # t => VerdictsOn(u, b)' = VerdictsOn(u, b)
  BY VerdictFiled
<1>8. MaxRetries \in Nat
  BY RetriesAssumption DEF RetriesAssumption
<1>9. 0 .. n - 1 \cup {n} = 0 .. n
  BY <1>2
<1>10. CASE old.judged = "passes"
  <2>1. failed = 0 .. n - 1 /\ passed = {n}
    BY <1>1, <1>2, <1>3, <1>6, <1>10, VerdictFiled
  <2>2. /\ st \in TurnState
        /\ st.pc = "log"
        /\ st.response = "draft"
        /\ st.guidance = old.guidance
        /\ st.retries = n
        /\ ~st.verifier_error
    BY <1>2, <1>4, <1>6, <1>10, DeliveredFields
  <2>3. AnswerExplained(st, failed, passed)
    BY <1>6, <2>1, <2>2 DEF AnswerExplained
  <2>4. QED
    BY <1>1, <1>3, <1>5, <1>7, <2>2, <2>3, TurnAnswers
<1>11. CASE old.judged # "passes" /\ n < MaxRetries
  <2>1. failed = 0 .. n /\ passed = {}
    BY <1>1, <1>2, <1>3, <1>6, <1>9, <1>11, VerdictFiled
  <2>2. /\ st \in TurnState
        /\ st.pc = "draft"
        /\ st.response = "none"
        /\ st.attempt = n + 1
        /\ ~st.verifier_passes
        /\ ~st.verifier_error
        /\ st.guidance = old.guidance
    BY <1>2, <1>4, <1>6, <1>11, RejectedFields
  <2>3. n + 1 # 0 /\ n + 1 <= MaxRetries /\ (n + 1) - 1 = n
    BY <1>8, <1>11
  <2>4. AttemptsLeft(st, failed, passed) /\ AnswerExplained(st, failed, passed)
    BY <2>1, <2>2, <2>3 DEF AttemptsLeft, AnswerExplained
  <2>5. /\ st.response = "none" <=> st.pc \in Unanswered
        /\ turn[t].pc \notin {"idle", "reply", "done"}
        /\ st.pc \notin {"idle", "validate", "reply", "done"}
    BY <1>1, <1>5, <2>2 DEF Unanswered
  <2>6. interactions' \subseteq Calls /\ UNCHANGED <<guardianVars, history>>
    BY <1>5, TurnSoFar
  <2>7. QED
    BY <1>3, <1>5, <1>6, <1>7, <2>2, <2>4, <2>5, <2>6, TurnOnlyStep
<1>12. CASE old.judged # "passes" /\ ~(n < MaxRetries)
  <2>1. n = MaxRetries
    BY <1>6, <1>8, <1>12
  <2>2. failed = 0 .. MaxRetries /\ passed = {}
    BY <1>1, <1>2, <1>3, <1>6, <1>9, <1>12, <2>1, VerdictFiled
  <2>3. /\ st \in TurnState
        /\ st.pc = "log"
        /\ st.response = "fallback"
        /\ st.guidance = old.guidance
        /\ ~st.verifier_error
    BY <1>2, <1>4, <1>6, <1>12, RejectedFields
  <2>4. AnswerExplained(st, failed, passed)
    BY <2>2, <2>3 DEF AnswerExplained
  <2>5. QED
    BY <1>1, <1>3, <1>5, <1>7, <2>3, <2>4, TurnAnswers
<1>13. QED
  BY <1>10, <1>11, <1>12

\* What _draft_and_verify returns when verify raised.
LEMMA RaisedFields ==
  ASSUME NEW old \in TurnState
  PROVE  /\ VerifyRaised(old) \in TurnState
         /\ VerifyRaised(old).pc = "log"
         /\ VerifyRaised(old).response = "draft"
         /\ VerifyRaised(old).guidance = old.guidance
         /\ VerifyRaised(old).retries = old.attempt
         /\ VerifyRaised(old).verifier_error
<1>1. PICK st \in TurnState : st = Delivered(old)
  BY DeliveredFields
<1> DEFINE sent == [st EXCEPT !.verifier_error = TRUE]
<1>2. /\ sent \in TurnState
      /\ sent.pc = st.pc
      /\ sent.response = st.response
      /\ sent.guidance = st.guidance
      /\ sent.retries = st.retries
      /\ sent.verifier_error
  BY DEF TurnState
<1>3. VerifyRaised(old) = sent
  BY <1>1 DEF VerifyRaised
<1> HIDE DEF sent
<1>4. QED
  BY <1>1, <1>2, <1>3, DeliveredFields

\* A draft that goes out because verify raised has every attempt before it
\* rejected, and no verdict of its own.
LEMMA VerifyFailsKeepsInv ==
  ASSUME TurnInv, NEW t \in Calls, VerifyFails(t)
  PROVE  TurnInv'
<1>1. PICK old \in TurnState : old = turn[t]
  BY TurnSoFar
<1>2. PICK st : st = VerifyRaised(old)
  OBVIOUS
<1>3. /\ old.pc \in {"verify", "file"}
      /\ turn' = [turn EXCEPT ![t] = st]
      /\ UNCHANGED <<guardianVars, verifications, interactions, history>>
  BY <1>1, <1>2 DEF VerifyFails
<1>4. PICK failed, passed : failed = VerdictsOn(t, FALSE)' /\ passed = VerdictsOn(t, TRUE)'
  OBVIOUS
<1>5. AttemptsLeft(old, failed, passed)
  BY <1>1, <1>3, <1>4, TurnSoFar, VerdictsUnchanged
<1>6. /\ st \in TurnState
      /\ st.pc = "log"
      /\ st.response = "draft"
      /\ st.guidance = old.guidance
      /\ st.retries = old.attempt
      /\ st.verifier_error
  BY <1>2, RaisedFields
<1>7. AnswerExplained(st, failed, passed)
  BY <1>3, <1>5, <1>6 DEF AttemptsLeft, AnswerExplained, Unanswered
<1>8. /\ \A u \in Calls, b \in BOOLEAN : VerdictsOn(u, b)' = VerdictsOn(u, b)
      /\ verifications' \subseteq VerificationRow
  BY <1>3, VerdictsUnchanged, TurnSoFar
<1>9. QED
  BY <1>1, <1>3, <1>4, <1>6, <1>7, <1>8, TurnAnswers

\* Logging an exchange, or failing to, changes nothing the answer rests on.
LEMMA LogKeepsInv ==
  ASSUME TurnInv, NEW t \in Calls, LogTurn(t) \/ LogFails(t)
  PROVE  TurnInv'
<1>1. PICK old \in TurnState : old = turn[t]
  BY TurnSoFar
<1> DEFINE st == [old EXCEPT !.pc = "record"]
<1>2. /\ old.pc = "log"
      /\ UNCHANGED <<guardianVars, verifications, history>>
      /\ turn' = [turn EXCEPT ![t] = st]
      /\ interactions' \subseteq Calls
  BY <1>1, TurnSoFar DEF LogTurn, LogFails
<1>3. /\ st \in TurnState
      /\ st.pc = "record"
      /\ st.guidance = old.guidance
      /\ st.response = old.response
      /\ st.retries = old.retries
      /\ st.verifier_passes = old.verifier_passes
      /\ st.verifier_error = old.verifier_error
  BY DEF TurnState, TurnPoints
<1>4. PICK failed, passed : failed = VerdictsOn(t, FALSE)' /\ passed = VerdictsOn(t, TRUE)'
  OBVIOUS
<1>5. AnswerExplained(old, failed, passed)
  BY <1>1, <1>2, <1>4, TurnSoFar, VerdictsUnchanged
<1> HIDE DEF st
<1>6. AnswerExplained(st, failed, passed) /\ AttemptsLeft(st, failed, passed)
  BY <1>3, <1>5 DEF AnswerExplained, AttemptsLeft, Unanswered
<1>7. /\ \A u \in Calls, b \in BOOLEAN : VerdictsOn(u, b)' = VerdictsOn(u, b)
      /\ verifications' \subseteq VerificationRow
  BY <1>2, VerdictsUnchanged, TurnSoFar
<1>8. /\ call[t].pc \in Ended
      /\ old.guidance = GuidanceFor(t)
      /\ old.guidance = "REJECTED" => old.response \in {"refusal", "escalation"}
      /\ old.response # "none"
      /\ old.response = "escalation" => call[t].escalated
      /\ old.response = "refusal" => /\ call[t].pc = "returned"
                                     /\ call[t].guidance = "REJECTED"
                                     /\ ~call[t].escalated
  BY <1>1, <1>2, TurnSoFar DEF Unanswered
<1>9. /\ st.response = "none" <=> st.pc \in Unanswered
      /\ st.guidance = GuidanceFor(t)
      /\ st.guidance = "REJECTED" => st.response \in {"refusal", "escalation"}
      /\ turn[t].pc \notin {"idle", "reply", "done"}
      /\ st.pc \notin {"idle", "validate", "reply", "done"}
      /\ st.response = "escalation" => call[t].escalated
      /\ st.response = "refusal" => /\ call[t].pc = "returned"
                                    /\ call[t].guidance = "REJECTED"
                                    /\ ~call[t].escalated
  BY <1>1, <1>2, <1>3, <1>8 DEF Unanswered
<1>10. UNCHANGED <<guardianVars, history>>
  BY <1>2
<1>11. QED
  BY <1>2, <1>3, <1>4, <1>6, <1>7, <1>8, <1>9, <1>10, TurnOnlyStep

-----------------------------------------------------------------------------
(***************************************************************************)
(* The two steps that append to the history.                               *)
(***************************************************************************)

\* What one appended entry does to the positions in every history.
LEMMA EntryAppended ==
  ASSUME TurnInv, NEW s \in Sessions, NEW role \in {"user", "assistant"}, NEW t \in Calls,
         history' = [history EXCEPT ![s] = Appended(s, role, t)]
  PROVE  /\ history' \in [Sessions -> Seq(Entry)]
         /\ \A r \in Sessions : DOMAIN history[r] \subseteq DOMAIN history'[r]
         /\ \A r \in Sessions, x \in {"user", "assistant"}, u \in Calls :
              r # s \/ x # role \/ u # t => Positions(r, x, u)' = Positions(r, x, u)
         /\ \E n \in DOMAIN history'[s] :
              /\ Positions(s, role, t)' = Positions(s, role, t) \cup {n}
              /\ \A i \in DOMAIN history[s] : i < n
<1>1. history \in [Sessions -> Seq(Entry)]
  BY DEF TurnInv, TurnTypeOK
<1>2. PICK h \in Seq(Entry) : h = history[s]
  BY <1>1
<1>3. PICK e \in Entry : e = [role |-> role, turn |-> t]
  BY DEF Entry
<1>4. PICK g : g = Append(h, e)
  OBVIOUS
<1>5. PICK n : n = Len(h) + 1
  OBVIOUS
<1>6. /\ g \in Seq(Entry)
      /\ DOMAIN h = 1 .. n - 1
      /\ DOMAIN g = 1 .. n
      /\ n \in Nat \ {0}
      /\ \A x : x = e => {i \in DOMAIN g : g[i] = x} = {i \in DOMAIN h : h[i] = x} \cup {n}
      /\ \A x : x # e => {i \in DOMAIN g : g[i] = x} = {i \in DOMAIN h : h[i] = x}
  <2>1. Len(h) \in Nat /\ n - 1 = Len(h)
    BY <1>5, LenProperties
  <2>2. QED
    BY <1>4, <1>5, <2>1, PositionAdded
<1>7. history' = [history EXCEPT ![s] = g]
  BY <1>2, <1>3, <1>4 DEF Appended
<1>8. /\ history' \in [Sessions -> Seq(Entry)]
      /\ history'[s] = g
      /\ \A r \in Sessions : r # s => history'[r] = history[r]
  BY <1>1, <1>6, <1>7
<1>9. ASSUME NEW r \in Sessions, NEW x \in {"user", "assistant"}, NEW u \in Calls,
             r # s \/ x # role \/ u # t
      PROVE  Positions(r, x, u)' = Positions(r, x, u)
  <2>1. CASE r # s
    BY <1>8, <2>1 DEF Positions
  <2>2. CASE r = s
    <3>1. PICK y : y = [role |-> x, turn |-> u]
      OBVIOUS
    <3>2. y # e
      BY <1>3, <1>9, <2>2, <3>1
    <3>3. Positions(r, x, u)' = {i \in DOMAIN g : g[i] = y}
      BY <1>8, <2>2, <3>1 DEF Positions
    <3>4. Positions(r, x, u) = {i \in DOMAIN h : h[i] = y}
      BY <1>2, <2>2, <3>1 DEF Positions
    <3>5. QED
      BY <1>6, <3>2, <3>3, <3>4
  <2>3. QED
    BY <2>1, <2>2
<1>10. Positions(s, role, t)' = Positions(s, role, t) \cup {n}
  <2>1. Positions(s, role, t)' = {i \in DOMAIN g : g[i] = e}
    BY <1>3, <1>8 DEF Positions
  <2>2. Positions(s, role, t) = {i \in DOMAIN h : h[i] = e}
    BY <1>2, <1>3 DEF Positions
  <2>3. QED
    BY <1>6, <2>1, <2>2
<1>11. /\ n \in DOMAIN history'[s]
       /\ \A i \in DOMAIN history[s] : i < n
       /\ DOMAIN history[s] \subseteq DOMAIN history'[s]
  BY <1>2, <1>6, <1>8
<1>12. \A r \in Sessions : DOMAIN history[r] \subseteq DOMAIN history'[r]
  BY <1>8, <1>11
<1>13. QED
  BY <1>8, <1>9, <1>10, <1>11, <1>12

\* What EntriesSoFar says of one turn in one session's history.
EntriesOf(r, u) ==
  /\ SessionOf(u) # r \/ turn[u].pc \notin {"reply", "done"} => Positions(r, "user", u) = {}
  /\ SessionOf(u) # r \/ turn[u].pc # "done" => Positions(r, "assistant", u) = {}
  /\ SessionOf(u) = r /\ turn[u].pc = "reply" =>
       \E i \in DOMAIN history[r] : Positions(r, "user", u) = {i}
  /\ SessionOf(u) = r /\ turn[u].pc = "done" =>
       \E i, j \in DOMAIN history[r] :
         /\ i < j
         /\ Positions(r, "user", u) = {i}
         /\ Positions(r, "assistant", u) = {j}

\* A turn that moves on to st as it records an entry keeps the invariant if
\* the histories then hold what it has recorded.
LEMMA RecordStep ==
  ASSUME TurnInv, NEW t \in Calls, NEW st \in TurnState,
         turn' = [turn EXCEPT ![t] = st],
         UNCHANGED <<guardianVars, verifications, interactions>>,
         turn[t].pc \in {"record", "reply"},
         st.pc \in {"reply", "done"},
         st.guidance = turn[t].guidance,
         st.response = turn[t].response,
         st.retries = turn[t].retries,
         st.verifier_passes = turn[t].verifier_passes,
         st.verifier_error = turn[t].verifier_error,
         history' \in [Sessions -> Seq(Entry)],
         EntriesSoFar'
  PROVE  TurnInv'
<1>1. /\ sessions' = sessions
      /\ questions' = questions
      /\ violations' = violations
      /\ call' = call
      /\ verifications' = verifications
      /\ interactions' = interactions
  BY DEF guardianVars
<1>2. /\ turn'[t] = st
      /\ \A u \in Calls : u # t => turn'[u] = turn[u]
      /\ turn' \in [Calls -> TurnState]
  BY DEF TurnInv, TurnTypeOK
<1>3. GuardianInv' /\ VerdictsOnFile'
  BY GuardianStepKeepsInv, VerdictsStayOnFile DEF TurnInv
<1>4. TurnTypeOK'
  BY <1>1, <1>2, <1>3 DEF TurnInv, TurnTypeOK, GuardianInv
<1>5. TurnFollowsCall'
  <2>1. st.pc \notin Unanswered /\ turn[t].pc \notin Unanswered
    BY DEF Unanswered
  <2>2. \A u \in Calls : GuidanceFor(u)' = GuidanceFor(u)
    BY <1>1 DEF GuidanceFor
  <2>3. QED
    BY <1>1, <1>2, <2>1, <2>2 DEF TurnInv, TurnFollowsCall, Ended
<1>6. \A u, b : VerdictsOn(u, b)' = VerdictsOn(u, b)
  BY <1>1, VerdictsUnchanged
<1>7. ASSUME NEW u \in Calls
      PROVE  /\ turn'[u].pc \in {"idle", "validate"} => turn'[u].attempt = 0
             /\ AttemptsLeft(turn'[u], VerdictsOn(u, FALSE), VerdictsOn(u, TRUE))
             /\ AnswerExplained(turn'[u], VerdictsOn(u, FALSE), VerdictsOn(u, TRUE))
  <2>1. CASE u = t
    <3>1. AnswerExplained(turn[t], VerdictsOn(t, FALSE), VerdictsOn(t, TRUE))
      BY TurnSoFar
    <3>2. QED
      BY <1>2, <2>1, <3>1 DEF AttemptsLeft, AnswerExplained, Unanswered
  <2>2. CASE u # t
    BY <1>2, <2>2, TurnSoFar
  <2>3. QED
    BY <2>1, <2>2
<1>8. AttemptsRejected'
  BY <1>6, <1>7 DEF AttemptsRejected, AttemptsLeft
<1>9. AnswersExplained'
  BY <1>6, <1>7 DEF AnswersExplained, AnswerExplained
<1>10. QED
  BY <1>3, <1>4, <1>5, <1>8, <1>9 DEF TurnInv

\* The question is appended once, behind whatever other turns appended.
LEMMA RecordQuestionKeepsInv ==
  ASSUME TurnInv, NEW t \in Calls, RecordQuestion(t)
  PROVE  TurnInv'
<1>1. PICK old \in TurnState : old = turn[t]
  BY TurnSoFar
<1>2. PICK s : s = SessionOf(t)
  OBVIOUS
<1> DEFINE st == [old EXCEPT !.pc = "reply"]
<1>3. /\ old.pc = "record"
      /\ UNCHANGED <<guardianVars, verifications, interactions>>
      /\ history' = [history EXCEPT ![s] = Appended(s, "user", t)]
      /\ turn' = [turn EXCEPT ![t] = st]
  BY <1>1, <1>2, TurnSoFar DEF RecordQuestion
<1>4. /\ st \in TurnState
      /\ st.pc = "reply"
      /\ st.guidance = old.guidance
      /\ st.response = old.response
      /\ st.retries = old.retries
      /\ st.verifier_passes = old.verifier_passes
      /\ st.verifier_error = old.verifier_error
  BY DEF TurnState, TurnPoints
<1> HIDE DEF st
<1>5. call[t].pc # "idle" /\ s \in Sessions
  BY <1>1, <1>2, <1>3, TurnSoFar
     DEF Ended, SessionOf, TurnInv, GuardianInv, CallWellFormed
<1>6. /\ turn'[t] = st
      /\ \A u \in Calls : u # t => turn'[u] = turn[u]
      /\ \A u \in Calls : SessionOf(u)' = SessionOf(u)
  BY <1>3 DEF TurnInv, TurnTypeOK, SessionOf, guardianVars
<1>7. /\ history' \in [Sessions -> Seq(Entry)]
      /\ \A r \in Sessions : DOMAIN history[r] \subseteq DOMAIN history'[r]
      /\ \A r \in Sessions, x \in {"user", "assistant"}, u \in Calls :
           r # s \/ x # "user" \/ u # t => Positions(r, x, u)' = Positions(r, x, u)
      /\ \E n \in DOMAIN history'[s] :
           /\ Positions(s, "user", t)' = Positions(s, "user", t) \cup {n}
           /\ \A i \in DOMAIN history[s] : i < n
  BY <1>3, <1>5, EntryAppended
<1>8. \A r \in Sessions, u \in Calls : EntriesOf(r, u)
  BY DEF TurnInv, EntriesSoFar, EntriesOf
<1>9. ASSUME NEW r \in Sessions, NEW u \in Calls
      PROVE  EntriesOf(r, u)'
  <2>1. CASE u # t
    <3>1. /\ turn'[u] = turn[u]
          /\ SessionOf(u)' = SessionOf(u)
          /\ Positions(r, "user", u)' = Positions(r, "user", u)
          /\ Positions(r, "assistant", u)' = Positions(r, "assistant", u)
          /\ DOMAIN history[r] \subseteq DOMAIN history'[r]
      BY <1>6, <1>7, <2>1
    <3>2. QED
      BY <1>8, <3>1 DEF EntriesOf
  <2>2. CASE u = t /\ r # s
    <3>1. /\ turn'[u].pc = "reply"
          /\ SessionOf(u)' # r
          /\ Positions(r, "user", u)' = Positions(r, "user", u)
          /\ Positions(r, "assistant", u)' = Positions(r, "assistant", u)
      BY <1>2, <1>4, <1>6, <1>7, <2>2
    <3>2. Positions(r, "user", u) = {} /\ Positions(r, "assistant", u) = {}
      BY <1>2, <1>8, <2>2 DEF EntriesOf
    <3>3. QED
      BY <3>1, <3>2 DEF EntriesOf
  <2>3. CASE u = t /\ r = s
    <3>1. Positions(s, "user", t) = {} /\ Positions(s, "assistant", t) = {}
      BY <1>1, <1>3, <1>5, <1>8 DEF EntriesOf
    <3>2. Positions(s, "assistant", t)' = {}
      BY <1>5, <1>7, <3>1
    <3>3. \E n \in DOMAIN history'[s] : Positions(s, "user", t)' = {n}
      BY <1>7, <3>1
    <3>4. turn'[t].pc = "reply" /\ SessionOf(t)' = s
      BY <1>2, <1>4, <1>6
    <3>5. QED
      BY <2>3, <3>2, <3>3, <3>4 DEF EntriesOf
  <2>4. QED
    BY <2>1, <2>2, <2>3
<1>10. EntriesSoFar'
  BY <1>9 DEF EntriesSoFar, EntriesOf
<1>11. QED
  BY <1>1, <1>3, <1>4, <1>7, <1>10, RecordStep

\* The answer is appended once, somewhere behind its question.
LEMMA RecordResponseKeepsInv ==
  ASSUME TurnInv, NEW t \in Calls, RecordResponse(t)
  PROVE  TurnInv'
<1>1. PICK old \in TurnState : old = turn[t]
  BY TurnSoFar
<1>2. PICK s : s = SessionOf(t)
  OBVIOUS
<1> DEFINE st == [old EXCEPT !.pc = "done"]
<1>3. /\ old.pc = "reply"
      /\ UNCHANGED <<guardianVars, verifications, interactions>>
      /\ history' = [history EXCEPT ![s] = Appended(s, "assistant", t)]
      /\ turn' = [turn EXCEPT ![t] = st]
  BY <1>1, <1>2, TurnSoFar DEF RecordResponse
<1>4. /\ st \in TurnState
      /\ st.pc = "done"
      /\ st.guidance = old.guidance
      /\ st.response = old.response
      /\ st.retries = old.retries
      /\ st.verifier_passes = old.verifier_passes
      /\ st.verifier_error = old.verifier_error
  BY DEF TurnState, TurnPoints
<1> HIDE DEF st
<1>5. call[t].pc # "idle" /\ s \in Sessions
  BY <1>1, <1>2, <1>3, TurnSoFar
     DEF Ended, SessionOf, TurnInv, GuardianInv, CallWellFormed
<1>6. /\ turn'[t] = st
      /\ \A u \in Calls : u # t => turn'[u] = turn[u]
      /\ \A u \in Calls : SessionOf(u)' = SessionOf(u)
  BY <1>3 DEF TurnInv, TurnTypeOK, SessionOf, guardianVars
<1>7. /\ history' \in [Sessions -> Seq(Entry)]
      /\ \A r \in Sessions : DOMAIN history[r] \subseteq DOMAIN history'[r]
      /\ \A r \in Sessions, x \in {"user", "assistant"}, u \in Calls :
           r # s \/ x # "assistant" \/ u # t => Positions(r, x, u)' = Positions(r, x, u)
      /\ \E n \in DOMAIN history'[s] :
           /\ Positions(s, "assistant", t)' = Positions(s, "assistant", t) \cup {n}
           /\ \A i \in DOMAIN history[s] : i < n
  BY <1>3, <1>5, EntryAppended
<1>8. \A r \in Sessions, u \in Calls : EntriesOf(r, u)
  BY DEF TurnInv, EntriesSoFar, EntriesOf
<1>9. ASSUME NEW r \in Sessions, NEW u \in Calls
      PROVE  EntriesOf(r, u)'
  <2>1. CASE u # t
    <3>1. /\ turn'[u] = turn[u]
          /\ SessionOf(u)' = SessionOf(u)
          /\ Positions(r, "user", u)' = Positions(r, "user", u)
          /\ Positions(r, "assistant", u)' = Positions(r, "assistant", u)
          /\ DOMAIN history[r] \subseteq DOMAIN history'[r]
      BY <1>6, <1>7, <2>1
    <3>2. QED
      BY <1>8, <3>1 DEF EntriesOf
  <2>2. CASE u = t /\ r # s
    <3>1. /\ turn'[u].pc = "done"
          /\ SessionOf(u)' # r
          /\ Positions(r, "user", u)' = Positions(r, "user", u)
          /\ Positions(r, "assistant", u)' = Positions(r, "assistant", u)
      BY <1>2, <1>4, <1>6, <1>7, <2>2
    <3>2. Positions(r, "user", u) = {} /\ Positions(r, "assistant", u) = {}
      BY <1>2, <1>8, <2>2 DEF EntriesOf
    <3>3. QED
      BY <3>1, <3>2 DEF EntriesOf
  <2>3. CASE u = t /\ r = s
    <3>1. Positions(s, "assistant", t) = {}
      BY <1>1, <1>3, <1>5, <1>8 DEF EntriesOf
    <3>2. PICK i \in DOMAIN history[s] : Positions(s, "user", t) = {i}
      BY <1>1, <1>2, <1>3, <1>5, <1>8 DEF EntriesOf
    <3>3. PICK n \in DOMAIN history'[s] : Positions(s, "assistant", t)' = {n} /\ i < n
      BY <1>7, <3>1
    <3>4. i \in DOMAIN history'[s] /\ Positions(s, "user", t)' = {i}
      BY <1>5, <1>7, <3>2
    <3>5. turn'[t].pc = "done" /\ SessionOf(t)' = s
      BY <1>2, <1>4, <1>6
    <3>6. QED
      BY <2>3, <3>3, <3>4, <3>5 DEF EntriesOf
  <2>4. QED
    BY <2>1, <2>2, <2>3
<1>10. EntriesSoFar'
  BY <1>9 DEF EntriesSoFar, EntriesOf
<1>11. QED
  BY <1>1, <1>3, <1>4, <1>7, <1>10, RecordStep

-----------------------------------------------------------------------------
(***************************************************************************)
(* The theorems.                                                           *)
(***************************************************************************)

\* No step of a turn, of a session's lifecycle or of a failing store breaks
\* the invariant.
LEMMA TurnStepKeepsInv ==
  ASSUME TurnInv, [TurnNext]_vars
  PROVE  TurnInv'
<1>1. GuardianInv' /\ VerdictsOnFile' /\ [GuardianNext]_guardianVars
  BY TurnStepKeepsGuardianInv, TurnStepsAreGuardianSteps DEF TurnInv
<1>2. ASSUME NEW s \in Sessions, OpenSession(s) \/ EndSession(s)
      PROVE  TurnInv'
  <2>1. UNCHANGED pipelineVars /\ UNCHANGED call
    BY <1>2 DEF OpenSession, EndSession, SessionStart, SessionEnd
  <2>2. QED
    BY <1>1, <2>1, GuardianOnlyStep
<1>3. ASSUME NEW t \in Calls, NEW s \in Sessions, StartTurn(t, s)
      PROVE  TurnInv'
  BY <1>1, <1>3, StartTurnKeepsInv
<1>4. ASSUME NEW t \in Calls, Validate(t)
      PROVE  TurnInv'
  <2>1. UNCHANGED pipelineVars /\ ValidateStep(t)
    BY <1>4 DEF Validate
  <2>2. \A u \in Calls : call[u].pc = "idle" => call'[u] = call[u]
    <3>1. call[t].pc # "idle"
      BY <2>1 DEF ValidateStep, ReadSession, ReadClosedSession, Classify,
         InsertViolation, InsertQuestion, UpdateCounters, RecordFails, StoreFails
    <3>2. \A u \in Calls : u # t => call'[u] = call[u]
      BY <2>1 DEF TurnInv, TurnTypeOK, GuardianTypeOK, ValidateStep, ReadSession,
         ReadClosedSession, Classify, InsertViolation, InsertQuestion,
         UpdateCounters, RecordFails, StoreFails
    <3>3. QED
      BY <3>1, <3>2
  <2>3. QED
    BY <1>1, <2>1, <2>2, GuardianOnlyStep
<1>5. ASSUME NEW t \in Calls, TurnStep(t), ~Validate(t)
      PROVE  TurnInv'
  BY <1>5, RefuseTurnKeepsInv, AdmitTurnKeepsInv, CompanionDraftsKeepsInv,
     CompanionFailsKeepsInv, JudgeDraftKeepsInv, FileVerdictKeepsInv,
     VerifyFailsKeepsInv, LogKeepsInv, RecordQuestionKeepsInv,
     RecordResponseKeepsInv DEF TurnStep
<1>6. CASE UNCHANGED vars
  <2>1. UNCHANGED pipelineVars /\ UNCHANGED guardianVars
    BY <1>6 DEF vars
  <2>2. UNCHANGED call
    BY <2>1 DEF guardianVars
  <2>3. QED
    BY <1>1, <2>1, <2>2, GuardianOnlyStep
<1>7. QED
  BY <1>2, <1>3, <1>4, <1>5, <1>6 DEF TurnNext

\* However turns overlap and whatever fails, the invariant is never untrue.
THEOREM TurnInvariant == TurnSpec => []TurnInv
<1>1. TurnInit => TurnInv
  BY TurnInitEstablishesInv
<1>2. TurnInv /\ [TurnNext]_vars => TurnInv'
  BY TurnStepKeepsInv
<1>3. QED
  BY <1>1, <1>2, PTL DEF TurnSpec

\* The tables, the histories and the local variables of the turns keep their
\* types.
THEOREM TurnTypeCorrect == TurnSpec => []TurnTypeOK
<1>1. TurnInv => TurnTypeOK
  BY DEF TurnInv
<1>2. QED
  BY <1>1, TurnInvariant, PTL

\* _draft_and_verify never delivers, gives up or apologises otherwise than the
\* verifications table tells: k retries are k rejections, the fallback is
\* MaxRetries + 1, and what was refused was never drafted.
THEOREM AnswersAreExplained == TurnSpec => []AnswersExplained
<1>1. TurnInv => AnswersExplained
  BY DEF TurnInv
<1>2. QED
  BY <1>1, TurnInvariant, PTL

\* derive_guidance_level rejects for an escalation, a direct solution or the
\* end of the throttle, and for nothing else.
LEMMA RejectionHasACause ==
  ASSUME NEW classification, NEW qc \in Nat, NEW vc \in Nat, NEW esc \in BOOLEAN,
         DeriveGuidanceLevel(classification, qc, vc, esc) = "REJECTED",
         ~esc
  PROVE  classification = "DIRECT_SOLUTION" \/ qc >= RejectAt
<1>1. CASE classification = "DIRECT_SOLUTION"
  BY <1>1
<1>2. CASE classification = "ANSWER_FARMING"
  BY <1>2 DEF DeriveGuidanceLevel
<1>3. CASE classification \notin {"DIRECT_SOLUTION", "ANSWER_FARMING"}
  <2>1. Throttle(qc, vc) = "REJECTED"
    BY <1>3 DEF DeriveGuidanceLevel
  <2>2. QED
    BY <2>1, ThresholdsAssumption DEF Throttle, ThresholdsAssumption
<1>4. QED
  BY <1>1, <1>2, <1>3

\* Nobody is refused without cause, even when the counters the refusal was
\* computed from have been overwritten since (orchestrator.py:133-154).
THEOREM RefusalsAreEarned == TurnSpec => []RefusalsEarned
<1>1. TurnInv => RefusalsEarned
  <2> SUFFICES ASSUME TurnInv, NEW t \in Calls
      PROVE  /\ turn[t].response = "escalation" =>
                  Cardinality(ViolationsOf(SessionOf(t))) >= EscalateAt
             /\ turn[t].response = "refusal" =>
                  \E q \in questions :
                    /\ q.question_id = t
                    /\ q.classification = "DIRECT_SOLUTION" \/ q.sequence_number >= RejectAt
    BY DEF RefusalsEarned
  <2>1. ASSUME turn[t].response = "escalation"
        PROVE  Cardinality(ViolationsOf(SessionOf(t))) >= EscalateAt
    BY <2>1, TurnSoFar DEF TurnInv, GuardianInv, EscalationEarned, SessionOf
  <2>2. ASSUME turn[t].response = "refusal"
        PROVE  \E q \in questions :
                 /\ q.question_id = t
                 /\ q.classification = "DIRECT_SOLUTION" \/ q.sequence_number >= RejectAt
    <3>1. /\ call[t] \in CallState
          /\ call[t].pc = "returned"
          /\ call[t].guidance = "REJECTED"
          /\ ~call[t].escalated
      BY <2>2, TurnSoFar
    <3>2. PICK q \in questions : /\ q.question_id = t
                                 /\ q.classification = call[t].classification
                                 /\ q.sequence_number = call[t].question_count
      BY <3>1 DEF TurnInv, VerdictsOnFile
    <3>3. GuidanceOf(call[t]) = "REJECTED"
      BY <3>1 DEF TurnInv, VerdictsOnFile
    <3>4. /\ call[t].question_count \in Nat
          /\ call[t].violation_count \in Nat
          /\ call[t].escalated \in BOOLEAN
      BY <3>1 DEF CallState
    <3>5. call[t].classification = "DIRECT_SOLUTION" \/ call[t].question_count >= RejectAt
      BY <3>1, <3>3, <3>4, RejectionHasACause DEF GuidanceOf
    <3>6. QED
      BY <3>2, <3>5
  <2>3. QED
    BY <2>1, <2>2
<1>2. QED
  BY <1>1, TurnInvariant, PTL

\* _record_turn puts a question and its answer in the history exactly once and
\* in that order, wherever the entries of overlapping turns fall in between.
THEOREM RecordsAreInOrder == TurnSpec => []TurnsRecordedInOrder
<1>1. TurnInv => TurnsRecordedInOrder
  <2> SUFFICES ASSUME TurnInv, NEW s \in Sessions, NEW t \in Calls, SessionOf(t) = s
      PROVE  /\ Cardinality(Positions(s, "user", t)) <= 1
             /\ Cardinality(Positions(s, "assistant", t)) <= 1
             /\ \A j \in Positions(s, "assistant", t) :
                  \E i \in Positions(s, "user", t) : i < j
             /\ turn[t].pc = "done" => Positions(s, "assistant", t) # {}
    BY DEF TurnsRecordedInOrder
  <2>1. EntriesOf(s, t)
    BY DEF TurnInv, EntriesSoFar, EntriesOf
  <2>2. \A P : (P = {} \/ \E i : P = {i}) => Cardinality(P) <= 1
    <3>1. \A P : P = {} => Cardinality(P) = 0
      BY FS_EmptySet
    <3>2. \A P : (\E i : P = {i}) => Cardinality(P) = 1
      BY FS_Singleton
    <3>3. QED
      BY <3>1, <3>2
  <2>3. CASE turn[t].pc = "done"
    <3>1. PICK i, j \in DOMAIN history[s] : /\ i < j
                                            /\ Positions(s, "user", t) = {i}
                                            /\ Positions(s, "assistant", t) = {j}
      BY <2>1, <2>3 DEF EntriesOf
    <3>2. /\ Cardinality(Positions(s, "user", t)) <= 1
          /\ Cardinality(Positions(s, "assistant", t)) <= 1
      BY <2>2, <3>1
    <3>3. QED
      BY <3>1, <3>2
  <2>4. CASE turn[t].pc = "reply"
    <3>1. PICK i \in DOMAIN history[s] : Positions(s, "user", t) = {i}
      BY <2>1, <2>4 DEF EntriesOf
    <3>2. Positions(s, "assistant", t) = {}
      BY <2>1, <2>4 DEF EntriesOf
    <3>3. /\ Cardinality(Positions(s, "user", t)) <= 1
          /\ Cardinality(Positions(s, "assistant", t)) <= 1
      BY <2>2, <3>1, <3>2
    <3>4. QED
      BY <2>4, <3>2, <3>3
  <2>5. CASE turn[t].pc \notin {"reply", "done"}
    BY <2>1, <2>2, <2>5 DEF EntriesOf
  <2>6. QED
    BY <2>3, <2>4, <2>5
<1>2. QED
  BY <1>1, TurnInvariant, PTL

-----------------------------------------------------------------------------
(***************************************************************************)
(* The history is the conversation: with serialised turns, and whatever    *)
(* fails, it is a sequence of exchanges in the order of their numbers.     *)
(***************************************************************************)

LEMMA ConversationInitially == TurnInit => ConversationInv
<1> SUFFICES ASSUME TurnInit PROVE ConversationInv
  OBVIOUS
<1>1. SerialInv /\ TurnInv
  BY SerialInit, TurnInitEstablishesInv DEF TurnInit
<1>2. /\ \A t \in Calls : turn[t].pc = "idle" /\ call[t].pc = "idle"
      /\ \A s \in Sessions : history[s] = <<>>
  BY DEF TurnInit, GuardianInit, NoTurn, NoCall
<1>3. OneTurnAtATime
  BY <1>2 DEF OneTurnAtATime, InProgress
<1>4. Paired
  <2>1. \A s \in Sessions : Len(history[s]) = 2 * 0 /\ ~Replying(s)
    BY <1>2 DEF Replying
  <2>2. \A s \in Sessions : 0 \in 0 .. Len(history[s]) /\ 1 .. 0 = {}
    BY <2>1
  <2>3. QED
    BY <1>2, <2>1, <2>2 DEF Paired
<1>5. InOrder
  BY <1>2 DEF InOrder, ReturnedOn
<1>6. QED
  BY <1>1, <1>3, <1>4, <1>5 DEF ConversationInv

-----------------------------------------------------------------------------

\* What ConversationInv says of the calls and the turns, of their types first.
LEMMA ConversationTypes ==
  ASSUME ConversationInv
  PROVE  /\ TurnInv
         /\ SerialInv
         /\ call \in [Calls -> CallState]
         /\ turn \in [Calls -> TurnState]
         /\ sessions \in [Sessions -> SessionRow]
         /\ history \in [Sessions -> Seq(Entry)]
         /\ \A t \in Calls : turn[t].pc = "idle" <=> call[t].pc = "idle"
         /\ \A t \in Calls : call[t].pc # "idle" => SessionOf(t) \in Sessions
BY DEF ConversationInv, TurnInv, TurnTypeOK, TurnFollowsCall, SerialInv, GuardianInv,
   GuardianTypeOK, CallWellFormed, SessionOf

\* A step that starts no turn, on an occupied session at least, leaves the turns
\* one at a time.
LEMMA OneTurnStays ==
  ASSUME OneTurnAtATime,
         \A t \in Calls : InProgress(t)' => InProgress(t) /\ SessionOf(t)' = SessionOf(t)
  PROVE  OneTurnAtATime'
BY DEF OneTurnAtATime

\* The history stays in pairs when nothing is recorded.
LEMMA PairedStays ==
  ASSUME Paired, history' = history,
         \A t \in Calls : /\ turn'[t].pc = "reply" <=> turn[t].pc = "reply"
                          /\ turn'[t].pc = "done" <=> turn[t].pc = "done"
                          /\ turn[t].pc \in {"reply", "done"} => SessionOf(t)' = SessionOf(t)
  PROVE  Paired'
<1>1. ASSUME NEW s \in Sessions
      PROVE  /\ Replying(s)' <=> Replying(s)
             /\ \A t \in Calls : SessionOf(t)' = s /\ turn'[t].pc \in {"reply", "done"} =>
                  SessionOf(t) = s /\ turn'[t].pc = turn[t].pc
  BY DEF Replying
<1>2. ASSUME NEW s \in Sessions
      PROVE  /\ \E n \in 0 .. Len(history[s]) :
                  /\ Len(history[s]) = IF Replying(s)' THEN 2 * n + 1 ELSE 2 * n
                  /\ \A k \in 1 .. n : \E t \in Calls : Exchange(history[s], k, t)
             /\ \A t \in Calls : SessionOf(t)' = s =>
                  /\ turn'[t].pc = "reply" =>
                       history[s][Len(history[s])] = [role |-> "user", turn |-> t]
                  /\ turn'[t].pc = "done" =>
                       \E k \in 1 .. Len(history[s]) : Exchange(history[s], k, t)
  <2>1. /\ \E n \in 0 .. Len(history[s]) :
             /\ Len(history[s]) = IF Replying(s) THEN 2 * n + 1 ELSE 2 * n
             /\ \A k \in 1 .. n : \E t \in Calls : Exchange(history[s], k, t)
        /\ \A t \in Calls : SessionOf(t) = s =>
             /\ turn[t].pc = "reply" =>
                  history[s][Len(history[s])] = [role |-> "user", turn |-> t]
             /\ turn[t].pc = "done" =>
                  \E k \in 1 .. Len(history[s]) : Exchange(history[s], k, t)
    BY DEF Paired
  <2>2. QED
    BY <1>1, <2>1
<1>3. QED
  BY <1>2 DEF Paired

\* The exchanges stay in the order of their numbers when nothing is recorded and
\* no question is counted.
LEMMA InOrderStays ==
  ASSUME InOrder, history' = history,
         \A s \in Sessions : sessions'[s].question_count = sessions[s].question_count,
         \A t \in Calls : call[t].pc = "returned" => call'[t] = call[t],
         \A t \in Calls : call'[t].pc = "returned" =>
           call[t].pc = "returned" /\ (InProgress(t)' => InProgress(t))
  PROVE  InOrder'
<1>1. \A s : ReturnedOn(s)' = ReturnedOn(s)
  BY DEF ReturnedOn
<1>2. \A s : \A t \in ReturnedOn(s) :
        call'[t] = call[t] /\ (InProgress(t)' => InProgress(t))
  BY DEF ReturnedOn
<1>3. ASSUME NEW s \in Sessions
      PROVE  /\ \A t \in ReturnedOn(s) :
                  InProgress(t)' => call'[t].question_count = sessions'[s].question_count
             /\ \A t, u \in ReturnedOn(s), k, l \in 1 .. Len(history[s]) :
                  Exchange(history[s], k, t) /\ Exchange(history[s], l, u) /\ k < l =>
                    call'[t].question_count < call'[u].question_count
  <2>1. /\ \A t \in ReturnedOn(s) :
             InProgress(t) => call[t].question_count = sessions[s].question_count
        /\ \A t, u \in ReturnedOn(s), k, l \in 1 .. Len(history[s]) :
             Exchange(history[s], k, t) /\ Exchange(history[s], l, u) /\ k < l =>
               call[t].question_count < call[u].question_count
    BY DEF InOrder
  <2>2. QED
    BY <1>2, <2>1
<1>4. QED
  BY <1>1, <1>3 DEF InOrder, Exchange

-----------------------------------------------------------------------------

\* The start and the end of a session count no question.
LEMMA LifecycleKeepsConversation ==
  ASSUME ConversationInv, SerialInv', TurnInv', NEW s \in Sessions,
         OpenSession(s) \/ EndSession(s)
  PROVE  ConversationInv'
<1>1. sessions \in [Sessions -> SessionRow]
  BY ConversationTypes
<1>2. UNCHANGED <<call, turn, history>>
  BY DEF OpenSession, EndSession, SessionStart, SessionEnd, pipelineVars
<1>3. \A r \in Sessions : sessions'[r].question_count = sessions[r].question_count
  <2>1. CASE OpenSession(s)
    <3>1. sessions[s].question_count = 0
      BY <2>1, NothingBeforeStart DEF OpenSession, SessionStart, ConversationInv
    <3>2. QED
      BY <1>1, <2>1, <3>1 DEF OpenSession, SessionStart, NoRow
  <2>2. CASE EndSession(s)
    BY <1>1, <2>2 DEF EndSession, SessionEnd, SessionRow
  <2>3. QED
    BY <2>1, <2>2
<1>4. \A t \in Calls : SessionOf(t)' = SessionOf(t) /\ InProgress(t)' = InProgress(t)
  BY <1>2 DEF SessionOf, InProgress
<1>5. OneTurnAtATime' /\ Paired' /\ InOrder'
  BY <1>2, <1>3, <1>4, OneTurnStays, PairedStays, InOrderStays DEF ConversationInv
<1>6. QED
  BY <1>5 DEF ConversationInv

\* A turn is picked up when no other is in progress on the session.
LEMMA StartTurnKeepsConversation ==
  ASSUME Serialized = TRUE, ConversationInv, SerialInv', TurnInv',
         NEW t \in Calls, NEW s \in Sessions, StartTurn(t, s)
  PROVE  ConversationInv'
<1>1. /\ call[t].pc = "idle"
      /\ turn[t].pc = "idle"
      /\ ~Occupied(s)
      /\ UNCHANGED <<sessions, history>>
  BY ConversationTypes DEF StartTurn, CallValidate
<1>2. /\ call'[t].pc = "read"
      /\ SessionOf(t)' = s
      /\ turn'[t].pc = "validate"
  BY ConversationTypes DEF StartTurn, CallValidate, CallState, TurnState, SessionOf
<1>3. \A u \in Calls : u # t => call'[u] = call[u] /\ turn'[u] = turn[u]
  BY ConversationTypes DEF StartTurn, CallValidate
<1>4. \A u \in Calls : u # t => SessionOf(u)' = SessionOf(u) /\ InProgress(u)' = InProgress(u)
  BY <1>3 DEF SessionOf, InProgress
<1>5. OneTurnAtATime'
  <2>1. \A u \in Calls : u # t /\ InProgress(u)' => SessionOf(u)' # s
    BY <1>1, <1>4 DEF Occupied
  <2>2. QED
    BY <1>2, <1>4, <2>1 DEF ConversationInv, OneTurnAtATime
<1>6. Paired'
  <2>1. ASSUME NEW u \in Calls
        PROVE  /\ turn'[u].pc = "reply" <=> turn[u].pc = "reply"
               /\ turn'[u].pc = "done" <=> turn[u].pc = "done"
               /\ turn[u].pc \in {"reply", "done"} => SessionOf(u)' = SessionOf(u)
    BY <1>1, <1>2, <1>3, <1>4
  <2>2. QED
    BY <1>1, <2>1, PairedStays DEF ConversationInv
<1>7. InOrder'
  <2>1. ASSUME NEW u \in Calls
        PROVE  /\ call[u].pc = "returned" => call'[u] = call[u]
               /\ call'[u].pc = "returned" =>
                    call[u].pc = "returned" /\ (InProgress(u)' => InProgress(u))
    BY <1>1, <1>2, <1>3, <1>4
  <2>2. QED
    BY <1>1, <2>1, InOrderStays DEF ConversationInv
<1>8. QED
  BY <1>5, <1>6, <1>7 DEF ConversationInv

\* The row counts one question more, and it is the one the call numbered.
LEMMA CountersWritten ==
  ASSUME ConversationInv, NEW t \in Calls, UpdateCounters(t)
  PROVE  /\ call[t].session \in Sessions
         /\ call'[t].pc = "returned"
         /\ call'[t].session = call[t].session
         /\ sessions'[call[t].session].question_count = call'[t].question_count
         /\ \A r \in Sessions : r # call[t].session => sessions'[r] = sessions[r]
         /\ \A u \in Calls : u # t => call'[u] = call[u]
<1>1. PICK old \in CallState : old = call[t]
  BY ConversationTypes
<1>2. PICK s : s = old.session
  OBVIOUS
<1>3. s \in Sessions
  BY <1>1, <1>2, ConversationTypes DEF UpdateCounters, SessionOf
<1>4. PICK before \in SessionRow : before = sessions[s]
  BY <1>3, ConversationTypes
<1>5. PICK level, row : level = GuidanceOf(old) /\ row = Stored(before, old)
  OBVIOUS
<1> DEFINE st == [old EXCEPT !.pc = "returned", !.guidance = level]
<1>6. /\ sessions' = [sessions EXCEPT ![s] = row]
      /\ call' = [call EXCEPT ![t] = st]
  BY <1>1, <1>2, <1>4, <1>5, ConversationTypes DEF UpdateCounters
<1>7. st.pc = "returned" /\ st.session = s /\ st.question_count = old.question_count
  BY <1>2 DEF CallState
<1>8. row.question_count = old.question_count
  BY <1>5 DEF Stored, SessionRow
<1> HIDE DEF st
<1>9. /\ call'[t] = st
      /\ \A u \in Calls : u # t => call'[u] = call[u]
      /\ sessions'[s] = row
      /\ \A r \in Sessions : r # s => sessions'[r] = sessions[r]
  BY <1>3, <1>6, ConversationTypes
<1>10. QED
  BY <1>1, <1>2, <1>3, <1>7, <1>8, <1>9

\* A turn that has yet to answer is in no exchange.
LEMMA NoExchangeYet ==
  ASSUME ConversationInv, NEW s \in Sessions, NEW t \in Calls, turn[t].pc # "done",
         NEW k \in 1 .. Len(history[s])
  PROVE  ~Exchange(history[s], k, t)
<1>1. PICK h \in Seq(Entry) : h = history[s]
  BY ConversationTypes
<1>2. Positions(s, "assistant", t) = {}
  BY DEF ConversationInv, TurnInv, EntriesSoFar
<1>3. \A i \in 1 .. Len(h) : h[i] # [role |-> "assistant", turn |-> t]
  BY <1>1, <1>2, LenProperties DEF Positions
<1>4. ASSUME Exchange(h, k, t)
      PROVE  FALSE
  <2>1. Len(h) \in Nat
    BY LenProperties
  <2>2. 2 * k \in 1 .. Len(h)
    BY <1>1, <1>4, <2>1 DEF Exchange
  <2>3. QED
    BY <1>3, <1>4, <2>2 DEF Exchange
<1>5. QED
  BY <1>1, <1>4

\* A question is counted before its exchange is in the history.
LEMMA CountedInOrder ==
  ASSUME ConversationInv, NEW t \in Calls, UpdateCounters(t), turn[t].pc = "validate",
         UNCHANGED <<turn, history>>
  PROVE  InOrder'
<1>1. PICK s \in Sessions : s = call[t].session
  BY CountersWritten
<1>2. /\ call'[t].pc = "returned"
      /\ call'[t].session = s
      /\ sessions'[s].question_count = call'[t].question_count
      /\ \A r \in Sessions : r # s => sessions'[r] = sessions[r]
      /\ \A u \in Calls : u # t => call'[u] = call[u]
  BY <1>1, CountersWritten
<1>3. call[t].pc = "counters" /\ InProgress(t)
  BY DEF UpdateCounters, InProgress
<1>4. /\ \A r : ReturnedOn(r) \subseteq Calls /\ t \notin ReturnedOn(r)
      /\ ReturnedOn(s)' = ReturnedOn(s) \cup {t}
      /\ \A r : r # s => ReturnedOn(r)' = ReturnedOn(r)
      /\ \A r : \A u \in ReturnedOn(r) : call'[u] = call[u] /\ u # t
  BY <1>1, <1>2, <1>3 DEF ReturnedOn
<1>5. ASSUME NEW r \in Sessions, NEW u \in ReturnedOn(r)', InProgress(u)'
      PROVE  call'[u].question_count = sessions'[r].question_count
  <2>1. InProgress(u)
    BY <1>5 DEF InProgress
  <2>2. CASE r = s
    <3>1. u = t
      <4>1. u \in Calls
        BY <1>3, <1>4, <1>5, <2>2
      <4>2. u # t => call[u].session = s
        BY <1>4, <1>5, <2>2 DEF ReturnedOn
      <4>3. QED
        BY <1>1, <1>3, <2>1, <4>1, <4>2 DEF ConversationInv, OneTurnAtATime, SessionOf
    <3>2. QED
      BY <1>2, <2>2, <3>1
  <2>3. CASE r # s
    BY <1>2, <1>4, <1>5, <2>1, <2>3 DEF ConversationInv, InOrder
  <2>4. QED
    BY <2>2, <2>3
<1>6. ASSUME NEW r \in Sessions, NEW u \in ReturnedOn(r)', NEW v \in ReturnedOn(r)',
             NEW k \in 1 .. Len(history[r]), NEW l \in 1 .. Len(history[r]),
             Exchange(history[r], k, u), Exchange(history[r], l, v), k < l
      PROVE  call'[u].question_count < call'[v].question_count
  <2>1. u # t /\ v # t
    BY <1>6, NoExchangeYet
  <2>2. u \in ReturnedOn(r) /\ v \in ReturnedOn(r)
    BY <1>4, <1>6, <2>1
  <2>3. call[u].question_count < call[v].question_count
    BY <1>6, <2>2 DEF ConversationInv, InOrder
  <2>4. QED
    BY <1>4, <2>2, <2>3
<1>7. QED
  BY <1>5, <1>6 DEF InOrder

\* Whatever a call comes to, the history waits for its turn.
LEMMA ValidateKeepsConversation ==
  ASSUME ConversationInv, SerialInv', TurnInv', NEW t \in Calls, Validate(t)
  PROVE  ConversationInv'
<1>1. ValidateStep(t) /\ UNCHANGED <<turn, history>>
  BY DEF Validate, pipelineVars
<1>2. call[t].pc \notin {"idle"} \cup Ended
  BY <1>1 DEF ValidateStep, ReadSession, ReadClosedSession, Classify, InsertViolation,
     InsertQuestion, UpdateCounters, RecordFails, StoreFails, Ended
<1>3. turn[t].pc = "validate"
  BY <1>2 DEF ConversationInv, TurnInv, TurnFollowsCall
<1>4. \A u \in Calls : InProgress(u)' = InProgress(u)
  BY <1>1 DEF InProgress
<1>5. \A u \in Calls : call[u].pc # "idle" => SessionOf(u)' = SessionOf(u)
  <2>1. [GuardianNext]_guardianVars
    BY <1>1 DEF GuardianNext
  <2>2. QED
    BY <2>1, CallsMoveOn, ConversationTypes DEF TurnInv, SessionOf
<1>6. \A u \in Calls : turn[u].pc # "idle" => SessionOf(u)' = SessionOf(u)
  BY <1>5, ConversationTypes
<1>7. OneTurnAtATime'
  BY <1>4, <1>6, OneTurnStays DEF ConversationInv, InProgress
<1>8. Paired'
  <2>1. \A u \in Calls : turn[u].pc \in {"reply", "done"} => SessionOf(u)' = SessionOf(u)
    BY <1>6
  <2>2. QED
    BY <1>1, <2>1, PairedStays DEF ConversationInv
<1>9. InOrder'
  <2>1. CASE UpdateCounters(t)
    BY <1>1, <1>3, <2>1, CountedInOrder
  <2>2. CASE ~UpdateCounters(t)
    <3>1. /\ sessions' = sessions
          /\ \A u \in Calls : u # t => call'[u] = call[u]
          /\ call[t].pc # "returned"
          /\ call'[t].pc # "returned"
      BY <1>1, <2>2, OtherStepsReturnNothing, ConversationTypes DEF TurnInv
    <3>2. ASSUME NEW u \in Calls
          PROVE  /\ call[u].pc = "returned" => call'[u] = call[u]
                 /\ call'[u].pc = "returned" =>
                      call[u].pc = "returned" /\ (InProgress(u)' => InProgress(u))
      BY <1>4, <3>1
    <3>3. QED
      BY <1>1, <3>1, <3>2, InOrderStays DEF ConversationInv
  <2>3. QED
    BY <2>1, <2>2
<1>10. QED
  BY <1>7, <1>8, <1>9 DEF ConversationInv

\* From the validation to the log nothing is recorded.
LEMMA WorkKeepsConversation ==
  ASSUME ConversationInv, SerialInv', TurnInv', NEW t \in Calls,
         \/ RefuseTurn(t) \/ AdmitTurn(t) \/ CompanionDrafts(t) \/ CompanionFails(t)
         \/ JudgeDraft(t) \/ FileVerdict(t) \/ VerifyFails(t) \/ LogTurn(t) \/ LogFails(t)
  PROVE  ConversationInv'
<1>1. /\ UNCHANGED <<guardianVars, history>>
      /\ turn[t].pc \in {"validate", "draft", "verify", "file", "log"}
      /\ \A u \in Calls : u # t => turn'[u] = turn[u]
  BY ConversationTypes
     DEF RefuseTurn, AdmitTurn, CompanionDrafts, CompanionFails, JudgeDraft, FileVerdict,
         VerifyFails, LogTurn, LogFails
<1>2. turn'[t].pc \in {"draft", "verify", "file", "log", "record"}
  <2>1. PICK old \in TurnState : old = turn[t]
    BY ConversationTypes
  <2>2. CASE RefuseTurn(t) \/ AdmitTurn(t) \/ CompanionDrafts(t) \/ CompanionFails(t)
    BY <2>2, ConversationTypes
       DEF RefuseTurn, AdmitTurn, CompanionDrafts, CompanionFails, TurnState
  <2>3. CASE JudgeDraft(t)
    BY <2>3, ConversationTypes DEF JudgeDraft, TurnState
  <2>4. CASE FileVerdict(t)
    BY <2>1, <2>4, ConversationTypes, DeliveredFields, RejectedFields, RetriesAssumption
       DEF FileVerdict, RetriesAssumption
  <2>5. CASE VerifyFails(t)
    BY <2>1, <2>5, ConversationTypes, RaisedFields DEF VerifyFails
  <2>6. CASE LogTurn(t) \/ LogFails(t)
    BY <2>6, ConversationTypes DEF LogTurn, LogFails, TurnState
  <2>7. QED
    BY <2>2, <2>3, <2>4, <2>5, <2>6
<1>3. UNCHANGED <<sessions, call>>
  BY <1>1 DEF guardianVars
<1>4. \A u \in Calls : SessionOf(u)' = SessionOf(u) /\ InProgress(u)' = InProgress(u)
  BY <1>1, <1>2, <1>3 DEF SessionOf, InProgress
<1>5. \A u \in Calls : /\ turn'[u].pc = "reply" <=> turn[u].pc = "reply"
                       /\ turn'[u].pc = "done" <=> turn[u].pc = "done"
  BY <1>1, <1>2
<1>6. OneTurnAtATime' /\ Paired' /\ InOrder'
  BY <1>1, <1>3, <1>4, <1>5, OneTurnStays, PairedStays, InOrderStays DEF ConversationInv
<1>7. QED
  BY <1>6 DEF ConversationInv

-----------------------------------------------------------------------------

\* A history that grows by one entry keeps its exchanges, and has one more at
\* most, of which the entry is the answer.
LEMMA ExchangesKept ==
  ASSUME NEW h \in Seq(Entry), NEW e \in Entry
  PROVE  /\ Len(h) \in Nat
         /\ Append(h, e) \in Seq(Entry)
         /\ Len(Append(h, e)) = Len(h) + 1
         /\ Append(h, e)[Len(h) + 1] = e
         /\ \A i \in 1 .. Len(h) : Append(h, e)[i] = h[i]
         /\ \A n \in Nat : \A u : Exchange(h, n, u) => Exchange(Append(h, e), n, u)
         /\ \A n \in Nat : \A u : Exchange(Append(h, e), n, u) =>
              \/ Exchange(h, n, u)
              \/ 2 * n = Len(h) + 1 /\ e = [role |-> "assistant", turn |-> u]
<1>1. /\ Len(h) \in Nat
      /\ Append(h, e) \in Seq(Entry)
      /\ Len(Append(h, e)) = Len(h) + 1
      /\ Append(h, e)[Len(h) + 1] = e
      /\ \A i \in 1 .. Len(h) : Append(h, e)[i] = h[i]
  OBVIOUS
<1>2. PICK g : g = Append(h, e)
  OBVIOUS
<1>3. ASSUME NEW n \in Nat, NEW u, Exchange(h, n, u)
      PROVE  Exchange(g, n, u)
  <2>1. 2 * n - 1 \in 1 .. Len(h) /\ 2 * n \in 1 .. Len(h)
    BY <1>1, <1>3 DEF Exchange
  <2>2. g[2 * n - 1] = h[2 * n - 1] /\ g[2 * n] = h[2 * n]
    BY <1>1, <1>2, <2>1
  <2>3. QED
    BY <1>1, <1>2, <1>3, <2>2 DEF Exchange
<1>4. ASSUME NEW n \in Nat, NEW u, Exchange(g, n, u)
      PROVE  \/ Exchange(h, n, u)
             \/ 2 * n = Len(h) + 1 /\ e = [role |-> "assistant", turn |-> u]
  <2>1. 1 <= n /\ 2 * n <= Len(h) + 1
    BY <1>1, <1>2, <1>4 DEF Exchange
  <2>2. CASE 2 * n = Len(h) + 1
    BY <1>1, <1>2, <1>4, <2>2 DEF Exchange
  <2>3. CASE 2 * n # Len(h) + 1
    <3>1. 2 * n <= Len(h) /\ 2 * n - 1 \in 1 .. Len(h) /\ 2 * n \in 1 .. Len(h)
      BY <1>1, <2>1, <2>3
    <3>2. g[2 * n - 1] = h[2 * n - 1] /\ g[2 * n] = h[2 * n]
      BY <1>1, <1>2, <3>1
    <3>3. QED
      BY <1>4, <2>1, <3>1, <3>2 DEF Exchange
  <2>4. QED
    BY <2>2, <2>3
<1>5. QED
  BY <1>1, <1>2, <1>3, <1>4

\* The turn t appends the entry e to the history of its session s, which was h
\* and becomes g, and no other turn moves.
Records(t, s, h, g, e, role, next) ==
  /\ s = SessionOf(t)
  /\ h = history[s]
  /\ e = [role |-> role, turn |-> t]
  /\ g = Append(h, e)
  /\ s \in Sessions
  /\ h \in Seq(Entry)
  /\ e \in Entry
  /\ InProgress(t)
  /\ UNCHANGED <<sessions, call>>
  /\ turn'[t].pc = next
  /\ \A u \in Calls : u # t => turn'[u] = turn[u]
  /\ history'[s] = g
  /\ \A r \in Sessions : r # s => history'[r] = history[r]

LEMMA RecordingAppends ==
  ASSUME ConversationInv, NEW t \in Calls, NEW role \in {"user", "assistant"},
         \/ RecordQuestion(t) /\ role = "user"
         \/ RecordResponse(t) /\ role = "assistant"
  PROVE  \E s, h, g, e :
           Records(t, s, h, g, e, role, IF role = "user" THEN "reply" ELSE "done")
<1>1. PICK s, e : s = SessionOf(t) /\ e = [role |-> role, turn |-> t]
  OBVIOUS
<1>2. PICK h, g : h = history[s] /\ g = Append(h, e)
  OBVIOUS
<1>3. /\ turn[t].pc \in {"record", "reply"}
      /\ UNCHANGED guardianVars
      /\ history' = [history EXCEPT ![s] = g]
      /\ turn'[t].pc = IF role = "user" THEN "reply" ELSE "done"
      /\ \A u \in Calls : u # t => turn'[u] = turn[u]
  BY <1>1, <1>2, ConversationTypes DEF RecordQuestion, RecordResponse, Appended, TurnState
<1>4. s \in Sessions
  BY <1>1, <1>3, ConversationTypes
<1>5. h \in Seq(Entry) /\ e \in Entry
  BY <1>1, <1>2, <1>4, ConversationTypes DEF Entry
<1>6. history'[s] = g /\ \A r \in Sessions : r # s => history'[r] = history[r]
  BY <1>3, <1>4, ConversationTypes
<1>7. UNCHANGED <<sessions, call>>
  BY <1>3 DEF guardianVars
<1>8. InProgress(t)
  BY <1>3 DEF InProgress
<1>9. Records(t, s, h, g, e, role, IF role = "user" THEN "reply" ELSE "done")
  BY <1>1, <1>2, <1>3, <1>4, <1>5, <1>6, <1>7, <1>8 DEF Records
<1>10. QED
  BY <1>9

\* What Paired says of one session with the history h.
PairedOn(s, h, replying, points) ==
  /\ \E n \in 0 .. Len(h) :
       /\ Len(h) = IF replying THEN 2 * n + 1 ELSE 2 * n
       /\ \A k \in 1 .. n : \E u \in Calls : Exchange(h, k, u)
  /\ \A u \in Calls : SessionOf(u) = s =>
       /\ points[u].pc = "reply" => h[Len(h)] = [role |-> "user", turn |-> u]
       /\ points[u].pc = "done" => \E k \in 1 .. Len(h) : Exchange(h, k, u)

\* The other sessions of a recording keep their pairs, and no other turn of its
\* own session is under way.
LEMMA OthersRecordNothing ==
  ASSUME ConversationInv, NEW t \in Calls, NEW s, NEW h, NEW g, NEW e, NEW role, NEW next,
         Records(t, s, h, g, e, role, next), next \in {"reply", "done"}
  PROVE  /\ \A u \in Calls : SessionOf(u)' = SessionOf(u)
         /\ \A u \in Calls : InProgress(u)' => InProgress(u)
         /\ \A u \in Calls : u # t /\ SessionOf(u) = s => turn[u].pc \in {"idle", "done"}
         /\ Replying(s) <=> turn[t].pc = "reply"
         /\ Replying(s)' <=> next = "reply"
         /\ \A r \in Sessions : PairedOn(r, history[r], Replying(r), turn)
         /\ \A r \in Sessions : r # s => PairedOn(r, history'[r], Replying(r)', turn')
<1>1. /\ \A u \in Calls : SessionOf(u)' = SessionOf(u)
      /\ \A u \in Calls : InProgress(u)' => InProgress(u)
  BY DEF Records, SessionOf, InProgress
<1>2. \A u \in Calls : u # t /\ SessionOf(u) = s => turn[u].pc \in {"idle", "done"}
  BY DEF Records, ConversationInv, OneTurnAtATime, InProgress
<1>3. Replying(s) <=> turn[t].pc = "reply"
  BY <1>2 DEF Replying, Records
<1>4. Replying(s)' <=> next = "reply"
  BY <1>1, <1>2 DEF Replying, Records
<1>5. \A r \in Sessions : PairedOn(r, history[r], Replying(r), turn)
  BY DEF ConversationInv, Paired, PairedOn
<1>6. ASSUME NEW r \in Sessions, r # s
      PROVE  PairedOn(r, history'[r], Replying(r)', turn')
  <2>1. \A u \in Calls : SessionOf(u) = r => turn'[u] = turn[u]
    BY <1>6 DEF Records
  <2>2. Replying(r)' <=> Replying(r)
    BY <1>1, <2>1 DEF Replying
  <2>3. history'[r] = history[r]
    BY <1>6 DEF Records
  <2>4. QED
    BY <1>5, <2>1, <2>2, <2>3 DEF PairedOn
<1>7. QED
  BY <1>1, <1>2, <1>3, <1>4, <1>5, <1>6

\* The invariant after a recording: what is left to show is of its session only.
LEMMA RecordingKeepsConversation ==
  ASSUME ConversationInv, SerialInv', TurnInv',
         NEW t \in Calls, NEW s, NEW h, NEW g, NEW e, NEW role, NEW next,
         Records(t, s, h, g, e, role, next), next \in {"reply", "done"},
         PairedOn(s, g, next = "reply", turn'),
         \A u, v \in ReturnedOn(s), k, l \in 1 .. Len(g) :
           Exchange(g, k, u) /\ Exchange(g, l, v) /\ k < l =>
             call[u].question_count < call[v].question_count
  PROVE  ConversationInv'
<1>1. /\ \A u \in Calls : SessionOf(u)' = SessionOf(u)
      /\ \A u \in Calls : InProgress(u)' => InProgress(u)
      /\ Replying(s)' <=> next = "reply"
      /\ \A r \in Sessions : r # s => PairedOn(r, history'[r], Replying(r)', turn')
  BY OthersRecordNothing
<1>2. OneTurnAtATime'
  BY <1>1, OneTurnStays DEF ConversationInv
<1>3. Paired'
  <2>1. \A r \in Sessions : PairedOn(r, history'[r], Replying(r)', turn')
    <3>1. history'[s] = g
      BY DEF Records
    <3>2. PairedOn(s, history'[s], Replying(s)', turn')
      BY <1>1, <3>1 DEF PairedOn
    <3>3. QED
      BY <1>1, <3>2
  <2>2. QED
    BY <1>1, <2>1 DEF Paired, PairedOn
<1>4. \A r : ReturnedOn(r)' = ReturnedOn(r) /\ ReturnedOn(r) \subseteq Calls
  BY DEF ReturnedOn, Records
<1>5. ASSUME NEW r \in Sessions
      PROVE  /\ \A u \in ReturnedOn(r) :
                  InProgress(u)' => call[u].question_count = sessions[r].question_count
             /\ \A u, v \in ReturnedOn(r), k, l \in 1 .. Len(history'[r]) :
                  Exchange(history'[r], k, u) /\ Exchange(history'[r], l, v) /\ k < l =>
                    call[u].question_count < call[v].question_count
  <2>1. \A u \in ReturnedOn(r) :
          InProgress(u)' => call[u].question_count = sessions[r].question_count
    BY <1>1, <1>4 DEF ConversationInv, InOrder
  <2>2. CASE r = s
    <3>1. history'[r] = g
      BY <2>2 DEF Records
    <3>2. ASSUME NEW u \in ReturnedOn(r), NEW v \in ReturnedOn(r),
                 NEW k \in 1 .. Len(g), NEW l \in 1 .. Len(g),
                 Exchange(g, k, u), Exchange(g, l, v), k < l
          PROVE  call[u].question_count < call[v].question_count
      BY <2>2, <3>2
    <3>3. QED
      BY <2>1, <3>1, <3>2
  <2>3. CASE r # s
    <3>1. history'[r] = history[r]
      BY <2>3 DEF Records
    <3>2. QED
      BY <2>1, <3>1 DEF ConversationInv, InOrder
  <2>4. QED
    BY <2>2, <2>3
<1>6. InOrder'
  <2>1. sessions' = sessions /\ call' = call
    BY DEF Records
  <2>2. QED
    BY <1>4, <1>5, <2>1 DEF InOrder
<1>7. QED
  BY <1>2, <1>3, <1>6 DEF ConversationInv

\* The question of the turn is the first half of its exchange.
LEMMA RecordQuestionKeepsConversation ==
  ASSUME ConversationInv, SerialInv', TurnInv', NEW t \in Calls, RecordQuestion(t)
  PROVE  ConversationInv'
<1>1. PICK s, h, g, e : Records(t, s, h, g, e, "user", "reply")
  BY RecordingAppends
<1>2. turn[t].pc = "record"
  BY DEF RecordQuestion
<1>3. /\ \A u \in Calls : u # t /\ SessionOf(u) = s => turn[u].pc \in {"idle", "done"}
      /\ PairedOn(s, h, FALSE, turn)
  <2>1. /\ \A u \in Calls : u # t /\ SessionOf(u) = s => turn[u].pc \in {"idle", "done"}
        /\ Replying(s) <=> turn[t].pc = "reply"
        /\ \A r \in Sessions : PairedOn(r, history[r], Replying(r), turn)
    BY <1>1, OthersRecordNothing
  <2>2. h = history[s] /\ s \in Sessions /\ ~Replying(s)
    BY <1>1, <1>2, <2>1 DEF Records
  <2>3. QED
    BY <2>1, <2>2 DEF PairedOn
<1>4. PICK n \in 0 .. Len(h) :
        Len(h) = 2 * n /\ \A k \in 1 .. n : \E u \in Calls : Exchange(h, k, u)
  BY <1>3 DEF PairedOn
<1>5. /\ Len(h) \in Nat
      /\ Len(g) = Len(h) + 1
      /\ g[Len(h) + 1] = e
      /\ \A k \in Nat : \A u : Exchange(h, k, u) => Exchange(g, k, u)
      /\ \A k \in Nat : \A u : Exchange(g, k, u) =>
           Exchange(h, k, u) \/ e = [role |-> "assistant", turn |-> u]
  BY <1>1, ExchangesKept DEF Records
<1>6. e = [role |-> "user", turn |-> t]
  BY <1>1 DEF Records
<1>7. \A k \in Nat : \A u : Exchange(g, k, u) => Exchange(h, k, u)
  <2>1. \A u : e # [role |-> "assistant", turn |-> u]
    BY <1>6
  <2>2. QED
    BY <1>5, <2>1
<1>8. PairedOn(s, g, TRUE, turn')
  <2>1. Len(g) = 2 * n + 1 /\ n \in 0 .. Len(g)
    BY <1>4, <1>5
  <2>2. \A k \in 1 .. n : \E u \in Calls : Exchange(g, k, u)
    BY <1>4, <1>5
  <2>3. g[Len(g)] = [role |-> "user", turn |-> t]
    BY <1>5, <1>6
  <2>4. ASSUME NEW u \in Calls, SessionOf(u) = s
        PROVE  /\ turn'[u].pc = "reply" => g[Len(g)] = [role |-> "user", turn |-> u]
               /\ turn'[u].pc = "done" => \E k \in 1 .. Len(g) : Exchange(g, k, u)
    <3>1. CASE u = t
      BY <1>1, <2>3, <3>1 DEF Records
    <3>2. CASE u # t
      <4>1. turn'[u] = turn[u] /\ turn[u].pc # "reply"
        BY <1>1, <1>3, <2>4, <3>2 DEF Records
      <4>2. ASSUME turn[u].pc = "done"
            PROVE  \E k \in 1 .. Len(g) : Exchange(g, k, u)
        <5>1. PICK k \in 1 .. Len(h) : Exchange(h, k, u)
          BY <1>3, <2>4, <4>2 DEF PairedOn
        <5>2. Exchange(g, k, u) /\ k \in 1 .. Len(g)
          BY <1>5, <5>1
        <5>3. QED
          BY <5>2
      <4>3. QED
        BY <4>1, <4>2
    <3>3. QED
      BY <3>1, <3>2
  <2>5. QED
    BY <2>1, <2>2, <2>4 DEF PairedOn
<1>9. ASSUME NEW u \in ReturnedOn(s), NEW v \in ReturnedOn(s),
             NEW k \in 1 .. Len(g), NEW l \in 1 .. Len(g),
             Exchange(g, k, u), Exchange(g, l, v), k < l
      PROVE  call[u].question_count < call[v].question_count
  <2>1. Exchange(h, k, u) /\ Exchange(h, l, v)
    <3>1. k \in Nat /\ l \in Nat
      BY <1>5
    <3>2. QED
      BY <1>7, <1>9, <3>1
  <2>2. k \in 1 .. Len(h) /\ l \in 1 .. Len(h)
    BY <1>5, <2>1 DEF Exchange
  <2>3. QED
    BY <1>1, <1>9, <2>1, <2>2 DEF ConversationInv, InOrder, Records
<1>10. QED
  BY <1>1, <1>8, <1>9, RecordingKeepsConversation

\* The answer completes the exchange; its question is the last one counted.
LEMMA RecordResponseKeepsConversation ==
  ASSUME ConversationInv, SerialInv', TurnInv', NEW t \in Calls, RecordResponse(t)
  PROVE  ConversationInv'
<1>1. PICK s, h, g, e : Records(t, s, h, g, e, "assistant", "done")
  BY RecordingAppends
<1>2. turn[t].pc = "reply"
  BY DEF RecordResponse
<1>3. /\ \A u \in Calls : u # t /\ SessionOf(u) = s => turn[u].pc \in {"idle", "done"}
      /\ PairedOn(s, h, TRUE, turn)
      /\ SessionOf(t) = s
      /\ h = history[s]
      /\ s \in Sessions
  <2>1. /\ \A u \in Calls : u # t /\ SessionOf(u) = s => turn[u].pc \in {"idle", "done"}
        /\ Replying(s) <=> turn[t].pc = "reply"
        /\ \A r \in Sessions : PairedOn(r, history[r], Replying(r), turn)
    BY <1>1, OthersRecordNothing
  <2>2. h = history[s] /\ s \in Sessions /\ SessionOf(t) = s /\ Replying(s)
    BY <1>1, <1>2, <2>1 DEF Records
  <2>3. QED
    BY <2>1, <2>2 DEF PairedOn
<1>4. PICK n \in 0 .. Len(h) :
        Len(h) = 2 * n + 1 /\ \A k \in 1 .. n : \E u \in Calls : Exchange(h, k, u)
  BY <1>3 DEF PairedOn
<1>5. /\ Len(h) \in Nat
      /\ Len(g) = Len(h) + 1
      /\ g[Len(h) + 1] = e
      /\ \A i \in 1 .. Len(h) : g[i] = h[i]
      /\ \A k \in Nat : \A u : Exchange(h, k, u) => Exchange(g, k, u)
      /\ \A k \in Nat : \A u : Exchange(g, k, u) =>
           \/ Exchange(h, k, u)
           \/ 2 * k = Len(h) + 1 /\ e = [role |-> "assistant", turn |-> u]
  BY <1>1, ExchangesKept DEF Records
<1>6. e = [role |-> "assistant", turn |-> t]
  BY <1>1 DEF Records
<1>7. h[Len(h)] = [role |-> "user", turn |-> t]
  BY <1>2, <1>3 DEF PairedOn
<1>8. n \in Nat /\ n + 1 \in 1 .. Len(g) /\ Len(g) = 2 * (n + 1)
  BY <1>4, <1>5
<1>9. Exchange(g, n + 1, t)
  <2>1. 2 * (n + 1) - 1 = Len(h) /\ 2 * (n + 1) = Len(h) + 1 /\ Len(h) \in 1 .. Len(h)
    BY <1>4, <1>5, <1>8
  <2>2. g[2 * (n + 1) - 1] = [role |-> "user", turn |-> t]
    BY <1>5, <1>7, <2>1
  <2>3. g[2 * (n + 1)] = [role |-> "assistant", turn |-> t]
    BY <1>5, <1>6, <2>1
  <2>4. QED
    BY <1>8, <2>2, <2>3 DEF Exchange
<1>10. \A k \in Nat : \A u \in Calls :
         Exchange(g, k, u) => Exchange(h, k, u) \/ (k = n + 1 /\ u = t)
  <2>1. \A u : e = [role |-> "assistant", turn |-> u] => u = t
    BY <1>6
  <2>2. \A k \in Nat : 2 * k = Len(h) + 1 => k = n + 1
    BY <1>4, <1>8
  <2>3. QED
    BY <1>5, <2>1, <2>2
<1>11. PairedOn(s, g, FALSE, turn')
  <2>1. n + 1 \in 0 .. Len(g)
    BY <1>5, <1>8
  <2>2. ASSUME NEW k \in 1 .. n + 1
        PROVE  \E u \in Calls : Exchange(g, k, u)
    <3>1. CASE k = n + 1
      BY <1>9, <3>1
    <3>2. CASE k # n + 1
      <4>1. k \in 1 .. n /\ k \in Nat
        BY <1>8, <3>2
      <4>2. QED
        BY <1>4, <1>5, <4>1
    <3>3. QED
      BY <3>1, <3>2
  <2>3. ASSUME NEW u \in Calls, SessionOf(u) = s
        PROVE  turn'[u].pc # "reply" /\ (turn'[u].pc = "done" => \E k \in 1 .. Len(g) : Exchange(g, k, u))
    <3>1. CASE u = t
      BY <1>1, <1>8, <1>9, <3>1 DEF Records
    <3>2. CASE u # t
      <4>1. turn'[u] = turn[u] /\ turn[u].pc # "reply"
        BY <1>1, <1>3, <2>3, <3>2 DEF Records
      <4>2. ASSUME turn[u].pc = "done"
            PROVE  \E k \in 1 .. Len(g) : Exchange(g, k, u)
        <5>1. PICK k \in 1 .. Len(h) : Exchange(h, k, u)
          BY <1>3, <2>3, <4>2 DEF PairedOn
        <5>2. Exchange(g, k, u) /\ k \in 1 .. Len(g)
          BY <1>5, <5>1
        <5>3. QED
          BY <5>2
      <4>3. QED
        BY <4>1, <4>2
    <3>3. QED
      BY <3>1, <3>2
  <2>4. QED
    BY <1>8, <2>1, <2>2, <2>3 DEF PairedOn
<1>12. ASSUME NEW u \in ReturnedOn(s), NEW v \in ReturnedOn(s),
              NEW k \in 1 .. Len(g), NEW l \in 1 .. Len(g),
              Exchange(g, k, u), Exchange(g, l, v), k < l
       PROVE  call[u].question_count < call[v].question_count
  <2>1. u \in Calls /\ v \in Calls /\ k \in Nat /\ l \in Nat
    BY <1>5 DEF ReturnedOn
  <2>2. l <= n + 1 /\ k # n + 1
    BY <1>8, <1>12, <2>1 DEF Exchange
  <2>3. Exchange(h, k, u)
    BY <1>10, <1>12, <2>1, <2>2
  <2>4. k \in 1 .. Len(h)
    BY <1>5, <2>1, <2>3 DEF Exchange
  <2>5. CASE Exchange(h, l, v)
    <3>1. l \in 1 .. Len(h)
      BY <1>5, <2>1, <2>5 DEF Exchange
    <3>2. QED
      BY <1>3, <1>12, <2>3, <2>4, <2>5, <3>1 DEF ConversationInv, InOrder
  <2>6. CASE v = t
    <3>1. u # t
      BY <1>2, <1>3, <2>3, <2>4, NoExchangeYet
    <3>2. call[v].question_count = sessions[s].question_count
      BY <1>1, <1>3, <2>6 DEF ConversationInv, InOrder, Records
    <3>3. /\ call[u].question_count # call[v].question_count
          /\ call[u].question_count \in 1 .. sessions[s].question_count
      BY <1>3, <2>6, <3>1 DEF ConversationInv, SerialInv, ReturnsNumbered
    <3>4. sessions[s].question_count \in Nat
      BY <1>3, ConversationTypes DEF SessionRow
    <3>5. QED
      BY <3>2, <3>3, <3>4
  <2>7. QED
    BY <1>10, <1>12, <2>1, <2>5, <2>6
<1>13. QED
  BY <1>1, <1>11, <1>12, RecordingKeepsConversation

-----------------------------------------------------------------------------

\* No step of serialised turns breaks the invariant.
LEMMA ConversationStep ==
  ASSUME Serialized = TRUE, ConversationInv, [TurnNext]_vars
  PROVE  ConversationInv'
<1>1. TurnInv'
  BY TurnStepKeepsInv DEF ConversationInv
<1>2. SerialInv'
  BY TurnStepsAreGuardianSteps, SerialStepKeepsInv DEF ConversationInv
<1>3. ASSUME NEW s \in Sessions, OpenSession(s) \/ EndSession(s)
      PROVE  ConversationInv'
  BY <1>1, <1>2, <1>3, LifecycleKeepsConversation
<1>4. ASSUME NEW t \in Calls, NEW s \in Sessions, StartTurn(t, s)
      PROVE  ConversationInv'
  BY <1>1, <1>2, <1>4, StartTurnKeepsConversation
<1>5. ASSUME NEW t \in Calls, TurnStep(t)
      PROVE  ConversationInv'
  <2>1. CASE Validate(t)
    BY <1>1, <1>2, <2>1, ValidateKeepsConversation
  <2>2. CASE \/ RefuseTurn(t) \/ AdmitTurn(t) \/ CompanionDrafts(t) \/ CompanionFails(t)
             \/ JudgeDraft(t) \/ FileVerdict(t) \/ VerifyFails(t) \/ LogTurn(t) \/ LogFails(t)
    BY <1>1, <1>2, <2>2, WorkKeepsConversation
  <2>3. CASE RecordQuestion(t)
    BY <1>1, <1>2, <2>3, RecordQuestionKeepsConversation
  <2>4. CASE RecordResponse(t)
    BY <1>1, <1>2, <2>4, RecordResponseKeepsConversation
  <2>5. QED
    BY <1>5, <2>1, <2>2, <2>3, <2>4 DEF TurnStep
<1>6. CASE UNCHANGED vars
  <2>1. UNCHANGED <<sessions, call, turn, history>>
    BY <1>6 DEF vars, guardianVars, pipelineVars
  <2>2. \A t \in Calls : SessionOf(t)' = SessionOf(t) /\ InProgress(t)' = InProgress(t)
    BY <2>1 DEF SessionOf, InProgress
  <2>3. OneTurnAtATime' /\ Paired' /\ InOrder'
    BY <2>1, <2>2, OneTurnStays, PairedStays, InOrderStays DEF ConversationInv
  <2>4. QED
    BY <1>1, <1>2, <2>3 DEF ConversationInv
<1>7. QED
  BY <1>3, <1>4, <1>5, <1>6 DEF TurnNext

\* The history is in pairs, but for the question of the one turn in progress, and
\* the pairs in the order of the numbers the database gave their questions, also
\* when calls raise, transactions fail and the session ends (orchestrator.py:320-322).
THEOREM ConversationInvariant ==
  ASSUME Serialized = TRUE
  PROVE  TurnSpec => []ConversationInv
<1>1. TurnInit => ConversationInv
  BY ConversationInitially
<1>2. ConversationInv /\ [TurnNext]_vars => ConversationInv'
  BY ConversationStep
<1>3. QED
  BY <1>1, <1>2, PTL DEF TurnSpec

\* Between two turns the history is a sequence of exchanges, in which the questions
\* that the database counts stand in the order of their numbers: true of turns that
\* do not overlap (orchestrator.py, _record_turn).
THEOREM HistoryIsTheConversation ==
  ASSUME Serialized = TRUE
  PROVE  TurnSpec => []HistoryMatchesLedger
<1>1. ConversationInv => HistoryMatchesLedger
  <2> SUFFICES ASSUME ConversationInv, NEW s \in Sessions, ~Occupied(s)
      PROVE  /\ \E n \in 0 .. Len(history[s]) :
                  /\ Len(history[s]) = 2 * n
                  /\ \A k \in 1 .. n : \E t \in Calls : Exchange(history[s], k, t)
             /\ \A t \in ReturnedOn(s) :
                  \E k \in 1 .. Len(history[s]) : Exchange(history[s], k, t)
             /\ \A t, u \in ReturnedOn(s), k, l \in 1 .. Len(history[s]) :
                  Exchange(history[s], k, t) /\ Exchange(history[s], l, u) /\ k < l =>
                    call[t].question_count < call[u].question_count
    BY DEF HistoryMatchesLedger
  <2>1. ~Replying(s)
    BY DEF Replying, Occupied, InProgress
  <2>2. \E n \in 0 .. Len(history[s]) :
          /\ Len(history[s]) = 2 * n
          /\ \A k \in 1 .. n : \E t \in Calls : Exchange(history[s], k, t)
    BY <2>1 DEF ConversationInv, Paired
  <2>3. ASSUME NEW t \in ReturnedOn(s)
        PROVE  \E k \in 1 .. Len(history[s]) : Exchange(history[s], k, t)
    <3>1. t \in Calls /\ SessionOf(t) = s /\ call[t].pc = "returned"
      BY DEF ReturnedOn, SessionOf
    <3>2. turn[t].pc = "done"
      BY <3>1, ConversationTypes DEF Occupied, InProgress
    <3>3. QED
      BY <3>1, <3>2 DEF ConversationInv, Paired
  <2>4. QED
    BY <2>2, <2>3 DEF ConversationInv, InOrder
<1>2. QED
  BY <1>1, ConversationInvariant, PTL

\* What derive_guidance_level rejects.
LEMMA CausesReject ==
  ASSUME NEW classification, NEW qc \in Nat, NEW vc \in Nat, NEW esc \in BOOLEAN,
         \/ classification = "DIRECT_SOLUTION"
         \/ esc
         \/ qc >= RejectAt /\ classification # "ANSWER_FARMING"
  PROVE  DeriveGuidanceLevel(classification, qc, vc, esc) = "REJECTED"
BY ThresholdsAssumption DEF DeriveGuidanceLevel, Throttle, ThresholdsAssumption

\* Every direct solution, every question from the EscalateAt-th violation on and
\* every question from the end of the throttle on is refused, also after calls
\* that raised, if its own validate gave a verdict (README.md:283-286).
THEOREM RejectionsAreObeyed ==
  ASSUME Serialized = TRUE
  PROVE  TurnSpec => []RejectionsObeyed
<1>1. ConversationInv => RejectionsObeyed
  <2> SUFFICES ASSUME ConversationInv, NEW t \in Calls, call[t].pc = "returned",
                      turn[t].response # "none", MustReject(t)
      PROVE  turn[t].response \in {"refusal", "escalation"}
    BY DEF RejectionsObeyed
  <2>1. PICK s \in Sessions : s = SessionOf(t)
    BY ConversationTypes
  <2>2. PICK st \in CallState : st = call[t]
    BY ConversationTypes
  <2>3. /\ st.question_count \in Nat
        /\ st.violation_count \in Nat
        /\ st.escalated \in BOOLEAN
    BY DEF CallState
  <2>4. /\ st.violation_count = Cardinality(OffencesUpTo(s, st.question_count))
        /\ st.escalated <=> st.violation_count >= EscalateAt
    <3>1. t \in ReturnedOn(s)
      BY <2>1 DEF ReturnedOn, SessionOf
    <3>2. QED
      BY <2>2, <3>1 DEF ConversationInv, SerialInv, OffencesCounted
  <2>5. \/ st.classification = "DIRECT_SOLUTION"
        \/ st.escalated
        \/ st.question_count >= RejectAt /\ st.classification # "ANSWER_FARMING"
    BY <2>1, <2>2, <2>4 DEF MustReject
  <2>6. GuidanceOf(st) = "REJECTED"
    BY <2>3, <2>5, CausesReject DEF GuidanceOf
  <2>7. turn[t].pc \notin {"idle", "validate"}
    BY DEF ConversationInv, TurnInv, TurnFollowsCall, Unanswered
  <2>8. turn[t].guidance = "REJECTED"
    BY <2>2, <2>6, <2>7
       DEF ConversationInv, TurnInv, TurnFollowsCall, VerdictsOnFile, GuidanceFor
  <2>9. QED
    BY <2>8 DEF ConversationInv, TurnInv, TurnFollowsCall
<1>2. QED
  BY <1>1, ConversationInvariant, PTL

=============================================================================
