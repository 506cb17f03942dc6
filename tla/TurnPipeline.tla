---------------------------- MODULE TurnPipeline ----------------------------
(***************************************************************************)
(* Orchestrator.handle_turn: one turn of the conversation, from the thread *)
(* that picks it up to the TurnResult it returns.  The turn validates the  *)
(* question with the Guardian (GuardianSessions), refuses it or lets the   *)
(* Lab Companion draft and the Guardian verify until a draft passes or the *)
(* retries are used up, then logs and records the exchange.  Each turn     *)
(* makes one validate call, so turns are named by Calls.                   *)
(***************************************************************************)
EXTENDS GuardianSessions, Sequences

CONSTANT MaxRetries    \* config.verifier_max_retries (2)

ASSUME RetriesAssumption == MaxRetries \in Nat

VARIABLES turn,           \* the local variables of each handle_turn
          verifications,  \* verifications table of the guardian database
          interactions,   \* interactions table of the participant database
          history         \* SessionState.conversation_history of each session

pipelineVars == <<turn, verifications, interactions, history>>
vars == <<guardianVars, pipelineVars>>

TurnPoints == {"idle", "validate", "draft", "verify", "file", "log", "record",
               "reply", "done"}

\* The kinds of text a turn can answer with: the two refusals, a draft of the
\* companion, SAFE_FALLBACK and the text of a companion error.
Responses == {"none", "escalation", "refusal", "draft", "fallback", "error"}

\* What the verifier made of a draft: "none" until it has been asked.
Judgements == {"none", "passes", "fails"}

TurnState == [pc : TurnPoints, guidance : GuidanceLevels \cup {"none"},
              attempt : Nat, judged : Judgements,
              response : Responses, retries : Nat, fallback : BOOLEAN,
              verifier_passes : BOOLEAN, verifier_error : BOOLEAN]

\* verifier_passes starts as the last_verify of _draft_and_verify does;
\* verifier_error is the verify_reason "verifier-error" of the TurnResult.
NoTurn == [pc |-> "idle", guidance |-> "none", attempt |-> 0, judged |-> "none",
           response |-> "none", retries |-> 0, fallback |-> FALSE,
           verifier_passes |-> TRUE, verifier_error |-> FALSE]

VerificationRow == [turn : Calls, attempt : Nat, passes : BOOLEAN]

Entry == [role : {"user", "assistant"}, turn : Calls]

SessionOf(t) == call[t].session

InProgress(t) == turn[t].pc \notin {"idle", "done"}

Occupied(s) == \E t \in Calls : InProgress(t) /\ SessionOf(t) = s

-----------------------------------------------------------------------------
(* What the steps of a turn compute; Mutant marks a planted defect. *)

\* The guidance the turn works with: _fail_safe_validation if validate raised.
GuidanceFor(t) == IF call[t].pc = "returned" THEN call[t].guidance ELSE "MODERATE"

\* Mutant: the escalation refusal is given for every rejected question.
RefusalMutant(t) == "escalation"

\* Which of the two refusals a rejected question gets.
RefusalFor(t) == IF call[t].escalated THEN "escalation" ELSE "refusal"

\* _draft_and_verify returns this draft of the companion.
Delivered(st) ==
  [st EXCEPT !.pc = "log", !.response = "draft", !.retries = st.attempt,
             !.verifier_passes = TRUE]

\* Mutant: one attempt more than the loop's range allows.
RejectedLateMutant(st) ==
  IF st.attempt <= MaxRetries
  THEN [st EXCEPT !.pc = "draft", !.attempt = @ + 1, !.judged = "none",
                  !.verifier_passes = FALSE]
  ELSE [st EXCEPT !.pc = "log", !.response = "fallback", !.retries = MaxRetries,
                  !.fallback = TRUE, !.verifier_passes = FALSE]

\* Mutant: the attempt is not counted.
RejectedForeverMutant(st) ==
  [st EXCEPT !.pc = "draft", !.judged = "none", !.verifier_passes = FALSE]

\* A draft the verifier rejected: try again with its feedback, or fall back.
Rejected(st) ==
  IF st.attempt < MaxRetries
  THEN [st EXCEPT !.pc = "draft", !.attempt = @ + 1, !.judged = "none",
                  !.verifier_passes = FALSE]
  ELSE [st EXCEPT !.pc = "log", !.response = "fallback", !.retries = MaxRetries,
                  !.fallback = TRUE, !.verifier_passes = FALSE]

VerificationOf(t) ==
  [turn |-> t, attempt |-> turn[t].attempt, passes |-> turn[t].judged = "passes"]

-----------------------------------------------------------------------------

TurnInit ==
  /\ GuardianInit
  /\ turn          = [t \in Calls |-> NoTurn]
  /\ verifications = {}
  /\ interactions  = {}
  /\ history       = [s \in Sessions |-> <<>>]

OpenSession(s) == SessionStart(s) /\ UNCHANGED pipelineVars

EndSession(s) == SessionEnd(s) /\ UNCHANGED pipelineVars

\* The knowledge base is searched first; its result, or the empty context of a
\* search that failed, only feeds the prompts.
StartTurn(t, s) ==
  /\ Serialized => ~Occupied(s)
  /\ CallValidate(t, s)
  /\ turn' = [turn EXCEPT ![t].pc = "validate"]
  /\ UNCHANGED <<verifications, interactions, history>>

Validate(t) == ValidateStep(t) /\ UNCHANGED pipelineVars

\* The question is rejected.
RefuseTurn(t) ==
  /\ turn[t].pc = "validate"
  /\ call[t].pc \in Ended
  /\ GuidanceFor(t) = "REJECTED"
  /\ turn' = [turn EXCEPT ![t].pc = "log", ![t].guidance = GuidanceFor(t),
                          ![t].response = RefusalFor(t)]
  /\ UNCHANGED <<guardianVars, verifications, interactions, history>>

AdmitTurn(t) ==
  /\ turn[t].pc = "validate"
  /\ call[t].pc \in Ended
  /\ GuidanceFor(t) # "REJECTED"
  /\ turn' = [turn EXCEPT ![t].pc = "draft", ![t].guidance = GuidanceFor(t)]
  /\ UNCHANGED <<guardianVars, verifications, interactions, history>>

CompanionDrafts(t) ==
  /\ turn[t].pc = "draft"
  /\ turn' = [turn EXCEPT ![t].pc = "verify"]
  /\ UNCHANGED <<guardianVars, verifications, interactions, history>>

\* The companion's LLM fails: the turn ends with a "please rephrase" text and
\* reports the verdict on the attempt before, or TRUE if there was none.
CompanionFails(t) ==
  /\ turn[t].pc = "draft"
  /\ turn' = [turn EXCEPT ![t].pc = "log", ![t].response = "error",
                          ![t].retries = turn[t].attempt, ![t].fallback = TRUE]
  /\ UNCHANGED <<guardianVars, verifications, interactions, history>>

\* Guardian.verify asks the LLM; a verifier error counts as a pass.
JudgeDraft(t) ==
  /\ turn[t].pc = "verify"
  /\ \E judged \in {"passes", "fails"} :
       turn' = [turn EXCEPT ![t].pc = "file", ![t].judged = judged]
  /\ UNCHANGED <<guardianVars, verifications, interactions, history>>

\* insert_verification, and what the loop makes of the verdict.
FileVerdict(t) ==
  /\ turn[t].pc = "file"
  /\ verifications' = verifications \cup {VerificationOf(t)}
  /\ turn' = [turn EXCEPT ![t] = IF turn[t].judged = "passes"
                                 THEN Delivered(turn[t]) ELSE Rejected(turn[t])]
  /\ UNCHANGED <<guardianVars, interactions, history>>

\* What _draft_and_verify makes of an exception of verify: the draft goes out.
VerifyRaised(st) == [Delivered(st) EXCEPT !.verifier_error = TRUE]

\* verify raises: get_session fails, the insertion fails, or VerificationRecord
\* is built of a reason that is no string, with healthy stores and outside any
\* try.  The draft goes out, whatever the verifier may have said of it.
VerifyFails(t) ==
  /\ turn[t].pc = "file" \/ (StoreFaults /\ turn[t].pc = "verify")
  /\ turn' = [turn EXCEPT ![t] = VerifyRaised(turn[t])]
  /\ UNCHANGED <<guardianVars, verifications, interactions, history>>

LogTurn(t) ==
  /\ turn[t].pc = "log"
  /\ interactions' = interactions \cup {t}
  /\ turn' = [turn EXCEPT ![t].pc = "record"]
  /\ UNCHANGED <<guardianVars, verifications, history>>

\* _log_turn swallows the exceptions of log_interaction: the participant store
\* fails, or the LLM's labels of the question are no object, or have no number
\* for a hint level.
LogFails(t) ==
  /\ turn[t].pc = "log"
  /\ turn' = [turn EXCEPT ![t].pc = "record"]
  /\ UNCHANGED <<guardianVars, verifications, interactions, history>>

\* Mutant: both turns of a pair are appended to the front of the history.
AppendedMutant(s, role, t) == <<[role |-> role, turn |-> t]>> \o history[s]

Appended(s, role, t) == Append(history[s], [role |-> role, turn |-> t])

\* _record_turn appends twice; another thread may append in between.
RecordQuestion(t) ==
  LET s == SessionOf(t) IN
  /\ turn[t].pc = "record"
  /\ history' = [history EXCEPT ![s] = Appended(s, "user", t)]
  /\ turn' = [turn EXCEPT ![t].pc = "reply"]
  /\ UNCHANGED <<guardianVars, verifications, interactions>>

RecordResponse(t) ==
  LET s == SessionOf(t) IN
  /\ turn[t].pc = "reply"
  /\ history' = [history EXCEPT ![s] = Appended(s, "assistant", t)]
  /\ turn' = [turn EXCEPT ![t].pc = "done"]
  /\ UNCHANGED <<guardianVars, verifications, interactions>>

\* The steps the thread of a turn takes by itself.
TurnStep(t) ==
  \/ Validate(t)
  \/ RefuseTurn(t)
  \/ AdmitTurn(t)
  \/ CompanionDrafts(t)
  \/ CompanionFails(t)
  \/ JudgeDraft(t)
  \/ FileVerdict(t)
  \/ VerifyFails(t)
  \/ LogTurn(t)
  \/ LogFails(t)
  \/ RecordQuestion(t)
  \/ RecordResponse(t)

TurnNext ==
  \/ \E s \in Sessions : OpenSession(s) \/ EndSession(s)
  \/ \E t \in Calls : (\E s \in Sessions : StartTurn(t, s)) \/ TurnStep(t)

\* A thread keeps running: every LLM and database call returns or raises.
TurnFairness == \A t \in Calls : WF_vars(TurnStep(t))

TurnSpec == TurnInit /\ [][TurnNext]_vars /\ TurnFairness

-----------------------------------------------------------------------------

TurnTypeOK ==
  /\ GuardianTypeOK
  /\ turn          \in [Calls -> TurnState]
  /\ verifications \subseteq VerificationRow
  /\ interactions  \subseteq Calls
  /\ history       \in [Sessions -> Seq(Entry)]

VerdictsOn(t, passes) ==
  {v.attempt : v \in {w \in verifications : w.turn = t /\ w.passes = passes}}

(* Whatever overlaps and whatever fails. *)

\* The verifications table tells how an answer came about: a draft or a
\* companion error after k retries has exactly k rejections before it, the
\* fallback has MaxRetries + 1, and no refusal was ever drafted.  The draft that
\* went out has its passing row, unless the turn reports "verifier-error": only
\* then is anything delivered that no verdict is on file for (orchestrator.py:225-292).
AnswersExplained ==
  \A t \in Calls :
    LET st == turn[t] IN
    /\ st.response = "draft" =>
         /\ VerdictsOn(t, FALSE) = 0 .. st.retries - 1
         /\ VerdictsOn(t, TRUE) = IF st.verifier_error THEN {} ELSE {st.retries}
         /\ st.retries <= MaxRetries
    /\ st.response = "error" =>
         /\ VerdictsOn(t, FALSE) = 0 .. st.retries - 1
         /\ VerdictsOn(t, TRUE) = {}
         /\ st.verifier_passes <=> st.retries = 0
    /\ st.response = "fallback" =>
         /\ VerdictsOn(t, FALSE) = 0 .. MaxRetries
         /\ VerdictsOn(t, TRUE) = {}
    /\ st.response \in {"refusal", "escalation"} =>
         VerdictsOn(t, FALSE) \cup VerdictsOn(t, TRUE) = {}
    /\ st.verifier_error => st.response = "draft"

\* Nobody is refused without cause: the escalation text only on a session with
\* that many violations filed, the other refusal only for a question filed as
\* a direct solution or asked at the end of the throttle (orchestrator.py:133-154).
RefusalsEarned ==
  \A t \in Calls :
    /\ turn[t].response = "escalation" =>
         Cardinality(ViolationsOf(SessionOf(t))) >= EscalateAt
    /\ turn[t].response = "refusal" =>
         \E q \in questions :
           /\ q.question_id = t
           /\ q.classification = "DIRECT_SOLUTION" \/ q.sequence_number >= RejectAt

Positions(s, role, t) == {i \in DOMAIN history[s] : history[s][i] = [role |-> role, turn |-> t]}

\* Overlapping turns may interleave their entries, but a finished turn has its
\* question and its answer in the history exactly once, in that order.
TurnsRecordedInOrder ==
  \A s \in Sessions, t \in Calls : SessionOf(t) = s =>
    /\ Cardinality(Positions(s, "user", t)) <= 1
    /\ Cardinality(Positions(s, "assistant", t)) <= 1
    /\ \A j \in Positions(s, "assistant", t) :
         \E i \in Positions(s, "user", t) : i < j
    /\ turn[t].pc = "done" => Positions(s, "assistant", t) # {}

\* Every turn a thread picks up is answered (handle_turn returns a TurnResult).
EveryTurnAnswered ==
  \A t \in Calls : turn[t].pc = "validate" ~> turn[t].pc = "done"

(* What the documentation promises of a turn; true of serialised turns, whatever
   fails. *)

\* The n-th exchange of the history h is that of the turn t.
Exchange(h, n, t) ==
  /\ 1 <= n
  /\ 2 * n <= Len(h)
  /\ h[2 * n - 1] = [role |-> "user", turn |-> t]
  /\ h[2 * n] = [role |-> "assistant", turn |-> t]

\* Between two turns the history is a sequence of exchanges, each of a question
\* and its answer; the questions that the guardian database counts are all
\* there, in the order in which it numbers them.  The others in between are
\* those on which validate raised.
HistoryMatchesLedger ==
  \A s \in Sessions : ~Occupied(s) =>
    LET h == history[s] IN
    /\ \E n \in 0 .. Len(h) : /\ Len(h) = 2 * n
                              /\ \A k \in 1 .. n : \E t \in Calls : Exchange(h, k, t)
    /\ \A t \in ReturnedOn(s) : \E k \in 1 .. Len(h) : Exchange(h, k, t)
    /\ \A t, u \in ReturnedOn(s), k, l \in 1 .. Len(h) :
         Exchange(h, k, t) /\ Exchange(h, l, u) /\ k < l =>
           call[t].question_count < call[u].question_count

\* What README.md:283-286 has rejected: a direct solution, every question from
\* the EscalateAt-th violation of the session on, and every question numbered
\* RejectAt or more that is not answer farming.
MustReject(t) ==
  LET s == SessionOf(t) IN
  \/ call[t].classification = "DIRECT_SOLUTION"
  \/ Cardinality(OffencesUpTo(s, call[t].question_count)) >= EscalateAt
  \/ call[t].question_count >= RejectAt /\ call[t].classification # "ANSWER_FARMING"

\* A turn whose validate gave a verdict is refused when the rules say so, also
\* after calls that raised, drafts that failed and an end of the session.
RejectionsObeyed ==
  \A t \in Calls :
    call[t].pc = "returned" /\ turn[t].response # "none" /\ MustReject(t)
      => turn[t].response \in {"refusal", "escalation"}

(* What the documentation promises and the code does not keep, with serialised
   turns and healthy stores. *)

\* "Any DIRECT_SOLUTION classification -> REJECTED for that turn" (README.md:286).
DirectSolutionRefused ==
  \A t \in Calls :
    turn[t].response # "none" /\ call[t].classification = "DIRECT_SOLUTION"
      => turn[t].response \in {"refusal", "escalation"}

-----------------------------------------------------------------------------
(* The inductive invariant behind the properties that survive overlap and
   failure: how far a turn is, what its call has come to, and what it has left
   in the tables and in the history by then. *)

\* The points before an answer has been chosen.
Unanswered == {"idle", "validate", "draft", "verify", "file"}

\* A turn waits for its call, and refuses only on what the call returned.
TurnFollowsCall ==
  \A t \in Calls :
    /\ turn[t].pc = "idle" <=> call[t].pc = "idle"
    /\ turn[t].pc \notin {"idle", "validate"} =>
         /\ call[t].pc \in Ended
         /\ turn[t].guidance = GuidanceFor(t)
    /\ turn[t].guidance = "REJECTED" =>
         turn[t].response \in {"refusal", "escalation"}
    /\ turn[t].response = "none" <=> turn[t].pc \in Unanswered
    /\ turn[t].response = "escalation" => call[t].escalated
    /\ turn[t].response = "refusal" => /\ call[t].pc = "returned"
                                      /\ call[t].guidance = "REJECTED"
                                      /\ ~call[t].escalated

\* Until a turn has its answer, every attempt it has used up was rejected.
AttemptsRejected ==
  \A t \in Calls :
    /\ turn[t].pc \in {"idle", "validate"} => turn[t].attempt = 0
    /\ turn[t].pc \in Unanswered =>
         /\ turn[t].attempt <= MaxRetries
         /\ turn[t].verifier_passes <=> turn[t].attempt = 0
         /\ VerdictsOn(t, FALSE) = 0 .. turn[t].attempt - 1
         /\ VerdictsOn(t, TRUE) = {}

\* A turn is in the history of its own session only, and there only with the
\* entries it has appended so far.
EntriesSoFar ==
  \A s \in Sessions, t \in Calls :
    /\ SessionOf(t) # s \/ turn[t].pc \notin {"reply", "done"} =>
         Positions(s, "user", t) = {}
    /\ SessionOf(t) # s \/ turn[t].pc # "done" =>
         Positions(s, "assistant", t) = {}
    /\ SessionOf(t) = s /\ turn[t].pc = "reply" =>
         \E i \in DOMAIN history[s] : Positions(s, "user", t) = {i}
    /\ SessionOf(t) = s /\ turn[t].pc = "done" =>
         \E i, j \in DOMAIN history[s] :
           /\ i < j
           /\ Positions(s, "user", t) = {i}
           /\ Positions(s, "assistant", t) = {j}

TurnInv ==
  /\ GuardianInv
  /\ TurnTypeOK
  /\ VerdictsOnFile
  /\ TurnFollowsCall
  /\ AttemptsRejected
  /\ AnswersExplained
  /\ EntriesSoFar

-----------------------------------------------------------------------------
(* The inductive invariant behind HistoryMatchesLedger and RejectionsObeyed, of
   serialised turns: the history is a sequence of exchanges, but for the entry
   the one turn in progress may have appended. *)

OneTurnAtATime ==
  \A t, u \in Calls :
    InProgress(t) /\ InProgress(u) /\ SessionOf(t) = SessionOf(u) => t = u

Replying(s) == \E t \in Calls : SessionOf(t) = s /\ turn[t].pc = "reply"

\* All but the last entry, if a turn is about to append the answer to it, are in
\* pairs; every finished turn has its pair.
Paired ==
  \A s \in Sessions :
    /\ \E n \in 0 .. Len(history[s]) :
         /\ Len(history[s]) = IF Replying(s) THEN 2 * n + 1 ELSE 2 * n
         /\ \A k \in 1 .. n : \E t \in Calls : Exchange(history[s], k, t)
    /\ \A t \in Calls : SessionOf(t) = s =>
         /\ turn[t].pc = "reply" =>
              history[s][Len(history[s])] = [role |-> "user", turn |-> t]
         /\ turn[t].pc = "done" =>
              \E k \in 1 .. Len(history[s]) : Exchange(history[s], k, t)

\* The question of the turn in progress is the last one the row counts, once it
\* is counted; the pairs of the others are in the order of their numbers.
InOrder ==
  \A s \in Sessions :
    /\ \A t \in ReturnedOn(s) :
         InProgress(t) => call[t].question_count = sessions[s].question_count
    /\ \A t, u \in ReturnedOn(s), k, l \in 1 .. Len(history[s]) :
         Exchange(history[s], k, t) /\ Exchange(history[s], l, u) /\ k < l =>
           call[t].question_count < call[u].question_count

ConversationInv ==
  /\ SerialInv
  /\ TurnInv
  /\ OneTurnAtATime
  /\ Paired
  /\ InOrder

=============================================================================
