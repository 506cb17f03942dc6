-------------------------- MODULE GuardianSessions --------------------------
(***************************************************************************)
(* GuardianAgent.validate and the lifecycle of a session, one action per   *)
(* transaction of SqliteGuardianStore.  Every call runs in a thread of the *)
(* server's pool: it reads the session's row, classifies the question with *)
(* the LLM, and then writes what it computed from the row it read, in up   *)
(* to three transactions.  Between any two of them another call on the     *)
(* same session, or the end of the session, may commit.                    *)
(*                                                                         *)
(* Serialized says whether the client waits for the answer to a question   *)
(* before it asks the next one (app.py, as long as no request times out);  *)
(* nothing in the server enforces it, and the session may be ended in the  *)
(* middle of a call in any case.  StoreFaults says whether a transaction   *)
(* may fail (a locked or unreachable SQLite file): it then changes nothing *)
(* and the call raises.  A call may also raise with healthy stores, on an  *)
(* answer of the LLM that does not fit the question's record.              *)
(***************************************************************************)
EXTENDS IntegrityPolicy, FiniteSets

CONSTANTS Sessions,       \* session ids
          NoSession,      \* the session of a call not yet made
          Calls,          \* validate calls; a call names its question_id too
          Verdicts,       \* classifications the LLM may answer with
          Serialized,     \* TRUE iff the client never overlaps its questions
          StoreFaults     \* TRUE iff a database transaction may fail

ASSUME GuardianAssumption ==
  /\ NoSession \notin Sessions
  /\ Verdicts \subseteq Classifications
  /\ Serialized \in BOOLEAN
  /\ StoreFaults \in BOOLEAN

VARIABLES sessions,    \* sessions table
          questions,   \* questions table
          violations,  \* violations table
          call         \* the local variables of each validate call

guardianVars == <<sessions, questions, violations, call>>

Statuses == {"none", "active", "closed"}

SessionRow == [status : Statuses, question_count : Nat, violation_count : Nat,
               escalated : BOOLEAN]

QuestionRow == [question_id : Calls, session : Sessions, sequence_number : Nat,
                classification : Classifications, violation : BOOLEAN]

ViolationRow == [question_id : Calls, session : Sessions, sequence_number : Nat]

\* The point a call has reached, named for the transaction that is next.
CallPoints == {"idle", "read", "classify", "violation", "question", "counters",
               "returned", "raised"}

\* question_count, violation_count and escalated are the local copies of the
\* row; classifier is what the LLM call gave, classification what was made of it.
CallState == [pc : CallPoints, session : Sessions \cup {NoSession},
              question_count : Nat, violation_count : Nat, escalated : BOOLEAN,
              classifier : Classifications \cup {"none", "error"},
              classification : Classifications \cup {"none"},
              guidance : GuidanceLevels \cup {"none"}]

NoRow == [status |-> "none", question_count |-> 0, violation_count |-> 0,
          escalated |-> FALSE]

NoCall == [pc |-> "idle", session |-> NoSession, question_count |-> 0,
           violation_count |-> 0, escalated |-> FALSE, classifier |-> "none",
           classification |-> "none", guidance |-> "none"]

RowsOf(table, s) == {row \in table : row.session = s}

QuestionsOf(s) == RowsOf(questions, s)

ViolationsOf(s) == RowsOf(violations, s)

Ended == {"returned", "raised"}

InFlight(c) == call[c].pc \notin {"idle"} \cup Ended

Busy(s) == \E c \in Calls : InFlight(c) /\ call[c].session = s

-----------------------------------------------------------------------------
(* What the transactions of a call compute.  An operator whose name ends in
   Mutant is the defect its comment names: the runs must notice it. *)

\* Mutant: the row's escalation is not read.
LoadedMutant(st, row) ==
  [st EXCEPT !.pc = "classify", !.question_count = row.question_count + 1,
             !.violation_count = row.violation_count]

\* The local copies a call makes of the row it reads: this question counted.
Loaded(st, row) ==
  [st EXCEPT !.pc = "classify", !.question_count = row.question_count + 1,
             !.violation_count = row.violation_count, !.escalated = row.escalated]

\* The classification made of the LLM's answer: an error counts as PROCEDURAL.
ClassificationOf(answer) == IF answer = "error" THEN "PROCEDURAL" ELSE answer

\* Mutant: no violation is filed.
ViolationRowsMutant(c) == {}

ViolationRowsOf(c) ==
  {[question_id |-> c, session |-> call[c].session,
    sequence_number |-> call[c].question_count]}

\* Mutant: the violation is counted twice.
OffendedMutant(st) ==
  [st EXCEPT !.pc = "question", !.violation_count = @ + 2,
             !.escalated = EscalatesAfter(@, st.violation_count + 2)]

\* The local copies once a violation is filed: counted, and perhaps escalated.
Offended(st) ==
  [st EXCEPT !.pc = "question", !.violation_count = @ + 1,
             !.escalated = EscalatesAfter(@, st.violation_count + 1)]

QuestionRowsOf(c) ==
  {[question_id |-> c, session |-> call[c].session,
    sequence_number |-> call[c].question_count,
    classification |-> call[c].classification,
    violation |-> IsViolation(call[c].classification)]}

\* Mutant: the row is incremented once more instead of overwritten.
StoredMutant(row, st) ==
  [row EXCEPT !.question_count = st.question_count + 1,
              !.violation_count = st.violation_count, !.escalated = st.escalated]

\* Mutant: the escalation is written only by the call that decides it.
StoredUnescalatedMutant(row, st) ==
  [row EXCEPT !.question_count = st.question_count,
              !.violation_count = st.violation_count,
              !.escalated = st.violation_count = EscalateAt]

\* The row after the call has written its copies over it, whatever it held.
Stored(row, st) ==
  [row EXCEPT !.question_count = st.question_count,
              !.violation_count = st.violation_count, !.escalated = st.escalated]

GuidanceOf(st) ==
  DeriveGuidanceLevel(st.classification, st.question_count, st.violation_count,
                      st.escalated)

-----------------------------------------------------------------------------

GuardianInit ==
  /\ sessions   = [s \in Sessions |-> NoRow]
  /\ questions  = {}
  /\ violations = {}
  /\ call       = [c \in Calls |-> NoCall]

\* session_start: Orchestrator.start_session makes a fresh uuid, so the row is
\* new.  A create_session that fails raises and leaves nothing behind.
SessionStart(s) ==
  /\ sessions[s].status = "none"
  /\ sessions' = [sessions EXCEPT ![s] = [NoRow EXCEPT !.status = "active"]]
  /\ UNCHANGED <<questions, violations, call>>

\* session_end: one UPDATE that looks neither at the status nor at the calls
\* in flight: app.py's on_end deletes the session while a turn may still run.
\* An end that fails changes nothing.
SessionEnd(s) ==
  /\ sessions[s].status = "active"
  /\ sessions' = [sessions EXCEPT ![s].status = "closed"]
  /\ UNCHANGED <<questions, violations, call>>

\* A turn has been handed to a thread, on a session the caller holds: LabHarness
\* accepts a session that was ended since, only validate itself looks.
CallValidate(c, s) ==
  /\ call[c].pc = "idle"
  /\ sessions[s].status # "none"
  /\ Serialized => ~Busy(s)
  /\ call' = [call EXCEPT ![c].pc = "read", ![c].session = s]
  /\ UNCHANGED <<sessions, questions, violations>>

\* Mutant: the status of the session is not looked at.
ReadSessionMutant(c) ==
  LET row == sessions[call[c].session] IN
  /\ call[c].pc = "read"
  /\ call' = [call EXCEPT ![c] = Loaded(call[c], row)]
  /\ UNCHANGED <<sessions, questions, violations>>

\* get_session: the counters the rest of the call works with are copied here.
ReadSession(c) ==
  LET row == sessions[call[c].session] IN
  /\ call[c].pc = "read"
  /\ row.status # "closed"
  /\ call' = [call EXCEPT ![c] = Loaded(call[c], row)]
  /\ UNCHANGED <<sessions, questions, violations>>

\* A session that is already closed raises.
ReadClosedSession(c) ==
  /\ call[c].pc = "read"
  /\ sessions[call[c].session].status = "closed"
  /\ call' = [call EXCEPT ![c].pc = "raised"]
  /\ UNCHANGED <<sessions, questions, violations>>

Classify(c) ==
  /\ call[c].pc = "classify"
  /\ \E answer \in Verdicts \cup {"error"} :
       LET classification == ClassificationOf(answer) IN
       call' = [call EXCEPT ![c].pc = IF IsViolation(classification)
                                      THEN "violation" ELSE "question",
                            ![c].classifier = answer,
                            ![c].classification = classification]
  /\ UNCHANGED <<sessions, questions, violations>>

\* insert_violation, and the escalation decided from the local count.
InsertViolation(c) ==
  /\ call[c].pc = "violation"
  /\ violations' = violations \cup ViolationRowsOf(c)
  /\ call' = [call EXCEPT ![c] = Offended(call[c])]
  /\ UNCHANGED <<sessions, questions>>

\* insert_question.
InsertQuestion(c) ==
  /\ call[c].pc = "question"
  /\ questions' = questions \cup QuestionRowsOf(c)
  /\ call' = [call EXCEPT ![c].pc = "counters"]
  /\ UNCHANGED <<sessions, violations>>

\* update_session_counters, and the guidance derived from the same copies.
UpdateCounters(c) ==
  LET s == call[c].session IN
  /\ call[c].pc = "counters"
  /\ sessions' = [sessions EXCEPT ![s] = Stored(sessions[s], call[c])]
  /\ call' = [call EXCEPT ![c].pc = "returned",
                          ![c].guidance = GuidanceOf(call[c])]
  /\ UNCHANGED <<questions, violations>>

\* QuestionRecord is built of what the LLM answered, unvalidated and outside any
\* try: concept tags that are no list of strings raise, with healthy stores and
\* after the violation was filed.  The fail-safe's own record is well formed.
RecordFails(c) ==
  /\ call[c].pc = "question"
  /\ call[c].classifier # "error"
  /\ call' = [call EXCEPT ![c].pc = "raised"]
  /\ UNCHANGED <<sessions, questions, violations>>

\* A transaction of the call fails and the exception leaves validate.
StoreFails(c) ==
  /\ StoreFaults
  /\ call[c].pc \in {"read", "violation", "question", "counters"}
  /\ call' = [call EXCEPT ![c].pc = "raised"]
  /\ UNCHANGED <<sessions, questions, violations>>

\* The steps a thread takes by itself once the call is made.
ValidateStep(c) ==
  \/ ReadSession(c)
  \/ ReadClosedSession(c)
  \/ Classify(c)
  \/ InsertViolation(c)
  \/ InsertQuestion(c)
  \/ UpdateCounters(c)
  \/ RecordFails(c)
  \/ StoreFails(c)

GuardianNext ==
  \/ \E s \in Sessions : SessionStart(s) \/ SessionEnd(s)
  \/ \E c \in Calls : (\E s \in Sessions : CallValidate(c, s)) \/ ValidateStep(c)

\* A thread of the pool keeps running: the LLM clients and SQLite's busy
\* timeout return or raise.
GuardianFairness == \A c \in Calls : WF_guardianVars(ValidateStep(c))

GuardianSpec == GuardianInit /\ [][GuardianNext]_guardianVars /\ GuardianFairness

-----------------------------------------------------------------------------

GuardianTypeOK ==
  /\ sessions   \in [Sessions -> SessionRow]
  /\ questions  \subseteq QuestionRow
  /\ violations \subseteq ViolationRow
  /\ call       \in [Calls -> CallState]

(* Whatever overlaps and whatever fails. *)

\* A row never claims more questions or violations than have been filed for
\* the session, even when overlapping calls overwrite each other's counters.
NeverOvercounts ==
  \A s \in Sessions :
    /\ sessions[s].question_count <= Cardinality(QuestionsOf(s))
    /\ sessions[s].violation_count <= Cardinality(ViolationsOf(s))

\* A session is escalated, in the database or in the copy a call returns to
\* its turn, only on that many violation rows (guardian.py:180-185).
EscalationEarned ==
  /\ \A s \in Sessions :
       sessions[s].escalated => Cardinality(ViolationsOf(s)) >= EscalateAt
  /\ \A c \in Calls :
       call[c].escalated => Cardinality(ViolationsOf(call[c].session)) >= EscalateAt

\* A question filed as a violation has its violation row, and a call that
\* returns has filed its question under the classification it returns: no
\* answer is given on a question the database does not know.
AuditComplete ==
  /\ \A q \in questions : q.violation => \E v \in violations :
       v.question_id = q.question_id /\ v.sequence_number = q.sequence_number
  /\ \A c \in Calls : call[c].pc = "returned" => \E q \in questions :
       /\ q.question_id = c
       /\ q.session = call[c].session
       /\ q.classification = call[c].classification

\* The points at which a call has read the row and not yet come to its end.
Computing == {"classify", "violation", "question", "counters"}

Working(s) == \E c \in Calls : call[c].session = s /\ call[c].pc \in Computing

\* The session is closed, and no call on it read the row before the close.
Quiet(s) == sessions[s].status = "closed" /\ ~Working(s)

\* Once a session is closed and the calls that overtook its end are done, its
\* record is final: no call that was queued, repeated or made since can file a
\* question or a violation or touch the counters (guardian.py:125-126, app.py:262-271).
ClosedSessionsFrozen ==
  [][\A s \in Sessions : Quiet(s) =>
        /\ Quiet(s)'
        /\ sessions'[s] = sessions[s]
        /\ QuestionsOf(s)' = QuestionsOf(s)
        /\ ViolationsOf(s)' = ViolationsOf(s)]_guardianVars

(* What the documentation promises of the counters; true of serialised turns,
   whatever fails. *)

\* The calls on a session that gave a verdict, and those that found a violation.
ReturnedOn(s) == {c \in Calls : call[c].pc = "returned" /\ call[c].session = s}

OffencesOn(s) == {c \in ReturnedOn(s) : IsViolation(call[c].classification)}

AnsweredQuestions(s) == {q \in QuestionsOf(s) : q.question_id \in ReturnedOn(s)}

\* The row counts exactly the questions that got a verdict, and the violations
\* among them; these questions are on file numbered from 1 without a gap or a
\* repetition, whatever calls were cut short in between (guardian.py:128, :198-204).
CountersExact ==
  \A s \in Sessions :
    /\ sessions[s].question_count = Cardinality(ReturnedOn(s))
    /\ sessions[s].violation_count = Cardinality(OffencesOn(s))
    /\ {q.sequence_number : q \in AnsweredQuestions(s)} = 1 .. sessions[s].question_count

\* "3 violations in a session -> escalate" (README.md:283): a session is
\* escalated once that many of its verdicts were violations.
ThreeViolationsEscalate ==
  \A s \in Sessions :
    Cardinality(OffencesOn(s)) >= EscalateAt => sessions[s].escalated

\* "all subsequent turns rejected" (README.md:283) needs the flag to stay: whatever
\* a call writes back, no step takes an escalation away (guardian.py:130, :198-204).
EscalationKept ==
  [][\A s \in Sessions : sessions[s].escalated => sessions'[s].escalated]_guardianVars

\* "all subsequent turns rejected" (README.md:283): once a session is escalated,
\* every call that has yet to read its row can only return REJECTED, however
\* many calls, failures and ends of the session come in between.
SubsequentTurnsRejected ==
  \A s \in Sessions, c \in Calls :
    [](sessions[s].escalated /\ call[c].pc \in {"idle", "read"}
         => [](call[c].session = s /\ call[c].pc = "returned"
                 => call[c].guidance = "REJECTED"))

-----------------------------------------------------------------------------
(* The inductive invariant behind the properties that survive overlap and
   failure: what a call has filed by the point it has reached, and how far the
   copies it holds are backed by rows that are there already. *)

\* A call past "idle" has its session, and past "classify" its classification.
CallWellFormed ==
  \A c \in Calls :
    /\ call[c].pc # "idle" => call[c].session \in Sessions
    /\ call[c].pc \in {"violation", "question", "counters", "returned"}
         => call[c].classification \in Classifications
    /\ call[c].pc \in {"idle", "read"} => ~call[c].escalated

\* No row is on file for a call that has yet to file it.
NotYetFiled ==
  /\ IsFiniteSet(questions)
  /\ IsFiniteSet(violations)
  /\ \A q \in questions : call[q.question_id].pc \in {"counters"} \cup Ended
  /\ \A v \in violations :
       call[v.question_id].pc \in {"question", "counters"} \cup Ended

\* The counts a call is about to write are backed by rows, its own included
\* once it is filed.
CopiesBacked ==
  \A c \in Calls :
    LET s == call[c].session IN
    /\ call[c].pc \in {"classify", "violation", "question"}
         => call[c].question_count <= Cardinality(QuestionsOf(s)) + 1
    /\ call[c].pc = "counters"
         => call[c].question_count <= Cardinality(QuestionsOf(s))
    /\ call[c].pc \in {"classify", "violation", "question", "counters"}
         => call[c].violation_count <= Cardinality(ViolationsOf(s))

\* Past each insertion the row it made is on file, numbered as the call counts.
OwnRowsFiled ==
  \A c \in Calls :
    /\ call[c].pc \in {"question", "counters", "returned"}
         /\ IsViolation(call[c].classification)
         => \E v \in violations :
              v.question_id = c /\ v.sequence_number = call[c].question_count
    /\ call[c].pc \in {"counters", "returned"}
         => \E q \in questions : /\ q.question_id = c
                                 /\ q.session = call[c].session
                                 /\ q.classification = call[c].classification

GuardianInv ==
  /\ GuardianTypeOK
  /\ CallWellFormed
  /\ NotYetFiled
  /\ CopiesBacked
  /\ OwnRowsFiled
  /\ NeverOvercounts
  /\ EscalationEarned
  /\ AuditComplete

\* A call returns what derive_guidance_level made of its copies, and its
\* question is on file with these copies.
VerdictsOnFile ==
  \A c \in Calls :
    /\ call[c].pc \in {"counters", "returned"} =>
         \E q \in questions : /\ q.question_id = c
                              /\ q.session = call[c].session
                              /\ q.classification = call[c].classification
                              /\ q.sequence_number = call[c].question_count
    /\ call[c].pc = "returned" => call[c].guidance = GuidanceOf(call[c])

-----------------------------------------------------------------------------
(* The inductive invariant behind the properties of serialised turns: the one
   call that is under way on a session holds copies of the row as it is. *)

OneCallAtATime ==
  \A c, d \in Calls :
    InFlight(c) /\ InFlight(d) /\ call[c].session = call[d].session => c = d

\* A row belongs to the session of its call and carries the number its call gave
\* the question, and calls are made on sessions that exist.
RowsOwned ==
  /\ \A q \in questions : /\ q.session = call[q.question_id].session
                         /\ q.sequence_number = call[q.question_id].question_count
  /\ \A v \in violations : v.session = call[v.question_id].session
  /\ \A c \in Calls : call[c].pc # "idle" => sessions[call[c].session].status # "none"

\* The copies st of a call are those of the row, the question itself counted,
\* and from its violation on that counted too.
Current(st, row) ==
  /\ st.pc \in {"classify", "violation", "question", "counters"} =>
       row.status # "none" /\ st.question_count = row.question_count + 1
  /\ st.pc \in {"classify", "violation"} =>
       /\ st.violation_count = row.violation_count
       /\ st.escalated <=> row.escalated
  /\ st.pc \in {"question", "counters"} =>
       /\ st.violation_count = ViolationsAfter(row.violation_count, st.classification)
       /\ IsViolation(st.classification) =>
            (st.escalated <=> EscalatesAfter(row.escalated, st.violation_count))
       /\ ~IsViolation(st.classification) => (st.escalated <=> row.escalated)
  /\ st.pc = "violation" => IsViolation(st.classification)

CopiesCurrent == \A c \in Calls : InFlight(c) => Current(call[c], sessions[call[c].session])

\* The calls that returned are numbered from 1 to the row's count.
ReturnsNumbered ==
  \A s \in Sessions :
    /\ {call[c].question_count : c \in ReturnedOn(s)} = 1 .. sessions[s].question_count
    /\ \A c, d \in ReturnedOn(s) : call[c].question_count = call[d].question_count => c = d

\* They are as many as the row counts, and so are the violations among them.
RowsExact ==
  \A s \in Sessions :
    /\ IsFiniteSet(ReturnedOn(s))
    /\ sessions[s].question_count = Cardinality(ReturnedOn(s))
    /\ sessions[s].violation_count = Cardinality(OffencesOn(s))

\* The violations among the first n verdicts on a session.
OffencesUpTo(s, n) == {c \in OffencesOn(s) : call[c].question_count <= n}

\* A call returns the violations counted up to its own question, and its session
\* as escalated exactly from the threshold on.
OffencesCounted ==
  \A s \in Sessions : \A c \in ReturnedOn(s) :
    /\ call[c].violation_count = Cardinality(OffencesUpTo(s, call[c].question_count))
    /\ call[c].escalated <=> call[c].violation_count >= EscalateAt

ThresholdExact ==
  \A s \in Sessions :
    sessions[s].escalated <=> sessions[s].violation_count >= EscalateAt

SerialInv ==
  /\ GuardianInv
  /\ VerdictsOnFile
  /\ OneCallAtATime
  /\ RowsOwned
  /\ CopiesCurrent
  /\ ReturnsNumbered
  /\ RowsExact
  /\ OffencesCounted
  /\ ThresholdExact

-----------------------------------------------------------------------------
(* The refinement: with serialised turns the transactions of a call appear as
   two steps of IntegrityLedger, the question is taken up when the call reads
   the row and counted when it updates the counters; a call that raises in
   between gives the question up. *)

VerdictOfCall(st) ==
  [classification |-> st.classification, guidance |-> st.guidance,
   question_count |-> st.question_count, violation_count |-> st.violation_count,
   escalated |-> st.escalated]

\* The verdict of the last call that returned: the one with the largest count.
LastVerdict(s) ==
  IF ReturnedOn(s) = {}
  THEN [classification |-> "none", guidance |-> "none", question_count |-> 0,
        violation_count |-> 0, escalated |-> FALSE]
  ELSE VerdictOfCall(call[CHOOSE c \in ReturnedOn(s) :
         \A d \in ReturnedOn(s) : call[d].question_count <= call[c].question_count])

Ledger == INSTANCE IntegrityLedger
            WITH ledger <- sessions, pending <- [s \in Sessions |-> Working(s)],
                 verdict <- [s \in Sessions |-> LastVerdict(s)]

\* Serialised turns implement the ledger, also when transactions fail and when
\* the session is ended in the middle of a call.
ImplementsLedger == Ledger!LedgerSpec

=============================================================================
