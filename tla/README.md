# Formal verification of the ADFEL lab companion

This directory models the concurrent and failure-prone parts of ADFEL (the
`server/` and `agentic_system/` packages and the chat client `app.py`) in TLA+,
checks them with TLC on small instances and proves the most important safety
properties with TLAPS for every instance.

## 1. The system

A Chainlit client (`app.py`) opens a session for each chat, posts every message
as a *turn* and reads the answer as a stream of events.  The FastAPI server keeps
the sessions in memory and runs each turn in a thread of the default pool.  A turn
goes through the Guardian (classify, count, throttle, escalate), the Lab Companion
(draft) and the Guardian again (verify), and is logged by the Participant.  The
Guardian, the Participant and the server's users and courses each have an SQLite
file of their own.  Nothing in the server prevents two turns of one session from
running at the same time; only the client waits, and it gives up after 300 s.

### Inventory

| component | state | operations | hard behaviour | what makes it correct |
|---|---|---|---|---|
| policy (`policy/engine.py`) | none | `derive_guidance_level` | order of tests, four thresholds | throttling only tightens; escalation rejects everything |
| Guardian agent (`agents/guardian.py`) | local copies of a session row | `validate`, `verify`, `session_start`, `session_end` | reads the row, calls the LLM, writes what it computed, in up to three transactions | counters agree with the rows; escalation happens, is earned and stays; nothing is answered that is not on file |
| guardian database (`store/sqlite.py`) | `sessions`, `questions`, `violations`, `verifications` | one transaction per call, no retries, foreign keys off | a transaction may fail between two others, and so may a record built of what the LLM answered | what is answered is on file; closed sessions stay as they are |
| orchestrator (`orchestrator.py`) | `SessionState.conversation_history`, the turn's locals | `handle_turn`, `start_session`, `end_session` | retry loop, fail-safe for every callee, two unguarded appends | every turn is answered; an answer is explained by the verdicts; a rejected question is refused |
| Lab Companion, Participant | `interactions` | `respond`, `interaction_log` | fail independently | history and database tell the same conversation |
| session registry (`server/session_store.py`) | `session_id -> SessionState, last_touched` | `put`, `get`, `remove`, `sweep_expired` | eviction races turns; lost on restart | a session leaves only for cause; rows do not stay open |
| student routes (`server/routes/student.py`) | requests in progress | create, turn, delete | awaits between reading and writing the registry | one end per session |
| step stream (same file) | event-loop queue, worker future | `on_step`, `event_generator` | steps posted by a thread, timeouts, disconnects | steps in order, none lost, one terminal event, last |
| chat client (`app.py`) | `session_id` per chat | `on_start`, `on_message`, `on_end` | timeouts, errors, abandoned chats | a chat is not left waiting |
| harness registry, provisioning, admin routes, migration | cached harnesses, course rows, containers, directories | create, delete, bootstrap | three-step teardown, rollback, a request between two steps | rows, resources and cached harnesses agree |
| identity (`server/auth.py`, `server/routes/auth.py`) | `users`, session tokens, the locals of a login thread | CAS login: look up by subject, by e-mail, bind, bootstrap the admin, mint | two look-ups and a write in three transactions, in threads; tokens outlive rows | the token names the account CAS vouched for; nobody with an account is refused; deleting an account ends its tokens |
| access (`server/auth.py`, `store/system.py`, `routes/admin.py`) | `users`, `courses`, `enrollments` | `require_*`; create and delete users, enroll, unenroll, rows of courses | claims are believed, rows are read one by one; foreign keys cascade or refuse | nobody but an admin passes a course dependency without an account (the un-prefixed routes look at the claims only) |
| instructor routes, knowledge base, LLM clients, configuration | external services only | | | not modelled |

How the parts interact: the client talks to the routes over HTTP; a route reads
the course row in a dependency that runs in a thread, takes the course's harness
from the registry on the event loop, and awaits the harness's synchronous call in
another thread.  That thread posts steps back with `call_soon_threadsafe`.  Two
turns share the `SessionState` object, the two SQLite files and the session
registry, without any lock but SQLite's own and the two inside the registries.

### Behaviours that are hard

* **Lost updates and stale copies.** `validate` reads the session row, spends
  seconds in an LLM call and writes counters and `escalated` back.
* **Partial failure.** A turn is up to three Guardian transactions, one
  verification row per attempt, one interaction row and two list appends; each may
  be the first to fail, and three of them have a record built right before them, of
  what an LLM answered, which may raise while every store is healthy.  Creating and
  deleting a course has the same shape, with replies that may be lost.
* **Checks that age.** A session is looked up before a turn and may be evicted,
  deleted or restarted away during it; a course row is read by a dependency and
  used after the course has been taken apart.
* **Ordering across threads.** Steps, the future's result, `wait_for` timeouts and
  a disconnect meet in one generator.
* **Retries and timeouts.** The verify loop, the client's 300 s, the reconnecting
  chat, the TTL sweep.
* **Crashes.** Sessions live in memory only; the bootstrap is two transactions.

`PROJECT.json` lists each of them under `hazards`, at its line, with the
properties that would notice.

## 2. The plan

The order is by what the system is for: the integrity policy and its counters
first, then the turn that acts on them, then the session around the turn, then
the stream that delivers it, then the courses.

| # | module | composes | abstract specification | runs | state |
|---|---|---|---|---|---|
| 1 | `IntegrityPolicy` | | | | done |
| 2 | `IntegrityLedger` | `IntegrityPolicy` | is one: a session asked atomically | `ledger` | done |
| 3 | `GuardianSessions` | `IntegrityPolicy`; implements `IntegrityLedger` | `Ledger!LedgerSpec` | `guardian_serial`, `guardian_lost_update`; its properties under overlap in `turn_overlap` | done |
| 4 | `TurnPipeline` | `GuardianSessions` (its `validate` is the turn's first stage) | | `turn_overlap`, `turn_serial`, `turn_direct` | done |
| 5 | `SessionLifecycle` | discharges what `GuardianSessions` assumes of its callers | | `lifecycle`, `lifecycle_retry` | done |
| 6 | `StepStream` | delivers one turn of `TurnPipeline` | | `stream` | done |
| 7 | `CourseLifecycle` | the resources of a course | | `course` | done |
| 8 | `Identity` | the users table that `CourseAccess` reads | | `identity` | done |
| 9 | `CourseAccess` | admits the requests of `CourseLifecycle` | | `access` | done |
| 10 | `IntegrityLedgerProofs`, `GuardianSessionsProofs` | 2, 3, and that 3 implements 2 | | | done |
| 11 | `TurnPipelineProofs` | 4, on top of `GuardianSessionsProofs` | | | done |
| 12 | `SessionLifecycleProofs` | 5 | | | done |
| 13 | `StepStreamProofs`, `CourseLifecycleProofs` | 6, 7 | | | done |
| 14 | `IdentityProofs`, `CourseAccessProofs` | 8, 9 | | | done |

Every safety and action property that a passing run checks is stated by a theorem, and
so is the refinement of the ledger.  What is left is the liveness of section 6.

## 3. The modules and the code

Names are those of the source wherever TLA+ allows it.  An operator whose name
ends in `Mutant` is a planted defect, used by no specification: it stands before
the definition it would replace and shows that a property can fail.

**`IntegrityPolicy`** is `derive_guidance_level` and the rule by which `validate`
counts a violation and escalates, over the classifications and guidance levels of
`models.py`.  `EscalateAt`, `ModerateAt`, `MinimalAt`, `RejectAt` are the
thresholds 3, 12, 14, 16 of the code.

**`IntegrityLedger`** is what the Guardian promises: a table of sessions, on which a
question is taken up while the session is open (`Begin`) and then counted, judged and
answered in one step (`Ask`), or given up (`Abandon`).  The session may be closed while
a question is pending.

**`GuardianSessions`** has the three tables and, for every `validate` call, its
local variables and the transaction it has reached: `read`, `classify`,
`violation`, `question`, `counters`.  `ReadSession` copies the row,
`Classify` is the LLM's answer or error, `InsertViolation`, `InsertQuestion` and
`UpdateCounters` each commit one transaction.  A call raises in two ways:
`StoreFails` is the failure of whichever transaction is next, and `RecordFails` is
`QuestionRecord` raising on what the LLM answered (`concept_tags` that are no list of
strings), with healthy stores and after the violation was filed.  `SessionStart` and
`SessionEnd` are the Guardian's other two writers; a session may end at any point of a
call, as `on_end` of the client may delete it in the middle of a turn.  Two parameters
describe the environment: `Serialized` (the client waits for the answer to a question
before it asks the next one, as `app.py` does until it times out; it says nothing about
the end of the session) and `StoreFaults` (a transaction may fail).

**`TurnPipeline`** extends it with `Orchestrator.handle_turn`: the fail-safe
result when `validate` raised, the two refusals, the draft and verify loop with
its `MaxRetries`, the verification rows, the interaction log, and the two appends
to the history, each an action of its own because another thread appends to the
same list.  `VerifyFails` and `LogFails` are the two callees that may raise with
healthy stores as well: `VerificationRecord` on a reason that is no string, and
`log_interaction` on labels that are no object or have no number for a hint level.
`verifier_error` is the `"verifier-error"` that the turn then reports.  The retrieval of
context and the wording of steps change no state that a property tells apart.

**`SessionLifecycle`** is the life of session ids across three parties: the chat
(`on_start`, `on_message`, `on_end`, with a message that overtakes the start and a
websocket that comes back), the routes (`_create_session`, `_handle_turn`,
`_delete_session`, each split where it awaits), and the registry with its sweep.
`ending` counts the `end_session` threads of a session that run, have closed the row
and have failed, so that two at a time are two.  Time is a per-session `idle` age that
saturates past the TTL.  `unasked` is a
history variable: the age since the last *accepted* request, kept apart from the
field the code keeps, so that a property on eviction does not just repeat it.

**`StepStream`** is the delivery of one turn: the worker's callbacks in the loop's
ready queue (`call_soon_threadsafe` for steps, `wrap_future` for the result), the
`asyncio.Queue`, the generator's `wait_for` with its timeout, the drain, the
terminal event, and the client that reads.  `sent` records what went out.

**`CourseLifecycle`** is the server's courses: the two steps of the bootstrap,
`create_course` (container, row, harness, rollback), `delete_course` (evict,
directory, container, row), the harness cache, and the requests that look a course
up in a thread and use it later, or take the oldest course for the un-prefixed
routes.  `born` is the order of `created_at`, which is taken before the container
is made; `IsDefaultCourse` is the first row that `list_courses` returns.  `named` is the
container name of each course: its own by `derive_resource_names`, or one of `Overrides`
that the instructor or the configuration gives, which other courses may have been given
too; those in `Existing` are of containers that others have made.  A `create_container`
or `delete_container` that raises may have done its work (`ProvisionFails`, `RollBack`,
`RemoveContainer`); after a failed provisioning nothing is rolled back.  `reported`,
`unremoved` and `overlapped` are history variables for the properties.

**`Identity`** is the users table with its two UNIQUE columns and the CAS login of
`validate_cas` and `resolve_or_create_user`: a thread that looks the identity up by
`sso_subject` (`LookUpSubject`), then by e-mail (`LookUpEmail`), binds the row it
found (`BindSubject`) or inserts the configured admin (`BootstrapAdmin`), and mints a
token from the row as it was read (`MintToken`).  Each is a transaction of its own and
may meet rows that another login or an admin route has changed since; any may raise
(`LoginFails`).  `InsertUser` and `DeleteUser` are what the admin routes do to the
table.  `EmailOf` is what CAS releases; two netids may share an address.  A token
records in `identity` whom it was minted for, and a login in `known` the account its
e-mail had when it began; the code has neither, the properties need both.  When a
token expires is left open.

**`CourseAccess`** is the other half: the three tables with their foreign keys, the
dependencies `require_user`, `require_course_member` and `require_course_instructor`
with each read a step, and the admin routes.  Tokens are abstracted to the claims of
any account that was ever on file (`accounts`), so that what holds does not depend on
how long a token lasts.  The dependencies run in threads and interleave freely; the
bodies of the admin routes call the store on the event loop without an await in
between, which is `LoopFree`, and only a login's insert, in a thread, can come between
two of their transactions.

### What is taken from outside `src/`

Chainlit keeps `user_session` when a websocket reconnects and calls `on_start`
only for a new chat; it delivers a message before `on_start` has returned.  The
asyncio loop runs callbacks in the order they were posted; a `wait_for` that times
out while its item arrives may do either.  A single SQLite transaction is atomic, and
its UNIQUE columns and foreign keys are enforced (`PRAGMA foreign_keys` is on for the
system store).
An LLM answers anything in its range or fails.  These are the definitions marked
`external` in `PROJECT.json`, and the nondeterministic choices in `Classify`,
`JudgeDraft` and `CompanionFails`.

## 4. The runs

All runs set `CHECK_DEADLOCK FALSE`, because the system may really stop: the call,
session and course ids of the instance are used up and users may stop asking.

| run | instance | checks |
|---|---|---|
| `ledger` | real thresholds, 1 session, 17 questions | escalation exactly at the 3rd violation; no question makes the next one of any kind better treated |
| `guardian_serial` | 3 calls one after the other, 1 session, any transaction or record fails | the row counts exactly the questions that got a verdict; escalation once two of the verdicts were violations; it is not taken back, and a call that has yet to read its row then returns REJECTED only; the steps implement the ledger |
| `guardian_lost_update` (violation) | 3 overlapping calls, healthy stores | enough violations among the verdicts, no escalation |
| `turn_overlap` | 2 overlapping turns, 1 retry, any transaction or record fails | counters never claim more than is filed; escalation needs two violations on file; what is answered is on file; a closed session is final; answers are explained by the verdicts; refusals are earned; every turn is recorded once and in order |
| `turn_serial` | 2 serialised turns, 1 retry, any transaction or record fails | every turn is answered; the history is the conversation in the order of the question numbers; a question with a verdict is refused whenever the rules reject it |
| `turn_direct` (violation) | 2 serialised turns, 1 retry, healthy stores | a DIRECT_SOLUTION is answered when `validate` raises after the classification |
| `lifecycle` | 2 session ids, 1 chat, TTL 1 tick, 2 turns, 1 restart | registered sessions have active rows, `end_session` started at most once for each, evicted only for cause and if left, no row stays open unexplained |
| `lifecycle_retry` (violation) | the same without a restart | a chat told to try again cannot |
| `stream` | 9 steps | complete, ordered, one terminal event, never silent, always settles |
| `course` | 2 courses, 1 existing container that may be given to either, 2 deletions, 2 requests, 1 legacy session, 1 crash | containers accounted for, deletions complete, legacy sessions stay on the default course, the bootstrap completes |
| `identity` | 2 netids (the admin's and another), 2 logins at a time, 3 user ids | the token names the account CAS vouched for, with its role; nobody whose account is on file is refused; deleting an account ends its tokens |
| `access` | 3 user ids, 2 courses, 2 requests at a time | whoever passes one of the two course dependencies has an account, admins aside, and the course is on file |

### Why the bounds are enough

* Thresholds: only `ledger` counts to 16, so it has the real ones.  The other runs keep
  the order of the four thresholds and cannot reach every level at once.  The runs of the
  Guardian alone use 2/2/3/4: three calls reach an escalation that takes two violations, a
  call that follows it, FULL, MODERATE and MINIMAL by the throttle, and REJECTED by the
  escalation or a direct solution; REJECTED by the throttle is out of their reach.
  `turn_overlap` and `turn_serial` use 2/2/2/2: the first question is FULL or, when
  `validate` raised, MODERATE, the second is REJECTED by the throttle or by the escalation,
  and MINIMAL is that of answer farming; a direct solution is refused without an escalation
  when it is the first violation.  The proofs leave the thresholds open.
* Three calls are the least with which a call follows an escalation, or two stale writers
  overlap and a third starts from what they left.
* Two turns suffice for interleaved appends, for an escalation by one turn under the other,
  and for an early or double count to be seen, as the escalation takes two violations;
  `MaxRetries = 1` has a first, a repeated and a last attempt's rejection (the default is 2,
  and no guard tells 1 from 2).  `turn_overlap` and `turn_serial` classify as
  DIRECT_SOLUTION or ANSWER_FARMING, and as PROCEDURAL where the classifier fails.
* The violation runs of the Guardian and of the turn have healthy stores: they show what the
  code does when nothing fails but a record, an LLM's answer or the order of two turns.
* Classifications: `CONCEPTUAL` and `CLARIFICATION` are treated like `PROCEDURAL`
  by every guard.  `ledger` has all five.
* Ages are compared with the TTL only, so one tick below, at and above it are all
  there is.  Two ids are what one chat can create when a message overtakes its
  start; a second chat shares nothing with the first but the sweep.
* Nine steps are the maximum `handle_turn` emits with two retries.
* One deletion can then meet another of the same course, or of the only other one,
  after which the table is empty and the next start seeds a new default course.
* One name that an instructor may give, of a container that exists, is enough for two
  courses to share a container, for one to take it from others, and for both to have their
  own; a shared container that the server made itself is left to the theorem
  `ContainersAreAccounted`, which holds for any names.
* Three user ids let an account be deleted and made again while a login holds the old
  row; two logins are what it takes for one to bind between the look-ups of the other.
  In the run the two netids have different addresses; that the safety properties hold
  when netids share one is part of the theorems of `IdentityProofs`.
* In `access` two requests overlap, one of which can take away what the other has read;
  the admin bodies exclude each other anyway.  Two courses tell the instructor of one
  from a stranger to the other.  The theorems of `CourseAccessProofs` hold for any
  number of each.
* Symmetry is used on turns, courses, deletions, requests and user ids, only in
  runs without liveness properties.

### Fairness

* Weak fairness of every `validate` step and of every turn step: a thread of the
  pool goes on, and each LLM and SQLite call ends (timeouts of 30 s and of the
  client library).  Nothing is assumed of which outcome it has.
* `Tick` and `SweepExpired`: time passes, and `run_ttl_sweep` is a loop that
  `lifespan` starts and in which nothing raises.
* In `StepStream`: thread, loop, generator and the client's reads.  The three ways
  a `wait_for` ends share one fairness condition, since which of them comes is not
  up to the server.  `Cancel` and `RequestError` are never assumed.
* In `Identity`: a login thread goes on (`Resolve`; it may fail), and the tokens of an
  account expire, as every session token carries an `exp` that `verify_session_jwt`
  enforces.  `RevocationCompletes` needs both: a login that read the row before it was
  deleted still has to get to its mint before its token can expire.
* No fairness is assumed of users, of crashes, of failures, of what the admins do, or
  in `CourseLifecycle` and `CourseAccess`.

### What the violation runs show

1. `guardian_lost_update` (guardian.py:198): overlapping turns lose violations, and the
   session is not escalated at the third (README.md:283).
2. `turn_direct` (orchestrator.py:125): if `validate` raises after the classification, the
   fail-safe result replaces a DIRECT_SOLUTION by PROCEDURAL and the question is answered
   (README.md:286).
3. `lifecycle_retry` (app.py:251): a 404 is treated as a passing failure; the chat keeps a
   `session_id` the server no longer knows and "Please try again" cannot succeed.

Behaviour that the models have and no run is about:

* A slow `validate` that overlaps another one writes back `escalated = FALSE` over the
  escalation the other committed meanwhile (guardian.py:203).  It is the stale copy of
  `guardian_lost_update` again; `EscalationKept` holds only where questions do not overlap.
* `insert_violation` comes before `insert_question` (guardian.py:179).  A failure in
  between, which malformed `concept_tags` are enough for (guardian.py:187-195), leaves a
  violation row without the question its foreign key names (sqlite.py:158; the guardian
  store does not switch foreign keys on).  Such violations, and those whose counters could
  not be written, are on file and count for no escalation.
* A classifier failure is counted as PROCEDURAL and throttled like any question, so an early
  one is answered at FULL, where README.md:289-290 says MODERATE (guardian.py:146).
* A draft that the verifier rejected goes out when its verdict cannot be stored or has a
  reason that is no string (orchestrator.py:257, guardian.py:259-264).  `AnswersExplained`
  has it reported as `verifier_error`.
* The student is told that the interaction is recorded also when the log failed, and on a
  refusal before it is tried (orchestrator.py:170, :199); `log_interaction` raises with
  healthy stores on labels of another shape than it expects (participant.py:70-79).
* A course takes the container it was given with it, be it others' or shared
  (provisioning.py:82, against "resources we own", provisioning.py:53).
* The placeholder account that `enroll_student` makes stays when the enrollment itself
  fails, and its owner can sign in from then on (admin.py:247, auth.py:202).
* The kind of a question is tested before the number of questions
  (`policy/engine.py:181`): an answer-farming question at Q16 or later is answered at
  MINIMAL.  README.md:284-287 lists both rules and does not say which comes first.
* The session's status is checked before the LLM call only: rows may be filed after
  the session is closed (guardian.py:125).  `ClosedSessionsFrozen` says that only the
  calls that read the row before the close can do so.
* The last rejection announces a retry that does not come (orchestrator.py:275).
* The un-prefixed routes (student.py:76-103, instructor.py:70-86), which are the ones
  app.py uses, admit any valid token on its claims; a deleted student can go on with the
  default course until the token expires.
* A `create_container` that raises after the container was made leaves it behind: 502
  without a rollback (admin.py:142-144).
* After the default course is deleted the un-prefixed routes serve the oldest
  remaining course, so sessions opened on the old one go on with another database;
  and as `created_at` is taken before the container is made, a course created
  earlier but inserted later then becomes the default in its turn
  (migration.py:52-55, admin.py:136).
* A request that overlaps `delete_course` leaves a cached harness or a directory of
  a course that is gone (`overlapped`); a failed `rmtree` is only logged and not part
  of `leftover_resources` (`unremoved`).
* The rollback of `create_course` ignores what `delete_course_resources` reports as
  left over (admin.py:151).  The comment at provisioning.py:28-29 speaks of rolling
  back the SQL insert, but the container is made first.
* If two netids share an address, `update_user_sso_subject` binds the row again
  without a look at what it was bound to meanwhile (auth.py:208-211).  The account is
  that of the address either way.
* The configured admin's address, if an instructor has enrolled it before the admin's
  first login, signs in as the student that row says (auth.py:207-215).  Two first
  logins of the admin race to insert the row; one fails on the UNIQUE e-mail with a
  500 and works when it is repeated.
* A deleted admin keeps the powers of an admin until the token expires: only members
  and instructors of a course are looked up (auth.py:98-123; `AdmissionBacked` excepts
  admins).
* Deleting a user who teaches a course raises for the foreign key, a 500
  (system.py:43, admin.py:103).

## 5. The proofs

| module | theorem | statement |
|---|---|---|
| `IntegrityLedgerProofs` | `LedgerTypesHold` | `LedgerSpec => []LedgerTypeOK` |
| | `EscalationIsExact` | `LedgerSpec => []EscalatedExactlyAtThreshold` |
| | `GuidanceIsMonotone` | `LedgerSpec => GuidanceNeverRelaxes` |
| `GuardianSessionsProofs` | `GuardianInvariant` | `GuardianSpec => []GuardianInv` |
| | `TypeCorrect` | `GuardianSpec => []GuardianTypeOK` |
| | `CountersNeverOvercount` | `GuardianSpec => []NeverOvercounts` |
| | `EscalationIsEarned` | `GuardianSpec => []EscalationEarned` |
| | `AuditIsComplete` | `GuardianSpec => []AuditComplete` |
| | `ClosedSessionsAreFrozen` | `GuardianSpec => ClosedSessionsFrozen` |
| | `SerialInvariant` (S) | `GuardianSpec => []SerialInv` |
| | `CountersAreExact` (S) | `GuardianSpec => []CountersExact` |
| | `ThreeViolationsDoEscalate` (S) | `GuardianSpec => []ThreeViolationsEscalate` |
| | `EscalationsAreKept` (S) | `GuardianSpec => EscalationKept` |
| | `SubsequentTurnsAreRejected` (S) | `GuardianSpec => SubsequentTurnsRejected` |
| | `GuardianImplementsLedger` (S) | `GuardianSpec => ImplementsLedger` |
| `TurnPipelineProofs` | `TurnInvariant` | `TurnSpec => []TurnInv` |
| | `TurnTypeCorrect` | `TurnSpec => []TurnTypeOK` |
| | `AnswersAreExplained` | `TurnSpec => []AnswersExplained` |
| | `RefusalsAreEarned` | `TurnSpec => []RefusalsEarned` |
| | `RecordsAreInOrder` | `TurnSpec => []TurnsRecordedInOrder` |
| | `ConversationInvariant` (S) | `TurnSpec => []ConversationInv` |
| | `HistoryIsTheConversation` (S) | `TurnSpec => []HistoryMatchesLedger` |
| | `RejectionsAreObeyed` (S) | `TurnSpec => []RejectionsObeyed` |
| `SessionLifecycleProofs` | `LifecycleInvariant` | `Spec => []LifecycleInv` |
| | `RegistryIsBacked` | `Spec => []RegisteredRowsActive` |
| | `OpenRowsAreExplained` | `Spec => []OpenRowsExplained` |
| | `SessionsEndOnce` | `Spec => []EndedAtMostOnce` |
| | `AskedSessionsStay` | `Spec => AskedSessionsKept` |
| `StepStreamProofs` | `StreamTypesHold` | `Spec => []StreamTypeOK` |
| | `StreamsAreComplete` | `Spec => []CompleteStream` |
| | `StepsAreShownInOrder` | `Spec => []ShownInOrder` |
| | `StreamsAreNeverSilent` | `Spec => []NeverSilent` |
| `CourseLifecycleProofs` | `CourseInvariant` | `Spec => []CourseInv` |
| | `ContainersAreAccounted` | `Spec => []ContainersAccounted` |
| | `DeletionsAreComplete` | `Spec => []DeletionComplete` |
| | `LegacySessionsStay` | `Spec => []LegacySessionsStayOnCourse` |
| | `BootstrapIsComplete` | `Spec => BootstrapCompletes` |
| `IdentityProofs` | `TypesHold` | `Spec => []TypeOK` |
| | `TokensAreTruthful` | `Spec => []TokensTruthful` |
| | `EnrolledAreAdmitted` | `Spec => []EnrolledAdmitted` |
| | `SubjectsStayUnique` | `Spec => []SubjectsUnique` |
| `CourseAccessProofs` | `TypesHold` | `Spec => []TypeOK` |
| | `ReferencesHold` | `Spec => []KeysRefer` |
| | `AdmissionsAreBacked` | `Spec => AdmissionBacked` |

Each holds for every value of the constants that satisfies the assumptions of its
module: `ThresholdsAssumption` (the thresholds are positive and in order),
`GuardianAssumption` (the ids are distinct from `NoSession`, verdicts are
classifications), `RetriesAssumption` (`MaxRetries` is a number), `LifecycleAssumption`
and `CourseAssumption` (what stands for "none" is no id; existing containers are among
the names that may be given; the TTL and the bounds on restarts, turns and crashes are
numbers, of any size), `StreamAssumption` (a turn has a
number of steps), `IdentityAssumption` and `AccessAssumption` (no id stands for "none",
CAS releases an address for every netid).  TLC evaluates all of them in the runs.

The theorems marked (S) assume `Serialized = TRUE`: the questions of a session do not
overlap.  It is all they assume.  Any transaction may fail, any record may be malformed,
and the session may end in the middle of a question.  `guardian_lost_update` shows what
becomes of the counters without it.  All other theorems hold under any overlap too; none
assumes that the stores work.

Each proof has one lemma per action, under it one step per conjunct the action can
disturb, and a few lemmas for what actions have in common (`TurnOnlyStep`,
`ContainerStep`, `RequestStep` and the like).  The inductive invariants themselves are in
no run: what they add to the properties of their modules serves the proofs only.

**The policy** (`IntegrityLedgerProofs`).  `ThrottleStrictness` writes the throttle
as thresholds on the two counts, `GuidanceMonotone` concludes that more questions,
more violations or an escalation never give a milder level, and `CountsGrow` that no
step takes a count back.  That escalation is exact needs no strengthening but types.

**The Guardian** (`GuardianSessionsProofs`).  None of the three properties is
inductive.  A row's `question_count` comes from a call's local copy, so
`NeverOvercounts` needs to know that the copy is backed by rows (`CopiesBacked`): when
`ReadSession` makes the copy it is at most one above what is filed, `InsertQuestion`
files the missing one, and rows are never deleted, so other calls only help.  The
violation count gets its own row from `InsertViolation`, and that this row is *new*
needs `NotYetFiled`: no row is on file for a call that has yet to file it, and the
tables are finite, which makes the cardinality grow by one.  `EscalationEarned` then
follows from the count that `EscalatesAfter` was given.  `AuditComplete` needs
`OwnRowsFiled`: past each insertion the call's own row is there.  `GuardianInv` is the
conjunction.

**Closed sessions** (`ClosedSessionsFrozen`, same module).  A call that read the row
before the close may still write, so the promise begins when these are done (`Quiet`).
`QuietCallsRaise` says that a call which has yet to read such a row can only raise, and
`WhoWrites` that nobody else touches what belongs to the session.

**The Guardian, one call at a time** (`SerialInv`, same module).  Overlapping calls lose
updates, so exact counters need that a session has one call in progress at most, and
that the row this call read is still the row, but for its status: `CopiesCurrent` relates
each copy to the row by the point the call has reached.  What the row counts are not the
rows on file, as a call that raised may have left some, but the verdicts that were given:
`ReturnsNumbered` has the calls that returned numbered from 1 to the row's count,
`RowsExact` equates the two counts with their numbers, `OffencesCounted` says the same of
the copies each of them returned, and `ThresholdExact` that a row is escalated exactly
from `EscalateAt` on.  `EscalationStays` is `EscalationKept` for one step: the copy that is
written was made of the row as it is.  `BoundToRejectStays` then carries the fate of one
call from the escalation to its return, for `SubsequentTurnsAreRejected`.

**The ledger** (`GuardianImplementsLedger`).  The refinement mapping shows the
abstract row of a session to be the concrete one, a question to be pending while a call
is between its read and its end, and the verdict to be that of the
last call that returned (`LastVerdict`, the largest count: `ReturnsNumbered` makes it
unique).  `LedgerInitially` and `StepsAreLedgerSteps` are the two
obligations: `UpdateCounters` of a call that has read the row `r` is the ledger's atomic
question on `r`, because under `SerialInv` the row still is `r`, closed perhaps in
between; a call that raises gives its question up; starting and ending
a session are the ledger's own steps; every other step is a stutter.

**The turn** (`TurnPipelineProofs`).  `TurnInv` puts the turn beside its call
(`TurnFollowsCall`: it waits for `validate`, and refuses only on what that returned),
counts the rejected drafts (`AttemptsRejected`: before there is an answer, the
verdicts on file are the rejections of the attempts `0 .. attempt - 1` and nothing
else, so every way out of the loop leaves the rows `AnswersExplained` claims), and
says where the entries of a turn are in the history (`EntriesSoFar`: none before it
appends, then one of each, at positions that another thread's append leaves alone).
`RefusalsEarned` is not part of it: it follows from `VerdictsOnFile` and
`EscalationEarned`.

**The conversation** (`ConversationInv`, same module).  The history is in pairs
(`Paired`), but for the entry that the one turn in progress on the session has appended;
every finished turn has its pair, also when its `validate` raised.  `InOrder` says that
the question of the turn in progress is the last one the row counts, once it is counted,
so its pair, which goes to the end, keeps the order of the numbers.

**Refusals** (`RejectionsObeyed`).  By `OffencesCounted` a call that returned holds the
number of violations among the verdicts up to its own and the escalation that goes with
it; `CausesReject` concludes that each of the documented reasons makes
`derive_guidance_level` answer REJECTED, which a turn on a returned call obeys
(`TurnFollowsCall`).

**The registry** (`SessionLifecycleProofs`).  `RequestFirst` orders row, entry and end
of a session by the point of its create request; `EntriesLive` says that an entry is
of a session nobody has deleted, so the pop in `DeleteSession` lets one request
through, and the counts of `ending` are zero until then; `ThreadsCounted` says that
each client that waits for an answer has a thread at work, a cardinality that moves by
one with each start and end of a turn.

**The courses** (`CourseLifecycleProofs`).  `CreationFirst` is the heart: a course that
has a row, or that a deletion is busy with, has a creation that is over, so the two
routes never work on one course at the same time.  `RemovedInOrder` says what a
deletion has taken away stays away unless a request brings it back, and
`OverlapsNoticed` that such a request was seen.  `ContainersHeld` has a course for every
container the server made that still answers for it (`Answerable`), which has to hold
also while a container of that name is shared with a course that is being deleted;
`ContainerStep` is the one lemma for all the steps that make or delete a container.
`LegacyOldest` (every course given an id before a seeded one has no row, and no creation
of it is under way) makes the seeded course the default one as long as it exists, and two
legacy rows the same row; it holds because the bootstrap seeds only an empty table, before
the server is ready, when a crash has left no `create_course` under way.

**Sign-in** (`IdentityProofs`).  The invariant adds `RowsSound`: ids and e-mails are
unique, and a bound row has the e-mail of its subject, also when two netids share it.
`Agrees` then holds of every row a login has read and of every token, and is stable
because no transaction changes the id, e-mail or role of a row and no id is given out
twice (`RowsDescend`, `AgreesStable`).  `KnownSound` does the same for the account a
login could have found.  `SubjectsUnique` follows, so `BindSubject`, which the code
does not guard, cannot run into the UNIQUE column.

**Access** (`CourseAccessProofs`).  The invariant adds `KeysRefer`, the foreign keys:
an enrollment's account and course, and a course's instructor, are on file.  A reader
that finds the enrollment or is the instructor has an account for that reason,
although the claims of the token are believed.

## 6. What is only model-checked

Liveness: `EveryTurnAnswered`, `LeftSessionsEvicted`, `EveryStreamSettles` and
`RevocationCompletes`.  They need weak fairness, and with it `ENABLED`, which the prover
does not reason about.  Nothing else: every other property of a passing run is a theorem
of section 5.  No module uses a RECURSIVE operator, and no proof an induction over data.

The refutations of the three violation runs are TLC's counterexamples.

## 7. What is not modelled

* Instructor routes and indexing (`routes/instructor.py`, `indexing.py`): they upload
  blobs and start an external indexer.  What an indexer run that is refused, repeated
  or overtaken by an upload does is nowhere in this code, and a model would have to
  invent it.
* The knowledge base and the LLM clients: stateless calls of external services; the
  models take any answer or failure.
* The development bypass of the authentication, the HMAC of the tokens and the CAS
  protocol itself: `ValidateTicket` starts where CAS has vouched for a netid.
* The login pages of the chat client, which pass a ticket on and keep a cookie.
* Prompts, summaries, the report of `session_end`, formatting and logging: no guard
  reads them.
* Configuration, schemas and abstract store interfaces.
* Servers without blob storage.
* Tokens on the un-prefixed routes: they check the claims and nothing else, so there is
  no state to model beside the token's expiry (`Identity`).
* The order of "Q16+" and answer farming, which README.md:284-287 leaves open: no property
  can call either of them wrong.
* Several server processes on one database: the deployment starts one.
