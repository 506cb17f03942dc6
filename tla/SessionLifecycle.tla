-------------------------- MODULE SessionLifecycle --------------------------
(***************************************************************************)
(* The life of a session between the chat client (app.py), the student     *)
(* routes and the in-memory SessionRegistry of the server, and the row in  *)
(* the guardian database that outlives the process.  Routes are coroutines *)
(* of one event loop, so what they do between two awaits is one action;    *)
(* start_session, handle_turn and end_session run in threads.              *)
(*                                                                         *)
(* Bounds: idle times saturate one tick past TTL, a session has at most    *)
(* MaxTurns turns in threads, the server restarts at most MaxRestarts      *)
(* times.  What a turn does is the subject of TurnPipeline.                *)
(***************************************************************************)
EXTENDS Integers, FiniteSets

CONSTANTS Sessions,      \* session ids, one for each create request
          NoSession,     \* a chat without a session_id
          Chats,         \* Chainlit chats
          NoChat,        \* a create request whose client has given up
          TTL,           \* ticks a session may be idle (DEFAULT_TTL_SECONDS)
          MaxTurns,      \* bound on the turns of a session in threads
          MaxRestarts    \* bound on restarts of the server

ASSUME LifecycleAssumption ==
  /\ NoSession \notin Sessions
  /\ NoChat \notin Chats
  /\ TTL \in Nat \ {0}
  /\ MaxTurns \in Nat \ {0}
  /\ MaxRestarts \in Nat

VARIABLES registry,   \* the keys of SessionRegistry._sessions
          idle,       \* ticks since last_touched of each entry
          rows,       \* status in the sessions table
          opening,    \* the create request of each session id
          ending,     \* the end_session threads of each session
          turns,      \* handle_turn threads running on each session
          chat,       \* the client's side: its callbacks and session_id
          restarts,   \* restarts of the server so far
          unasked     \* ticks since a request on the session was accepted

server == <<registry, idle, rows, opening, ending, turns>>
vars == <<server, chat, restarts, unasked>>

\* Where a create request is: in start_session's thread, back in the coroutine
\* before the put, or over.
OpeningPoints == {"none", "insert", "put", "over"}

\* opening: the chat that waits for the answer, whether its on_message does,
\* and the server process that serves the request.
Opening == [pc : OpeningPoints, chat : Chats \cup {NoChat}, message : BOOLEAN,
            boot : Nat]

\* How many end_session calls of a session are in threads, have closed the row,
\* and have raised or died with the process.
Ending == [running : Nat, closed : Nat, failed : Nat]

NoEnding == [running |-> 0, closed |-> 0, failed |-> 0]

\* on_message: idle, waiting for its own on_start, its turn posted, or reading
\* the answer.
MessagePoints == {"none", "start", "post", "answer"}

\* session is user_session's session_id, target the copy on_message took of it,
\* delete the session_id an on_end is about to delete; told is set while the
\* last answer from the server was a 404, shown as "Please try again."
Chat == [connected : BOOLEAN, session : Sessions \cup {NoSession},
         message : MessagePoints, target : Sessions \cup {NoSession},
         delete : Sessions \cup {NoSession}, told : BOOLEAN]

NewChat == [connected |-> FALSE, session |-> NoSession, message |-> "none",
            target |-> NoSession, delete |-> NoSession, told |-> FALSE]

NoOpening == [pc |-> "none", chat |-> NoChat, message |-> FALSE, boot |-> 0]

\* A chat that no on_start has run for yet.
Fresh(c) == chat[c] = NewChat /\ \A s \in Sessions : opening[s].chat # c

Answering(s) == {c \in Chats : chat[c].message = "answer" /\ chat[c].target = s}

-----------------------------------------------------------------------------
(* The registry; Mutant marks a planted defect. *)

Older(ticks) == IF ticks > TTL THEN ticks ELSE ticks + 1

\* Mutant: get does not touch the entry.
TouchedMutant(s) == idle

\* get: the entry found is touched.
Touched(s) == [idle EXCEPT ![s] = 0]

\* Mutant: entries whose row is still active are kept.
ExpiredActiveMutant(s) == idle[s] > TTL /\ rows[s] # "active"

Expired(s) == idle[s] > TTL

-----------------------------------------------------------------------------

Init ==
  /\ registry = {}
  /\ idle     = [s \in Sessions |-> 0]
  /\ rows     = [s \in Sessions |-> "none"]
  /\ opening  = [s \in Sessions |-> NoOpening]
  /\ ending   = [s \in Sessions |-> NoEnding]
  /\ turns    = [s \in Sessions |-> 0]
  /\ chat     = [c \in Chats |-> NewChat]
  /\ restarts = 0
  /\ unasked  = [s \in Sessions |-> 0]

(* The client. *)

\* POST /sessions from on_start; the id is a fresh uuid.
RequestSession(c, s, message) ==
  /\ opening[s].pc = "none"
  /\ opening' = [opening EXCEPT ![s] = [pc |-> "insert", chat |-> c,
                                        message |-> message, boot |-> restarts]]
  /\ UNCHANGED <<registry, idle, rows, ending, turns, restarts, unasked>>

\* on_chat_start.
ChatStarts(c, s) ==
  /\ Fresh(c)
  /\ RequestSession(c, s, FALSE)
  /\ chat' = [chat EXCEPT ![c].connected = TRUE]

\* on_message in a chat that has no session_id, because its on_start failed or
\* has not been answered yet: it runs on_start itself.
MessageStarts(c, s) ==
  /\ chat[c].connected
  /\ chat[c].message = "none"
  /\ chat[c].session = NoSession
  /\ RequestSession(c, s, TRUE)
  /\ chat' = [chat EXCEPT ![c].message = "start"]

\* on_message posts a turn to the session_id the chat has.
SendMessage(c) ==
  /\ chat[c].connected
  /\ chat[c].message = "none"
  /\ chat[c].session # NoSession
  /\ chat' = [chat EXCEPT ![c].message = "post", ![c].target = chat[c].session]
  /\ UNCHANGED <<server, restarts, unasked>>

\* The request times out or its connection fails: the server, if it has the
\* request already, carries on.
GiveUpMessage(c) ==
  /\ chat[c].message \in {"post", "answer"}
  /\ chat' = [chat EXCEPT ![c].message = "none", ![c].target = NoSession]
  /\ UNCHANGED <<server, restarts, unasked>>

\* The client gives up on a create request: on_start raises, and with it the
\* on_message that ran it.
GiveUpStart(s) ==
  LET c == opening[s].chat IN
  /\ c # NoChat
  /\ opening' = [opening EXCEPT ![s].chat = NoChat, ![s].message = FALSE]
  /\ chat' = IF opening[s].message
             THEN [chat EXCEPT ![c].message = "none"] ELSE chat
  /\ UNCHANGED <<registry, idle, rows, ending, turns, restarts, unasked>>

\* The chat's connection is lost or closed: on_end deletes the session it has
\* and leaves session_id as it is.
ChatEnds(c) ==
  /\ chat[c].connected
  /\ chat[c].delete = NoSession
  /\ chat' = [chat EXCEPT ![c].connected = FALSE, ![c].delete = chat[c].session]
  /\ UNCHANGED <<server, restarts, unasked>>

\* Chainlit restores a chat whose connection comes back, without on_chat_start.
ChatResumes(c) ==
  /\ ~chat[c].connected
  /\ ~Fresh(c)
  /\ chat' = [chat EXCEPT ![c].connected = TRUE]
  /\ UNCHANGED <<server, restarts, unasked>>

\* The DELETE never reaches the server; on_end swallows the exception.
DeleteLost(c) ==
  /\ chat[c].delete # NoSession
  /\ chat' = [chat EXCEPT ![c].delete = NoSession]
  /\ UNCHANGED <<server, restarts, unasked>>

(* The server. *)

\* start_session commits the row (Orchestrator.start_session, create_session).
InsertRow(s) ==
  /\ opening[s].pc = "insert"
  /\ rows' = [rows EXCEPT ![s] = "active"]
  /\ opening' = [opening EXCEPT ![s].pc = "put"]
  /\ UNCHANGED <<registry, idle, ending, turns, chat, restarts, unasked>>

\* A create request is over without a session: on_start raises in the client.
Refused(s) ==
  LET c == opening[s].chat IN
  /\ opening' = [opening EXCEPT ![s].pc = "over", ![s].chat = NoChat,
                                ![s].message = FALSE]
  /\ chat' = IF opening[s].message
             THEN [chat EXCEPT ![c].message = "none"] ELSE chat

\* get_student_context or create_session raises.
InsertFails(s) ==
  /\ opening[s].pc = "insert"
  /\ Refused(s)
  /\ UNCHANGED <<registry, idle, rows, ending, turns, restarts, unasked>>

\* The coroutine puts the state and answers; a client still waiting sets its
\* session_id, and an on_message that waited goes on to post its turn.
PutSession(s) ==
  LET c == opening[s].chat IN
  /\ opening[s].pc = "put"
  /\ registry' = registry \cup {s}
  /\ idle' = [idle EXCEPT ![s] = 0]
  /\ unasked' = [unasked EXCEPT ![s] = 0]
  /\ opening' = [opening EXCEPT ![s].pc = "over", ![s].chat = NoChat,
                                ![s].message = FALSE]
  /\ chat' = IF c = NoChat THEN chat
             ELSE IF opening[s].message
             THEN [chat EXCEPT ![c].session = s, ![c].message = "post",
                               ![c].target = s]
             ELSE [chat EXCEPT ![c].session = s]
  /\ UNCHANGED <<rows, ending, turns, restarts>>

\* _handle_turn: the session is found and touched, a thread runs the turn.
AcceptTurn(c) ==
  LET s == chat[c].target IN
  /\ chat[c].message = "post"
  /\ s \in registry
  /\ turns[s] < MaxTurns
  /\ idle' = Touched(s)
  /\ unasked' = [unasked EXCEPT ![s] = 0]
  /\ turns' = [turns EXCEPT ![s] = @ + 1]
  /\ chat' = [chat EXCEPT ![c].message = "answer"]
  /\ UNCHANGED <<registry, rows, opening, ending, restarts>>

\* The session is not found: 404, and the user is asked to try again.
RejectTurn(c) ==
  /\ chat[c].message = "post"
  /\ chat[c].target \notin registry
  /\ chat' = [chat EXCEPT ![c].message = "none", ![c].target = NoSession,
                          ![c].told = TRUE]
  /\ UNCHANGED <<server, restarts, unasked>>

\* handle_turn returns to the client that waits for it.
AnswerTurn(c) ==
  LET s == chat[c].target IN
  /\ chat[c].message = "answer"
  /\ turns' = [turns EXCEPT ![s] = @ - 1]
  /\ chat' = [chat EXCEPT ![c].message = "none", ![c].target = NoSession,
                          ![c].told = FALSE]
  /\ UNCHANGED <<registry, idle, rows, opening, ending, restarts, unasked>>

\* handle_turn returns and nobody waits for it any more.
TurnAbandoned(s) ==
  /\ turns[s] > Cardinality(Answering(s))
  /\ turns' = [turns EXCEPT ![s] = @ - 1]
  /\ UNCHANGED <<registry, idle, rows, opening, ending, chat, restarts, unasked>>

\* Mutant: the session is removed only when its row has been closed.
DeleteLateMutant(c) ==
  LET s == chat[c].delete IN
  /\ s \in registry
  /\ ending' = [ending EXCEPT ![s].running = @ + 1]
  /\ idle' = Touched(s)
  /\ registry' = IF rows[s] = "closed" THEN registry \ {s} ELSE registry
  /\ chat' = [chat EXCEPT ![c].delete = NoSession]
  /\ UNCHANGED <<rows, opening, turns, restarts, unasked>>

\* Mutant: the session is removed and its row is left alone.
DeleteOnlyMutant(c) ==
  LET s == chat[c].delete IN
  /\ s \in registry
  /\ registry' = registry \ {s}
  /\ chat' = [chat EXCEPT ![c].delete = NoSession]
  /\ UNCHANGED <<idle, rows, opening, ending, turns, restarts, unasked>>

\* _delete_session: get and remove before the first await, then the thread.
DeleteSession(c) ==
  LET s == chat[c].delete IN
  /\ s \in registry
  /\ registry' = registry \ {s}
  /\ ending' = [ending EXCEPT ![s].running = @ + 1]
  /\ chat' = [chat EXCEPT ![c].delete = NoSession]
  /\ UNCHANGED <<idle, rows, opening, turns, restarts, unasked>>

\* 404: on_end does not look at the answer.
RejectDelete(c) ==
  /\ chat[c].delete \in Sessions \ registry
  /\ chat' = [chat EXCEPT ![c].delete = NoSession]
  /\ UNCHANGED <<server, restarts, unasked>>

\* end_session commits; the row says closed.
CloseRow(s) ==
  /\ ending[s].running > 0
  /\ rows' = [rows EXCEPT ![s] = "closed"]
  /\ ending' = [ending EXCEPT ![s].running = @ - 1, ![s].closed = @ + 1]
  /\ UNCHANGED <<registry, idle, opening, turns, chat, restarts, unasked>>

\* end_session raises: logged, and not tried again.
CloseFails(s) ==
  /\ ending[s].running > 0
  /\ ending' = [ending EXCEPT ![s].running = @ - 1, ![s].failed = @ + 1]
  /\ UNCHANGED <<registry, idle, rows, opening, turns, chat, restarts, unasked>>

\* Time passes for every entry.
Tick ==
  /\ registry # {}
  /\ idle' = [s \in Sessions |-> IF s \in registry THEN Older(idle[s]) ELSE idle[s]]
  /\ unasked' = [s \in Sessions |->
                   IF s \in registry THEN Older(unasked[s]) ELSE unasked[s]]
  /\ UNCHANGED <<registry, rows, opening, ending, turns, chat, restarts>>

\* sweep_expired, run by run_ttl_sweep: the rows of the evicted sessions are
\* not touched.
SweepExpired ==
  /\ \E s \in registry : Expired(s)
  /\ registry' = {s \in registry : ~Expired(s)}
  /\ UNCHANGED <<idle, rows, opening, ending, turns, chat, restarts, unasked>>

\* The process dies and starts again: what it held in memory is gone, requests
\* under way fail in their clients, threads do not come back.
Restart ==
  /\ restarts < MaxRestarts
  /\ restarts' = restarts + 1
  /\ registry' = {}
  /\ turns' = [s \in Sessions |-> 0]
  /\ opening' = [s \in Sessions |->
                   IF opening[s].pc = "none" THEN NoOpening
                   ELSE [opening[s] EXCEPT !.pc = "over", !.chat = NoChat,
                                           !.message = FALSE]]
  /\ ending' = [s \in Sessions |->
                  [ending[s] EXCEPT !.running = 0,
                                    !.failed = ending[s].failed + ending[s].running]]
  /\ chat' = [c \in Chats |->
                CASE chat[c].message = "start" -> [chat[c] EXCEPT !.message = "none"]
                  [] chat[c].message = "answer" ->
                       [chat[c] EXCEPT !.message = "none", !.target = NoSession]
                  [] OTHER -> chat[c]]
  /\ UNCHANGED <<idle, rows, unasked>>

ClientNext ==
  \/ \E c \in Chats :
       \/ \E s \in Sessions : ChatStarts(c, s) \/ MessageStarts(c, s)
       \/ SendMessage(c)
       \/ GiveUpMessage(c)
       \/ ChatEnds(c)
       \/ ChatResumes(c)
       \/ DeleteLost(c)
  \/ \E s \in Sessions : GiveUpStart(s)

ServerNext ==
  \/ \E c \in Chats :
       \/ AcceptTurn(c)
       \/ RejectTurn(c)
       \/ AnswerTurn(c)
       \/ DeleteSession(c)
       \/ RejectDelete(c)
  \/ \E s \in Sessions :
       \/ InsertRow(s)
       \/ InsertFails(s)
       \/ PutSession(s)
       \/ TurnAbandoned(s)
       \/ CloseRow(s)
       \/ CloseFails(s)
  \/ Tick
  \/ SweepExpired
  \/ Restart

Next == ClientNext \/ ServerNext

\* Time passes, and the sweep runs every five minutes for as long as the
\* server is up (lifespan starts it, nothing in its loop raises).
Fairness == WF_vars(Tick) /\ WF_vars(SweepExpired)

Spec == Init /\ [][Next]_vars /\ Fairness

-----------------------------------------------------------------------------

TypeOK ==
  /\ registry \subseteq Sessions
  /\ idle     \in [Sessions -> 0 .. TTL + 1]
  /\ rows     \in [Sessions -> {"none", "active", "closed"}]
  /\ opening  \in [Sessions -> Opening]
  /\ ending   \in [Sessions -> Ending]
  /\ turns    \in [Sessions -> 0 .. MaxTurns]
  /\ chat     \in [Chats -> Chat]
  /\ restarts \in 0 .. MaxRestarts
  /\ unasked  \in [Sessions -> 0 .. TTL + 1]

\* A session that can be asked has an active row, and a turn in a thread has a
\* row: the put comes after the INSERT, the remove before the UPDATE.  This is
\* what GuardianSessions assumes of its callers.
RegisteredRowsActive ==
  \A s \in Sessions :
    /\ s \in registry => rows[s] = "active"
    /\ turns[s] > 0 => rows[s] # "none"

\* end_session is started at most once for a session, however often the chat
\* that has its id disconnects, and whether the first one is still in its thread,
\* has closed the row or has failed (student.py:186: removed before the await).
EndedAtMostOnce ==
  \A s \in Sessions : ending[s].running + ending[s].closed + ending[s].failed <= 1

\* A session leaves the registry only by its DELETE, with the process, or when
\* no request on it has been accepted for more than the TTL.
AskedSessionsKept ==
  [][\A s \in registry \ registry' :
        \/ ending'[s].running > ending[s].running
        \/ restarts' # restarts
        \/ unasked[s] > TTL]_vars

\* The process that served the create request of the session is gone.
Outlived(s) == opening[s].boot < restarts

\* A row stays active without a session to ask only if its server died, its
\* end_session raised, or it was evicted: the registry loses no session that a
\* client has deleted.
OpenRowsExplained ==
  \A s \in Sessions :
    rows[s] = "active" /\ s \notin registry =>
      \/ opening[s].pc = "put"
      \/ ending[s].running > 0 \/ ending[s].failed > 0
      \/ Outlived(s)
      \/ unasked[s] > TTL

\* "guard against clients that disconnect without calling DELETE"
\* (session_store.py:5-6): a session that is not asked again leaves the registry.
LeftSessionsEvicted ==
  \A s \in Sessions : s \in registry ~> (s \notin registry \/ unasked[s] = 0)

\* "Please try again." (app.py:254): a chat that has been told so can, its
\* session_id being one the server knows.
TryAgainPossible ==
  \A c \in Chats :
    chat[c].connected /\ chat[c].told /\ chat[c].message = "none"
      => chat[c].session \in registry

-----------------------------------------------------------------------------
(* The inductive invariant behind the safety properties: what the server has
   of a session by the point its create request has reached, and whose turn
   the threads are running. *)

\* A message that has been posted has its session.
PostedToSession ==
  \A c \in Chats : chat[c].message \in {"post", "answer"} => chat[c].target \in Sessions

\* The row comes first, then the entry; an end_session needs an entry.
RequestFirst ==
  \A s \in Sessions :
    /\ opening[s].pc \in {"none", "insert"} => rows[s] = "none"
    /\ opening[s].pc = "put" => rows[s] = "active"
    /\ opening[s].pc # "over" => s \notin registry /\ ending[s] = NoEnding
    /\ opening[s].boot <= restarts

\* An entry is of a session that has not been deleted, and is touched exactly
\* when a request on it is accepted.
EntriesLive ==
  \A s \in registry : ending[s] = NoEnding /\ idle[s] = unasked[s]

\* Each client that waits for an answer has a thread at work for it.
ThreadsCounted ==
  \A s \in Sessions :
    IsFiniteSet(Answering(s)) /\ Cardinality(Answering(s)) <= turns[s]

LifecycleInv ==
  /\ TypeOK
  /\ PostedToSession
  /\ RequestFirst
  /\ EntriesLive
  /\ ThreadsCounted
  /\ RegisteredRowsActive
  /\ EndedAtMostOnce
  /\ OpenRowsExplained

=============================================================================
