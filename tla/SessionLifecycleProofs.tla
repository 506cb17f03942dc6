----------------------- MODULE SessionLifecycleProofs -----------------------
(***************************************************************************)
(* What holds of SessionLifecycle for any number of chats and sessions,    *)
(* any TTL and any number of restarts, whenever clients give up, lose      *)
(* their connection and come back, and however the coroutines and threads  *)
(* of the server interleave with the sweep and with its crashes.           *)
(***************************************************************************)
EXTENDS SessionLifecycle, FiniteSetTheorems, TLAPS

-----------------------------------------------------------------------------
(***************************************************************************)
(* The clients.                                                            *)
(***************************************************************************)

\* Chats keep to their sessions, and no more of them wait for an answer.
LEMMA ChatsMove ==
  ASSUME chat' \in [Chats -> Chat],
         \A d \in Chats :
           /\ chat'[d].message \in {"post", "answer"} => chat'[d].target \in Sessions
           /\ chat'[d].message = "answer" =>
                chat[d].message = "answer" /\ chat'[d].target = chat[d].target
  PROVE  /\ PostedToSession'
         /\ \A s : Answering(s)' \subseteq Answering(s)
BY DEF PostedToSession, Answering

\* One chat moves to the state st.
LEMMA OneChatMoves ==
  ASSUME chat \in [Chats -> Chat], PostedToSession, NEW c \in Chats, NEW st \in Chat,
         chat' = [chat EXCEPT ![c] = st],
         st.message \in {"post", "answer"} => st.target \in Sessions,
         st.message = "answer" => chat[c].message = "answer" /\ st.target = chat[c].target
  PROVE  /\ chat' \in [Chats -> Chat]
         /\ PostedToSession'
         /\ \A s : Answering(s)' \subseteq Answering(s)
<1>1. chat' \in [Chats -> Chat]
  OBVIOUS
<1>2. ASSUME NEW d \in Chats
      PROVE  /\ chat'[d].message \in {"post", "answer"} => chat'[d].target \in Sessions
             /\ chat'[d].message = "answer" =>
                  chat[d].message = "answer" /\ chat'[d].target = chat[d].target
  <2>1. CASE d = c
    BY <2>1
  <2>2. CASE d # c
    BY <2>2 DEF PostedToSession
  <2>3. QED
    BY <2>1, <2>2
<1>3. QED
  BY <1>1, <1>2, ChatsMove

\* A message that a chat stops waiting for.
LEMMA MessageDropped ==
  ASSUME chat \in [Chats -> Chat], PostedToSession, NEW c,
         chat' = [chat EXCEPT ![c].message = "none"]
  PROVE  /\ chat' \in [Chats -> Chat]
         /\ PostedToSession'
         /\ \A s : Answering(s)' \subseteq Answering(s)
<1>1. CASE c \in Chats
  <2>1. PICK old \in Chat : old = chat[c]
    BY <1>1
  <2> DEFINE st == [old EXCEPT !.message = "none"]
  <2>2. chat' = [chat EXCEPT ![c] = st]
    BY <2>1
  <2>3. st \in Chat /\ st.message = "none"
    BY DEF Chat, MessagePoints
  <2> HIDE DEF st
  <2>4. QED
    BY <1>1, <2>2, <2>3, OneChatMoves
<1>2. CASE c \notin Chats
  <2>1. chat' \in [Chats -> Chat] /\ \A d \in Chats : chat'[d] = chat[d]
    BY <1>2
  <2>2. QED
    BY <2>1, ChatsMove DEF PostedToSession
<1>3. QED
  BY <1>1, <1>2

\* Fewer waiting clients and no fewer threads: the count stays sound.
LEMMA FewerAnswers ==
  ASSUME ThreadsCounted, turns \in [Sessions -> Nat],
         \A s \in Sessions : turns'[s] = turns[s],
         \A s : Answering(s)' \subseteq Answering(s)
  PROVE  ThreadsCounted'
<1>1. ASSUME NEW s \in Sessions
      PROVE  IsFiniteSet(Answering(s)') /\ Cardinality(Answering(s)') <= turns'[s]
  <2>1. IsFiniteSet(Answering(s)) /\ Cardinality(Answering(s)) <= turns[s]
    BY DEF ThreadsCounted
  <2>2. /\ IsFiniteSet(Answering(s)')
        /\ Cardinality(Answering(s)') <= Cardinality(Answering(s))
    BY <2>1, FS_Subset
  <2>3. Cardinality(Answering(s)) \in Nat /\ Cardinality(Answering(s)') \in Nat
    BY <2>1, <2>2, FS_CardinalityType
  <2>4. QED
    BY <2>1, <2>2, <2>3
<1>2. QED
  BY <1>1 DEF ThreadsCounted

\* A step of the client that the server does not see.
LEMMA ClientStepKeepsInv ==
  ASSUME LifecycleInv, UNCHANGED <<server, restarts, unasked>>,
         chat' \in [Chats -> Chat], PostedToSession',
         \A s : Answering(s)' \subseteq Answering(s)
  PROVE  LifecycleInv'
<1>1. UNCHANGED <<registry, idle, rows, opening, ending, turns, restarts, unasked>>
  BY DEF server
<1>2. ThreadsCounted'
  BY <1>1, FewerAnswers DEF LifecycleInv, TypeOK
<1>3. QED
  BY <1>1, <1>2 DEF LifecycleInv, TypeOK, RequestFirst, EntriesLive, RegisteredRowsActive,
     EndedAtMostOnce, OpenRowsExplained, Outlived

LEMMA ClientKeepsInv ==
  ASSUME LifecycleInv, NEW c \in Chats,
         \/ SendMessage(c) \/ GiveUpMessage(c) \/ ChatEnds(c) \/ ChatResumes(c)
         \/ DeleteLost(c) \/ RejectTurn(c) \/ RejectDelete(c)
  PROVE  LifecycleInv'
<1>1. PICK old \in Chat : old = chat[c]
  BY DEF LifecycleInv, TypeOK
<1>2. /\ chat \in [Chats -> Chat]
      /\ PostedToSession
      /\ old.message \in {"post", "answer"} => old.target \in Sessions
  BY <1>1 DEF LifecycleInv, TypeOK, PostedToSession
<1>3. UNCHANGED <<server, restarts, unasked>>
  BY DEF SendMessage, GiveUpMessage, ChatEnds, ChatResumes, DeleteLost, RejectTurn, RejectDelete
<1>4. ASSUME NEW st \in Chat,
             chat' = [chat EXCEPT ![c] = st],
             st.message \in {"post", "answer"} => st.target \in Sessions,
             st.message = "answer" => old.message = "answer" /\ st.target = old.target
      PROVE  LifecycleInv'
  BY <1>1, <1>2, <1>3, <1>4, OneChatMoves, ClientStepKeepsInv
<1>5. CASE SendMessage(c)
  <2> DEFINE st == [old EXCEPT !.message = "post", !.target = old.session]
  <2>1. chat' = [chat EXCEPT ![c] = st] /\ old.session # NoSession
    BY <1>1, <1>5 DEF SendMessage
  <2>2. st \in Chat /\ st.message = "post" /\ st.target \in Sessions
    BY <2>1 DEF Chat, MessagePoints
  <2> HIDE DEF st
  <2>3. QED
    BY <1>4, <2>1, <2>2
<1>6. CASE GiveUpMessage(c)
  <2> DEFINE st == [old EXCEPT !.message = "none", !.target = NoSession]
  <2>1. chat' = [chat EXCEPT ![c] = st]
    BY <1>1, <1>6 DEF GiveUpMessage
  <2>2. st \in Chat /\ st.message = "none"
    BY DEF Chat, MessagePoints
  <2> HIDE DEF st
  <2>3. QED
    BY <1>4, <2>1, <2>2
<1>7. CASE ChatEnds(c)
  <2> DEFINE st == [old EXCEPT !.connected = FALSE, !.delete = old.session]
  <2>1. chat' = [chat EXCEPT ![c] = st]
    BY <1>1, <1>7 DEF ChatEnds
  <2>2. st \in Chat /\ st.message = old.message /\ st.target = old.target
    BY DEF Chat
  <2> HIDE DEF st
  <2>3. QED
    BY <1>2, <1>4, <2>1, <2>2
<1>8. CASE ChatResumes(c)
  <2> DEFINE st == [old EXCEPT !.connected = TRUE]
  <2>1. chat' = [chat EXCEPT ![c] = st]
    BY <1>1, <1>8 DEF ChatResumes
  <2>2. st \in Chat /\ st.message = old.message /\ st.target = old.target
    BY DEF Chat
  <2> HIDE DEF st
  <2>3. QED
    BY <1>2, <1>4, <2>1, <2>2
<1>9. CASE DeleteLost(c) \/ RejectDelete(c)
  <2> DEFINE st == [old EXCEPT !.delete = NoSession]
  <2>1. chat' = [chat EXCEPT ![c] = st]
    BY <1>1, <1>9 DEF DeleteLost, RejectDelete
  <2>2. st \in Chat /\ st.message = old.message /\ st.target = old.target
    BY DEF Chat
  <2> HIDE DEF st
  <2>3. QED
    BY <1>2, <1>4, <2>1, <2>2
<1>10. CASE RejectTurn(c)
  <2> DEFINE st == [old EXCEPT !.message = "none", !.target = NoSession, !.told = TRUE]
  <2>1. chat' = [chat EXCEPT ![c] = st]
    BY <1>1, <1>10 DEF RejectTurn
  <2>2. st \in Chat /\ st.message = "none"
    BY DEF Chat, MessagePoints
  <2> HIDE DEF st
  <2>3. QED
    BY <1>4, <2>1, <2>2
<1>11. QED
  BY <1>5, <1>6, <1>7, <1>8, <1>9, <1>10

-----------------------------------------------------------------------------
(***************************************************************************)
(* The server.                                                             *)
(***************************************************************************)

\* What the invariant says of one session, given what the server has of it:
\* the registry, the session's row, create request, end, turns and clocks, and
\* the number of restarts.
Sound(s, reg, row, op, end, n, ticks, waited, boots) ==
  /\ op.pc \in {"none", "insert"} => row = "none"
  /\ op.pc = "put" => row = "active"
  /\ op.pc # "over" => s \notin reg /\ end = NoEnding
  /\ op.boot <= boots
  /\ s \in reg => end = NoEnding /\ ticks = waited /\ row = "active"
  /\ n > 0 => row # "none"
  /\ end.running + end.closed + end.failed <= 1
  /\ row = "active" /\ s \notin reg =>
       \/ op.pc = "put"
       \/ end.running > 0 \/ end.failed > 0
       \/ op.boot < boots
       \/ waited > TTL

SessionsSound ==
  \A s \in Sessions :
    Sound(s, registry, rows[s], opening[s], ending[s], turns[s], idle[s], unasked[s], restarts)

LEMMA InvBySession ==
  /\ LifecycleInv => TypeOK /\ PostedToSession /\ ThreadsCounted /\ SessionsSound
  /\ TypeOK' /\ PostedToSession' /\ ThreadsCounted' /\ SessionsSound' => LifecycleInv'
BY DEF LifecycleInv, TypeOK, RequestFirst, EntriesLive, RegisteredRowsActive, EndedAtMostOnce,
   OpenRowsExplained, Outlived, SessionsSound, Sound

\* The three counters of a session's ends.
LEMMA EndingCounters ==
  ASSUME NEW end \in Ending
  PROVE  \E r, c, f \in Nat : end = [running |-> r, closed |-> c, failed |-> f]
BY DEF Ending

LEMMA SameEnding ==
  ASSUME NEW x \in Ending, NEW y \in Ending,
         x.running = y.running, x.closed = y.closed, x.failed = y.failed
  PROVE  x = y
BY DEF Ending

\* What is left of the running ends of a session, once they are closed or failed.
ClosedEnds(end, n, m) == [end EXCEPT !.running = n, !.closed = m]
FailedEnds(end, n, m) == [end EXCEPT !.running = n, !.failed = m]

LEMMA EndingMoves ==
  ASSUME NEW r \in Nat, NEW c \in Nat, NEW f \in Nat,
         NEW end, end = [running |-> r, closed |-> c, failed |-> f],
         NEW n \in Nat, NEW m \in Nat
  PROVE  /\ ClosedEnds(end, n, m) = [running |-> n, closed |-> m, failed |-> f]
         /\ FailedEnds(end, n, m) = [running |-> n, closed |-> c, failed |-> m]
<1> DEFINE closed == [end EXCEPT !.running = n, !.closed = m]
           failed == [end EXCEPT !.running = n, !.failed = m]
           closedTo == [running |-> n, closed |-> m, failed |-> f]
           failedTo == [running |-> n, closed |-> c, failed |-> m]
<1>1. end \in Ending /\ end.running = r /\ end.closed = c /\ end.failed = f
  BY DEF Ending
<1>2. closed \in Ending /\ failed \in Ending /\ closedTo \in Ending /\ failedTo \in Ending
  BY <1>1 DEF Ending
<1>3. /\ closed.running = n /\ closed.closed = m /\ closed.failed = f
      /\ failed.running = n /\ failed.closed = c /\ failed.failed = m
  BY <1>1 DEF Ending
<1>4. /\ closedTo.running = n /\ closedTo.closed = m /\ closedTo.failed = f
      /\ failedTo.running = n /\ failedTo.closed = c /\ failedTo.failed = m
  OBVIOUS
<1> HIDE DEF closed, failed, closedTo, failedTo
<1>5. closed = closedTo /\ failed = failedTo
  BY <1>2, <1>3, <1>4, SameEnding
<1>6. QED
  BY <1>5 DEF closed, failed, closedTo, failedTo, ClosedEnds, FailedEnds

\* The create request of a session moves to the point st.
LEMMA OpeningMoves ==
  ASSUME opening \in [Sessions -> Opening], NEW s \in Sessions, NEW st \in Opening,
         opening' = [opening EXCEPT ![s] = st]
  PROVE  /\ opening' \in [Sessions -> Opening]
         /\ opening'[s] = st
         /\ \A r \in Sessions : r # s => opening'[r] = opening[r]
OBVIOUS

\* A fresh id: the server has nothing of it yet.
LEMMA RequestKeepsInv ==
  ASSUME LifecycleInv, NEW c \in Chats, NEW s \in Sessions,
         ChatStarts(c, s) \/ MessageStarts(c, s)
  PROVE  LifecycleInv'
<1>1. TypeOK /\ PostedToSession /\ ThreadsCounted /\ SessionsSound
  BY InvBySession
<1>2. PICK old \in Chat : old = chat[c]
  BY <1>1 DEF TypeOK
<1>3. PICK b \in BOOLEAN : RequestSession(c, s, b)
  BY DEF ChatStarts, MessageStarts
<1> DEFINE st == [pc |-> "insert", chat |-> c, message |-> b, boot |-> restarts]
<1>4. /\ st \in Opening
      /\ opening[s].pc = "none"
      /\ opening' = [opening EXCEPT ![s] = st]
      /\ UNCHANGED <<registry, idle, rows, ending, turns, restarts, unasked>>
  BY <1>1, <1>3 DEF RequestSession, Opening, OpeningPoints, TypeOK
<1>5. st.pc = "insert" /\ st.boot = restarts
  OBVIOUS
<1> HIDE DEF st
<1>6. /\ opening' \in [Sessions -> Opening]
      /\ opening'[s] = st
      /\ \A r \in Sessions : r # s => opening'[r] = opening[r]
  BY <1>1, <1>4, OpeningMoves DEF TypeOK
<1>7. /\ chat' \in [Chats -> Chat]
      /\ PostedToSession'
      /\ \A r : Answering(r)' \subseteq Answering(r)
  <2>1. CASE ChatStarts(c, s)
    <3> DEFINE new == [old EXCEPT !.connected = TRUE]
    <3>1. chat' = [chat EXCEPT ![c] = new]
      BY <1>2, <2>1 DEF ChatStarts
    <3>2. new \in Chat /\ new.message = old.message /\ new.target = old.target
      BY DEF Chat
    <3> HIDE DEF new
    <3>3. QED
      BY <1>1, <1>2, <3>1, <3>2, OneChatMoves DEF TypeOK, PostedToSession
  <2>2. CASE MessageStarts(c, s)
    <3> DEFINE new == [old EXCEPT !.message = "start"]
    <3>1. chat' = [chat EXCEPT ![c] = new]
      BY <1>2, <2>2 DEF MessageStarts
    <3>2. new \in Chat /\ new.message = "start"
      BY DEF Chat, MessagePoints
    <3> HIDE DEF new
    <3>3. QED
      BY <1>1, <1>2, <3>1, <3>2, OneChatMoves DEF TypeOK
  <2>3. QED
    BY <2>1, <2>2
<1>8. TypeOK' /\ ThreadsCounted'
  <2>1. TypeOK'
    BY <1>1, <1>4, <1>6, <1>7 DEF TypeOK
  <2>2. turns \in [Sessions -> Nat] /\ \A r \in Sessions : turns'[r] = turns[r]
    BY <1>1, <1>4 DEF TypeOK
  <2>3. QED
    BY <1>1, <1>7, <2>1, <2>2, FewerAnswers
<1>9. SessionsSound'
  BY <1>1, <1>4, <1>5, <1>6 DEF SessionsSound, Sound, TypeOK
<1>10. QED
  BY <1>7, <1>8, <1>9, InvBySession

\* The client gives up: the request itself goes on.
LEMMA GiveUpStartKeepsInv ==
  ASSUME LifecycleInv, NEW s \in Sessions, GiveUpStart(s)
  PROVE  LifecycleInv'
<1>1. TypeOK /\ PostedToSession /\ ThreadsCounted /\ SessionsSound
  BY InvBySession
<1>2. PICK old \in Opening : old = opening[s]
  BY <1>1 DEF TypeOK
<1> DEFINE st == [old EXCEPT !.chat = NoChat, !.message = FALSE]
<1>3. /\ opening' = [opening EXCEPT ![s] = st]
      /\ UNCHANGED <<registry, idle, rows, ending, turns, restarts, unasked>>
  BY <1>2 DEF GiveUpStart
<1>4. st \in Opening /\ st.pc = old.pc /\ st.boot = old.boot
  BY DEF Opening
<1> HIDE DEF st
<1>5. /\ opening' \in [Sessions -> Opening]
      /\ opening'[s] = st
      /\ \A r \in Sessions : r # s => opening'[r] = opening[r]
  BY <1>1, <1>3, <1>4, OpeningMoves DEF TypeOK
<1>6. /\ chat' \in [Chats -> Chat]
      /\ PostedToSession'
      /\ \A r : Answering(r)' \subseteq Answering(r)
  <2>1. CASE opening[s].message
    BY <1>1, <2>1, MessageDropped DEF GiveUpStart, TypeOK
  <2>2. CASE ~opening[s].message
    <3>1. chat' = chat
      BY <2>2 DEF GiveUpStart
    <3>2. QED
      BY <1>1, <3>1 DEF TypeOK, PostedToSession, Answering
  <2>3. QED
    BY <2>1, <2>2
<1>7. TypeOK' /\ ThreadsCounted'
  <2>1. TypeOK'
    BY <1>1, <1>3, <1>5, <1>6 DEF TypeOK
  <2>2. turns \in [Sessions -> Nat] /\ \A r \in Sessions : turns'[r] = turns[r]
    BY <1>1, <1>3 DEF TypeOK
  <2>3. QED
    BY <1>1, <1>6, <2>1, <2>2, FewerAnswers
<1>8. SessionsSound'
  BY <1>1, <1>2, <1>3, <1>4, <1>5 DEF SessionsSound, Sound
<1>9. QED
  BY <1>6, <1>7, <1>8, InvBySession

\* The row is there before the entry.
LEMMA InsertRowKeepsInv ==
  ASSUME LifecycleInv, NEW s \in Sessions, InsertRow(s)
  PROVE  LifecycleInv'
<1>1. TypeOK /\ PostedToSession /\ ThreadsCounted /\ SessionsSound
  BY InvBySession
<1>2. PICK old \in Opening : old = opening[s]
  BY <1>1 DEF TypeOK
<1> DEFINE st == [old EXCEPT !.pc = "put"]
<1>3. /\ old.pc = "insert"
      /\ opening' = [opening EXCEPT ![s] = st]
      /\ rows' = [rows EXCEPT ![s] = "active"]
      /\ UNCHANGED <<registry, idle, ending, turns, chat, restarts, unasked>>
  BY <1>2 DEF InsertRow
<1>4. st \in Opening /\ st.pc = "put" /\ st.boot = old.boot
  BY DEF Opening, OpeningPoints
<1> HIDE DEF st
<1>5. /\ opening' \in [Sessions -> Opening]
      /\ opening'[s] = st
      /\ \A r \in Sessions : r # s => opening'[r] = opening[r]
  BY <1>1, <1>3, <1>4, OpeningMoves DEF TypeOK
<1>6. /\ rows' \in [Sessions -> {"none", "active", "closed"}]
      /\ rows'[s] = "active"
      /\ \A r \in Sessions : r # s => rows'[r] = rows[r]
  BY <1>1, <1>3 DEF TypeOK
<1>7. TypeOK' /\ PostedToSession' /\ ThreadsCounted'
  BY <1>1, <1>3, <1>5, <1>6 DEF TypeOK, PostedToSession, ThreadsCounted, Answering
<1>8. SessionsSound'
  BY <1>1, <1>2, <1>3, <1>4, <1>5, <1>6 DEF SessionsSound, Sound
<1>9. QED
  BY <1>7, <1>8, InvBySession

\* A request that fails leaves no row.
LEMMA InsertFailsKeepsInv ==
  ASSUME LifecycleInv, NEW s \in Sessions, InsertFails(s)
  PROVE  LifecycleInv'
<1>1. TypeOK /\ PostedToSession /\ ThreadsCounted /\ SessionsSound
  BY InvBySession
<1>2. PICK old \in Opening : old = opening[s]
  BY <1>1 DEF TypeOK
<1> DEFINE st == [old EXCEPT !.pc = "over", !.chat = NoChat, !.message = FALSE]
<1>3. /\ old.pc = "insert"
      /\ opening' = [opening EXCEPT ![s] = st]
      /\ UNCHANGED <<registry, idle, rows, ending, turns, restarts, unasked>>
  BY <1>2 DEF InsertFails, Refused
<1>4. st \in Opening /\ st.pc = "over" /\ st.boot = old.boot
  BY DEF Opening, OpeningPoints
<1> HIDE DEF st
<1>5. /\ opening' \in [Sessions -> Opening]
      /\ opening'[s] = st
      /\ \A r \in Sessions : r # s => opening'[r] = opening[r]
  BY <1>1, <1>3, <1>4, OpeningMoves DEF TypeOK
<1>6. /\ chat' \in [Chats -> Chat]
      /\ PostedToSession'
      /\ \A r : Answering(r)' \subseteq Answering(r)
  <2>1. CASE opening[s].message
    BY <1>1, <2>1, MessageDropped DEF InsertFails, Refused, TypeOK
  <2>2. CASE ~opening[s].message
    <3>1. chat' = chat
      BY <2>2 DEF InsertFails, Refused
    <3>2. QED
      BY <1>1, <3>1 DEF TypeOK, PostedToSession, Answering
  <2>3. QED
    BY <2>1, <2>2
<1>7. TypeOK' /\ ThreadsCounted'
  <2>1. TypeOK'
    BY <1>1, <1>3, <1>5, <1>6 DEF TypeOK
  <2>2. turns \in [Sessions -> Nat] /\ \A r \in Sessions : turns'[r] = turns[r]
    BY <1>1, <1>3 DEF TypeOK
  <2>3. QED
    BY <1>1, <1>6, <2>1, <2>2, FewerAnswers
<1>8. SessionsSound'
  BY <1>1, <1>2, <1>3, <1>4, <1>5 DEF SessionsSound, Sound
<1>9. QED
  BY <1>6, <1>7, <1>8, InvBySession

\* The entry of a new session starts with both clocks at zero.
LEMMA PutSessionKeepsInv ==
  ASSUME LifecycleInv, NEW s \in Sessions, PutSession(s)
  PROVE  LifecycleInv'
<1>1. TypeOK /\ PostedToSession /\ ThreadsCounted /\ SessionsSound
  BY InvBySession
<1>2. PICK old \in Opening : old = opening[s]
  BY <1>1 DEF TypeOK
<1> DEFINE st == [old EXCEPT !.pc = "over", !.chat = NoChat, !.message = FALSE]
<1>3. /\ old.pc = "put"
      /\ opening' = [opening EXCEPT ![s] = st]
      /\ registry' = registry \cup {s}
      /\ idle' = [idle EXCEPT ![s] = 0]
      /\ unasked' = [unasked EXCEPT ![s] = 0]
      /\ UNCHANGED <<rows, ending, turns, restarts>>
  BY <1>2 DEF PutSession
<1>4. st \in Opening /\ st.pc = "over" /\ st.boot = old.boot
  BY DEF Opening, OpeningPoints
<1> HIDE DEF st
<1>5. /\ opening' \in [Sessions -> Opening]
      /\ opening'[s] = st
      /\ \A r \in Sessions : r # s => opening'[r] = opening[r]
  BY <1>1, <1>3, <1>4, OpeningMoves DEF TypeOK
<1>6. /\ idle' \in [Sessions -> 0 .. TTL + 1]
      /\ unasked' \in [Sessions -> 0 .. TTL + 1]
      /\ idle'[s] = 0 /\ unasked'[s] = 0
      /\ \A r \in Sessions : r # s => idle'[r] = idle[r] /\ unasked'[r] = unasked[r]
  BY <1>1, <1>3, LifecycleAssumption DEF TypeOK
<1>7. /\ chat' \in [Chats -> Chat]
      /\ PostedToSession'
      /\ \A r : Answering(r)' \subseteq Answering(r)
  <2>1. CASE old.chat = NoChat
    <3>1. chat' = chat
      BY <1>2, <2>1 DEF PutSession
    <3>2. QED
      BY <1>1, <3>1 DEF TypeOK, PostedToSession, Answering
  <2>2. CASE old.chat # NoChat
    <3>1. PICK c \in Chats : c = old.chat
      BY <2>2 DEF Opening
    <3>2. PICK was \in Chat : was = chat[c]
      BY <1>1 DEF TypeOK
    <3>3. CASE old.message
      <4> DEFINE new == [was EXCEPT !.session = s, !.message = "post", !.target = s]
      <4>1. chat' = [chat EXCEPT ![c] = new]
        BY <1>2, <2>2, <3>1, <3>2, <3>3 DEF PutSession
      <4>2. new \in Chat /\ new.message = "post" /\ new.target = s
        BY DEF Chat, MessagePoints
      <4> HIDE DEF new
      <4>3. QED
        BY <1>1, <4>1, <4>2, OneChatMoves DEF TypeOK
    <3>4. CASE ~old.message
      <4> DEFINE new == [was EXCEPT !.session = s]
      <4>1. chat' = [chat EXCEPT ![c] = new]
        BY <1>2, <2>2, <3>1, <3>2, <3>4 DEF PutSession
      <4>2. new \in Chat /\ new.message = was.message /\ new.target = was.target
        BY DEF Chat
      <4> HIDE DEF new
      <4>3. QED
        BY <1>1, <3>2, <4>1, <4>2, OneChatMoves DEF TypeOK, PostedToSession
    <3>5. QED
      BY <3>3, <3>4
  <2>3. QED
    BY <2>1, <2>2
<1>8. TypeOK' /\ ThreadsCounted'
  <2>1. TypeOK'
    BY <1>1, <1>3, <1>5, <1>6, <1>7 DEF TypeOK
  <2>2. turns \in [Sessions -> Nat] /\ \A r \in Sessions : turns'[r] = turns[r]
    BY <1>1, <1>3 DEF TypeOK
  <2>3. QED
    BY <1>1, <1>7, <2>1, <2>2, FewerAnswers
<1>9. SessionsSound'
  BY <1>1, <1>2, <1>3, <1>4, <1>5, <1>6 DEF SessionsSound, Sound
<1>10. QED
  BY <1>7, <1>8, <1>9, InvBySession

\* One thread more, and one client that waits for it.
LEMMA AcceptTurnKeepsInv ==
  ASSUME LifecycleInv, NEW c \in Chats, AcceptTurn(c)
  PROVE  LifecycleInv'
<1>1. TypeOK /\ PostedToSession /\ ThreadsCounted /\ SessionsSound
  BY InvBySession
<1>2. PICK old \in Chat : old = chat[c]
  BY <1>1 DEF TypeOK
<1>3. PICK s \in Sessions : s = old.target
  BY <1>1, <1>2 DEF AcceptTurn, PostedToSession
<1> DEFINE st == [old EXCEPT !.message = "answer"]
<1>4. /\ old.message = "post"
      /\ s \in registry
      /\ turns[s] < MaxTurns
      /\ idle' = [idle EXCEPT ![s] = 0]
      /\ unasked' = [unasked EXCEPT ![s] = 0]
      /\ turns' = [turns EXCEPT ![s] = turns[s] + 1]
      /\ chat' = [chat EXCEPT ![c] = st]
      /\ UNCHANGED <<registry, rows, opening, ending, restarts>>
  BY <1>2, <1>3 DEF AcceptTurn, Touched
<1>5. st \in Chat /\ st.message = "answer" /\ st.target = s
  BY <1>3 DEF Chat, MessagePoints
<1> HIDE DEF st
<1>6. /\ idle' \in [Sessions -> 0 .. TTL + 1]
      /\ unasked' \in [Sessions -> 0 .. TTL + 1]
      /\ idle'[s] = 0 /\ unasked'[s] = 0
      /\ \A r \in Sessions : r # s => idle'[r] = idle[r] /\ unasked'[r] = unasked[r]
  BY <1>1, <1>4, LifecycleAssumption DEF TypeOK
<1>7. /\ turns' \in [Sessions -> 0 .. MaxTurns]
      /\ turns[s] \in Nat
      /\ turns'[s] = turns[s] + 1
      /\ \A r \in Sessions : r # s => turns'[r] = turns[r]
  BY <1>1, <1>4, LifecycleAssumption DEF TypeOK
<1>8. /\ chat' \in [Chats -> Chat]
      /\ chat'[c] = st
      /\ \A d \in Chats : d # c => chat'[d] = chat[d]
  BY <1>1, <1>4, <1>5 DEF TypeOK
<1>9. PostedToSession'
  BY <1>1, <1>5, <1>8 DEF PostedToSession
<1>10. ThreadsCounted'
  <2>1. Answering(s)' = Answering(s) \cup {c} /\ c \notin Answering(s)
    BY <1>2, <1>4, <1>5, <1>8 DEF Answering
  <2>2. \A r \in Sessions : r # s => Answering(r)' = Answering(r)
    BY <1>2, <1>4, <1>5, <1>8 DEF Answering
  <2>3. IsFiniteSet(Answering(s)) /\ Cardinality(Answering(s)) <= turns[s]
    BY <1>1 DEF ThreadsCounted
  <2>4. /\ IsFiniteSet(Answering(s) \cup {c})
        /\ Cardinality(Answering(s) \cup {c}) = Cardinality(Answering(s)) + 1
        /\ Cardinality(Answering(s)) \in Nat
    BY <2>1, <2>3, FS_AddElement, FS_CardinalityType
  <2>5. IsFiniteSet(Answering(s)') /\ Cardinality(Answering(s)') <= turns'[s]
    BY <1>7, <2>1, <2>3, <2>4
  <2>6. ASSUME NEW r \in Sessions
        PROVE  IsFiniteSet(Answering(r)') /\ Cardinality(Answering(r)') <= turns'[r]
    <3>1. CASE r = s
      BY <2>5, <3>1
    <3>2. CASE r # s
      BY <1>1, <1>7, <2>2, <3>2 DEF ThreadsCounted
    <3>3. QED
      BY <3>1, <3>2
  <2>7. QED
    BY <2>6 DEF ThreadsCounted
<1>11. TypeOK'
  BY <1>1, <1>4, <1>6, <1>7, <1>8 DEF TypeOK
<1>12. SessionsSound'
  <2>1. rows[s] = "active"
    BY <1>1, <1>4 DEF SessionsSound, Sound
  <2>2. QED
    BY <1>1, <1>4, <1>6, <1>7, <2>1 DEF SessionsSound, Sound
<1>13. QED
  BY <1>9, <1>10, <1>11, <1>12, InvBySession

\* A session of which a thread less is at work.
LEMMA OneThreadLess ==
  ASSUME LifecycleInv, NEW s \in Sessions, turns[s] > 0,
         turns' = [turns EXCEPT ![s] = turns[s] - 1],
         chat' \in [Chats -> Chat], PostedToSession', ThreadsCounted',
         UNCHANGED <<registry, idle, rows, opening, ending, restarts, unasked>>
  PROVE  LifecycleInv'
<1>1. TypeOK /\ PostedToSession /\ ThreadsCounted /\ SessionsSound
  BY InvBySession
<1>2. /\ turns' \in [Sessions -> 0 .. MaxTurns]
      /\ turns'[s] = turns[s] - 1
      /\ \A r \in Sessions : r # s => turns'[r] = turns[r]
  BY <1>1, LifecycleAssumption DEF TypeOK
<1>3. TypeOK'
  BY <1>1, <1>2 DEF TypeOK
<1>4. SessionsSound'
  BY <1>1, <1>2 DEF SessionsSound, Sound, TypeOK
<1>5. QED
  BY <1>3, <1>4, InvBySession

\* The client that is answered no longer waits.
LEMMA AnswerTurnKeepsInv ==
  ASSUME LifecycleInv, NEW c \in Chats, AnswerTurn(c)
  PROVE  LifecycleInv'
<1>1. TypeOK /\ PostedToSession /\ ThreadsCounted /\ SessionsSound
  BY InvBySession
<1>2. PICK old \in Chat : old = chat[c]
  BY <1>1 DEF TypeOK
<1>3. PICK s \in Sessions : s = old.target
  BY <1>1, <1>2 DEF AnswerTurn, PostedToSession
<1> DEFINE st == [old EXCEPT !.message = "none", !.target = NoSession, !.told = FALSE]
<1>4. /\ old.message = "answer"
      /\ turns' = [turns EXCEPT ![s] = turns[s] - 1]
      /\ chat' = [chat EXCEPT ![c] = st]
      /\ UNCHANGED <<registry, idle, rows, opening, ending, restarts, unasked>>
  BY <1>2, <1>3 DEF AnswerTurn
<1>5. st \in Chat /\ st.message = "none"
  BY DEF Chat, MessagePoints
<1> HIDE DEF st
<1>6. /\ chat' \in [Chats -> Chat]
      /\ PostedToSession'
      /\ chat'[c] = st
      /\ \A d \in Chats : d # c => chat'[d] = chat[d]
  BY <1>1, <1>4, <1>5, OneChatMoves DEF TypeOK
<1>7. c \in Answering(s) /\ Answering(s)' = Answering(s) \ {c}
  BY <1>2, <1>3, <1>4, <1>5, <1>6 DEF Answering
<1>8. \A r \in Sessions : r # s => Answering(r)' = Answering(r)
  BY <1>2, <1>3, <1>4, <1>5, <1>6 DEF Answering
<1>9. IsFiniteSet(Answering(s)) /\ Cardinality(Answering(s)) <= turns[s] /\ turns[s] \in Nat
  BY <1>1 DEF ThreadsCounted, TypeOK
<1>10. /\ IsFiniteSet(Answering(s) \ {c})
       /\ Cardinality(Answering(s) \ {c}) = Cardinality(Answering(s)) - 1
       /\ Cardinality(Answering(s)) \in Nat
       /\ Cardinality(Answering(s) \ {c}) \in Nat
  <2>1. IsFiniteSet(Answering(s) \ {c})
        /\ Cardinality(Answering(s) \ {c}) = Cardinality(Answering(s)) - 1
    BY <1>7, <1>9, FS_RemoveElement
  <2>2. QED
    BY <1>9, <2>1, FS_CardinalityType
<1>11. turns[s] > 0
  BY <1>9, <1>10
<1>12. ThreadsCounted'
  <2>1. turns'[s] = turns[s] - 1 /\ \A r \in Sessions : r # s => turns'[r] = turns[r]
    BY <1>1, <1>4 DEF TypeOK
  <2>2. IsFiniteSet(Answering(s)') /\ Cardinality(Answering(s)') <= turns'[s]
    BY <1>7, <1>9, <1>10, <2>1
  <2>3. ASSUME NEW r \in Sessions
        PROVE  IsFiniteSet(Answering(r)') /\ Cardinality(Answering(r)') <= turns'[r]
    <3>1. CASE r = s
      BY <2>2, <3>1
    <3>2. CASE r # s
      BY <1>1, <1>8, <2>1, <3>2 DEF ThreadsCounted
    <3>3. QED
      BY <3>1, <3>2
  <2>4. QED
    BY <2>3 DEF ThreadsCounted
<1>13. QED
  BY <1>4, <1>6, <1>11, <1>12, OneThreadLess

\* There is a thread that nobody waits for.
LEMMA TurnAbandonedKeepsInv ==
  ASSUME LifecycleInv, NEW s \in Sessions, TurnAbandoned(s)
  PROVE  LifecycleInv'
<1>1. TypeOK /\ PostedToSession /\ ThreadsCounted /\ SessionsSound
  BY InvBySession
<1>2. /\ turns[s] > Cardinality(Answering(s))
      /\ turns' = [turns EXCEPT ![s] = turns[s] - 1]
      /\ UNCHANGED <<registry, idle, rows, opening, ending, chat, restarts, unasked>>
  BY DEF TurnAbandoned
<1>3. /\ turns[s] \in Nat
      /\ turns'[s] = turns[s] - 1
      /\ \A r \in Sessions : r # s => turns'[r] = turns[r]
  BY <1>1, <1>2 DEF TypeOK
<1>4. \A r : Answering(r)' = Answering(r)
  BY <1>2 DEF Answering
<1>5. IsFiniteSet(Answering(s)) /\ Cardinality(Answering(s)) \in Nat
  BY <1>1, FS_CardinalityType DEF ThreadsCounted
<1>6. turns[s] > 0 /\ Cardinality(Answering(s)) <= turns'[s]
  BY <1>2, <1>3, <1>5
<1>7. ThreadsCounted'
  BY <1>1, <1>3, <1>4, <1>6 DEF ThreadsCounted
<1>8. chat' \in [Chats -> Chat] /\ PostedToSession'
  BY <1>1, <1>2 DEF TypeOK, PostedToSession
<1>9. QED
  BY <1>2, <1>6, <1>7, <1>8, OneThreadLess

\* The entry goes, and its end is under way.
LEMMA DeleteSessionKeepsInv ==
  ASSUME LifecycleInv, NEW c \in Chats, DeleteSession(c)
  PROVE  LifecycleInv'
<1>1. TypeOK /\ PostedToSession /\ ThreadsCounted /\ SessionsSound
  BY InvBySession
<1>2. PICK old \in Chat : old = chat[c]
  BY <1>1 DEF TypeOK
<1>3. PICK s \in Sessions : s = old.delete
  BY <1>1, <1>2 DEF DeleteSession, TypeOK
<1> DEFINE st == [old EXCEPT !.delete = NoSession]
<1>4. /\ s \in registry
      /\ registry' = registry \ {s}
      /\ ending' = [ending EXCEPT ![s].running = @ + 1]
      /\ chat' = [chat EXCEPT ![c] = st]
      /\ UNCHANGED <<idle, rows, opening, turns, restarts, unasked>>
  BY <1>2, <1>3 DEF DeleteSession
<1>5. st \in Chat /\ st.message = old.message /\ st.target = old.target
  BY DEF Chat
<1> HIDE DEF st
<1>6. /\ chat' \in [Chats -> Chat]
      /\ PostedToSession'
      /\ \A r : Answering(r)' \subseteq Answering(r)
  BY <1>1, <1>2, <1>4, <1>5, OneChatMoves DEF TypeOK, PostedToSession
<1>7. /\ ending' \in [Sessions -> Ending]
      /\ ending'[s] = [running |-> 1, closed |-> 0, failed |-> 0]
      /\ \A r \in Sessions : r # s => ending'[r] = ending[r]
  <2> DEFINE end == [running |-> 1, closed |-> 0, failed |-> 0]
  <2>1. ending[s] = NoEnding
    BY <1>1, <1>4 DEF SessionsSound, Sound
  <2>2. end \in Ending /\ [ending[s] EXCEPT !.running = ending[s].running + 1] = end
    BY <2>1 DEF Ending, NoEnding
  <2>3. ending' = [ending EXCEPT ![s] = end]
    BY <1>4, <2>2
  <2> HIDE DEF end
  <2>4. /\ ending' \in [Sessions -> Ending]
        /\ ending'[s] = end
        /\ \A r \in Sessions : r # s => ending'[r] = ending[r]
    BY <1>1, <2>2, <2>3 DEF TypeOK
  <2>5. QED
    BY <2>4 DEF end
<1>8. TypeOK'
  BY <1>1, <1>4, <1>6, <1>7 DEF TypeOK
<1>9. ThreadsCounted'
  BY <1>1, <1>4, <1>6, FewerAnswers DEF TypeOK
<1>10. SessionsSound'
  BY <1>1, <1>4, <1>7 DEF SessionsSound, Sound
<1>11. QED
  BY <1>6, <1>8, <1>9, <1>10, InvBySession

\* The row is closed, or is left as it is by an end that failed.
LEMMA CloseKeepsInv ==
  ASSUME LifecycleInv, NEW s \in Sessions, CloseRow(s) \/ CloseFails(s)
  PROVE  LifecycleInv'
<1>1. TypeOK /\ PostedToSession /\ ThreadsCounted /\ SessionsSound
  BY InvBySession
<1>2. PICK old \in Ending : old = ending[s]
  BY <1>1 DEF TypeOK
<1> DEFINE closed == [running |-> 0, closed |-> 1, failed |-> 0]
           failed == [running |-> 0, closed |-> 0, failed |-> 1]
<1>3. /\ old.running > 0
      /\ UNCHANGED <<registry, idle, opening, turns, chat, restarts, unasked>>
  BY <1>2 DEF CloseRow, CloseFails
<1>4. old.running = 1 /\ old.closed = 0 /\ old.failed = 0
  <2>1. /\ old.running \in Nat /\ old.closed \in Nat /\ old.failed \in Nat
        /\ old.running + old.closed + old.failed <= 1
    BY <1>1, <1>2 DEF SessionsSound, Sound, Ending
  <2>2. QED
    BY <1>3, <2>1
<1>5. ending[s] = [running |-> 1, closed |-> 0, failed |-> 0]
  BY <1>2, <1>4, EndingCounters
<1>6. /\ CloseRow(s) => /\ ending' = [ending EXCEPT ![s] = closed]
                        /\ rows' = [rows EXCEPT ![s] = "closed"]
      /\ CloseFails(s) => ending' = [ending EXCEPT ![s] = failed] /\ rows' = rows
  <2>1. CloseRow(s) =>
          /\ rows' = [rows EXCEPT ![s] = "closed"]
          /\ ending' = [ending EXCEPT ![s] =
                ClosedEnds(ending[s], ending[s].running - 1, ending[s].closed + 1)]
    BY DEF CloseRow, ClosedEnds
  <2>2. CloseFails(s) =>
          /\ rows' = rows
          /\ ending' = [ending EXCEPT ![s] =
                FailedEnds(ending[s], ending[s].running - 1, ending[s].failed + 1)]
    BY DEF CloseFails, FailedEnds
  <2>3. /\ ending[s].running - 1 = 0
        /\ ending[s].closed + 1 = 1
        /\ ending[s].failed + 1 = 1
    BY <1>5
  <2>4. ClosedEnds(ending[s], 0, 1) = closed /\ FailedEnds(ending[s], 0, 1) = failed
    BY <1>5, EndingMoves
  <2> HIDE DEF closed, failed
  <2>5. QED
    BY <2>1, <2>2, <2>3, <2>4
<1>7. /\ closed.running = 0 /\ closed.closed = 1 /\ closed.failed = 0
      /\ failed.running = 0 /\ failed.closed = 0 /\ failed.failed = 1
  OBVIOUS
<1>8. closed \in Ending /\ failed \in Ending
  BY DEF Ending
<1> HIDE DEF closed, failed
<1>9. /\ ending' \in [Sessions -> Ending]
      /\ rows' \in [Sessions -> {"none", "active", "closed"}]
      /\ \/ rows'[s] = "closed" /\ ending'[s] = closed
         \/ rows'[s] = rows[s] /\ ending'[s] = failed
      /\ \A r \in Sessions : r # s => ending'[r] = ending[r] /\ rows'[r] = rows[r]
  BY <1>1, <1>6, <1>8 DEF TypeOK
<1>10. TypeOK' /\ PostedToSession' /\ ThreadsCounted'
  BY <1>1, <1>3, <1>9 DEF TypeOK, PostedToSession, ThreadsCounted, Answering
<1>11. s \notin registry /\ opening[s].pc = "over"
  <2>1. old # NoEnding
    BY <1>4 DEF NoEnding
  <2>2. QED
    BY <1>1, <1>2, <2>1 DEF SessionsSound, Sound
<1>12. SessionsSound'
  BY <1>1, <1>3, <1>7, <1>9, <1>11 DEF SessionsSound, Sound
<1>13. QED
  BY <1>10, <1>12, InvBySession

\* Both clocks of an entry go on together.
LEMMA TickKeepsInv ==
  ASSUME LifecycleInv, Tick
  PROVE  LifecycleInv'
<1>1. TypeOK /\ PostedToSession /\ ThreadsCounted /\ SessionsSound
  BY InvBySession
<1>2. UNCHANGED <<registry, rows, opening, ending, turns, chat, restarts>>
  BY DEF Tick
<1>3. \A n \in 0 .. TTL + 1 : Older(n) \in 0 .. TTL + 1
  BY LifecycleAssumption DEF Older
<1>4. \A r \in Sessions :
        /\ r \in registry => idle'[r] = Older(idle[r]) /\ unasked'[r] = Older(unasked[r])
        /\ r \notin registry => idle'[r] = idle[r] /\ unasked'[r] = unasked[r]
  BY DEF Tick
<1>5. idle' \in [Sessions -> 0 .. TTL + 1] /\ unasked' \in [Sessions -> 0 .. TTL + 1]
  BY <1>1, <1>3 DEF Tick, TypeOK
<1>6. TypeOK' /\ PostedToSession' /\ ThreadsCounted'
  BY <1>1, <1>2, <1>5 DEF TypeOK, PostedToSession, ThreadsCounted, Answering
<1>7. SessionsSound'
  BY <1>1, <1>2, <1>4 DEF SessionsSound, Sound
<1>8. QED
  BY <1>6, <1>7, InvBySession

\* Who is evicted has not been asked for more than the TTL.
LEMMA SweepKeepsInv ==
  ASSUME LifecycleInv, SweepExpired
  PROVE  LifecycleInv'
<1>1. TypeOK /\ PostedToSession /\ ThreadsCounted /\ SessionsSound
  BY InvBySession
<1>2. UNCHANGED <<idle, rows, opening, ending, turns, chat, restarts, unasked>>
  BY DEF SweepExpired
<1>3. /\ registry' \subseteq registry
      /\ \A r \in registry : r \notin registry' => unasked[r] > TTL
  BY <1>1 DEF SweepExpired, Expired, SessionsSound, Sound, TypeOK
<1>4. TypeOK' /\ PostedToSession' /\ ThreadsCounted'
  BY <1>1, <1>2, <1>3 DEF TypeOK, PostedToSession, ThreadsCounted, Answering
<1>5. SessionsSound'
  BY <1>1, <1>2, <1>3 DEF SessionsSound, Sound
<1>6. QED
  BY <1>4, <1>5, InvBySession

\* A restart outlives every session that was opened before it.
LEMMA RestartKeepsInv ==
  ASSUME LifecycleInv, Restart
  PROVE  LifecycleInv'
<1>1. TypeOK /\ PostedToSession /\ ThreadsCounted /\ SessionsSound
  BY InvBySession
<1>2. /\ registry' = {}
      /\ turns' = [s \in Sessions |-> 0]
      /\ restarts \in Nat
      /\ restarts' = restarts + 1
      /\ restarts' \in 0 .. MaxRestarts
      /\ UNCHANGED <<idle, rows, unasked>>
  <2>1. restarts \in 0 .. MaxRestarts /\ MaxRestarts \in Nat
    BY <1>1, LifecycleAssumption DEF TypeOK
  <2>2. restarts < MaxRestarts /\ restarts' = restarts + 1
    BY DEF Restart
  <2>3. restarts \in Nat /\ restarts' \in 0 .. MaxRestarts
    BY <2>1, <2>2
  <2>4. QED
    BY <2>2, <2>3, Zenon DEF Restart
<1>3. ASSUME NEW s \in Sessions
      PROVE  /\ ending'[s] \in Ending
             /\ ending[s] = NoEnding => ending'[s] = NoEnding
             /\ ending'[s].running + ending'[s].closed + ending'[s].failed <= 1
             /\ ending[s].running > 0 \/ ending[s].failed > 0 => ending'[s].failed > 0
  <2>1. PICK r, c, f \in Nat : ending[s] = [running |-> r, closed |-> c, failed |-> f]
    BY <1>1, EndingCounters DEF TypeOK
  <2>2. r + c + f <= 1
    <3>1. ending[s].running + ending[s].closed + ending[s].failed <= 1
      BY <1>1 DEF SessionsSound, Sound
    <3>2. QED
      BY <2>1, <3>1
  <2> DEFINE new == [running |-> 0, closed |-> c, failed |-> f + r]
  <2>3. ending'[s] = new
    <3>1. ending'[s] = FailedEnds(ending[s], 0, ending[s].failed + ending[s].running)
      BY DEF Restart, FailedEnds
    <3>2. ending[s].failed + ending[s].running = f + r /\ f + r \in Nat
      BY <2>1
    <3>3. FailedEnds(ending[s], 0, f + r) = new
      BY <2>1, <3>2, EndingMoves
    <3> HIDE DEF new
    <3>4. QED
      BY <3>1, <3>2, <3>3
  <2>4. ending[s] = NoEnding => r = 0 /\ c = 0 /\ f = 0
    BY <2>1 DEF NoEnding
  <2>5. new \in Ending /\ (ending[s] = NoEnding => new = NoEnding)
    BY <2>4 DEF Ending, NoEnding
  <2>6. new.running + new.closed + new.failed <= 1
    BY <2>2
  <2>7. ending[s].running > 0 \/ ending[s].failed > 0 => new.failed > 0
    BY <2>1
  <2> HIDE DEF new
  <2>8. QED
    BY <2>3, <2>5, <2>6, <2>7
<1>4. ASSUME NEW s \in Sessions
      PROVE  /\ opening'[s] \in Opening
             /\ opening[s].pc = "none" => opening'[s].pc = "none" /\ opening'[s].boot = 0
             /\ opening[s].pc # "none" =>
                  opening'[s].pc = "over" /\ opening'[s].boot = opening[s].boot
  <2>1. PICK old \in Opening : old = opening[s]
    BY <1>1 DEF TypeOK
  <2> DEFINE st == [old EXCEPT !.pc = "over", !.chat = NoChat, !.message = FALSE]
  <2>2. st \in Opening /\ st.pc = "over" /\ st.boot = old.boot
    BY DEF Opening, OpeningPoints
  <2>3. /\ old.pc = "none" => opening'[s] = NoOpening
        /\ old.pc # "none" => opening'[s] = st
    BY <2>1 DEF Restart
  <2> HIDE DEF st
  <2>4. NoOpening \in Opening /\ NoOpening.pc = "none" /\ NoOpening.boot = 0
    BY DEF NoOpening, Opening, OpeningPoints
  <2>5. QED
    BY <2>1, <2>2, <2>3, <2>4
<1>5. opening' \in [Sessions -> Opening]
  BY <1>4 DEF Restart
<1>6. ASSUME NEW c \in Chats
      PROVE  /\ chat'[c] \in Chat
             /\ chat'[c].message # "answer"
             /\ chat'[c].message \in {"post", "answer"} => chat'[c].target \in Sessions
  <2>1. PICK old \in Chat : old = chat[c]
    BY <1>1 DEF TypeOK
  <2> DEFINE alone == [old EXCEPT !.message = "none"]
             lost  == [old EXCEPT !.message = "none", !.target = NoSession]
  <2>2. /\ alone \in Chat /\ alone.message = "none"
        /\ lost \in Chat /\ lost.message = "none"
    BY DEF Chat, MessagePoints
  <2>3. /\ old.message = "start" => chat'[c] = alone
        /\ old.message = "answer" => chat'[c] = lost
        /\ old.message \notin {"start", "answer"} => chat'[c] = old
    BY <2>1 DEF Restart
  <2> HIDE DEF alone, lost
  <2>4. QED
    BY <1>1, <2>1, <2>2, <2>3 DEF PostedToSession
<1>7. chat' \in [Chats -> Chat] /\ ending' \in [Sessions -> Ending]
  BY <1>3, <1>6 DEF Restart
<1>8. PostedToSession'
  BY <1>6 DEF PostedToSession
<1>9. ThreadsCounted'
  <2>1. \A s \in Sessions : Answering(s)' = {} /\ turns'[s] = 0
    BY <1>2, <1>6 DEF Answering
  <2>2. QED
    BY <2>1, FS_EmptySet DEF ThreadsCounted
<1>10. TypeOK'
  <2>1. turns' \in [Sessions -> 0 .. MaxTurns]
    BY <1>2, LifecycleAssumption
  <2>2. QED
    BY <1>1, <1>2, <1>5, <1>7, <2>1 DEF TypeOK
<1>11. SessionsSound'
  <2>1. \A s \in Sessions : turns'[s] = 0
    BY <1>2
  <2>2. \A s \in Sessions : opening[s].boot \in Nat
    BY <1>1 DEF TypeOK, Opening
  <2>3. QED
    BY <1>1, <1>2, <1>3, <1>4, <2>1, <2>2 DEF SessionsSound, Sound
<1>12. QED
  BY <1>8, <1>9, <1>10, <1>11, InvBySession

-----------------------------------------------------------------------------
(***************************************************************************)
(* The theorems.                                                           *)
(***************************************************************************)

LEMMA InitEstablishesInv == Init => LifecycleInv
<1> SUFFICES ASSUME Init PROVE LifecycleInv
  OBVIOUS
<1>1. NoOpening \in Opening /\ NewChat \in Chat
  BY DEF NoOpening, Opening, OpeningPoints, NewChat, Chat, MessagePoints
<1>2. \A c \in Chats : chat[c].message = "none"
  BY DEF Init, NewChat
<1>3. /\ \A s \in Sessions : opening[s].pc = "none" /\ opening[s].boot = 0
      /\ restarts = 0
  BY DEF Init, NoOpening
<1>4. TypeOK
  <2>1. NoEnding \in Ending
    BY DEF NoEnding, Ending
  <2>2. QED
    BY <1>1, <2>1, LifecycleAssumption DEF Init, TypeOK
<1>5. PostedToSession
  BY <1>2 DEF PostedToSession
<1>6. ThreadsCounted
  <2>1. \A s \in Sessions : Answering(s) = {} /\ turns[s] = 0
    BY <1>2 DEF Init, Answering
  <2>2. QED
    BY <2>1, FS_EmptySet DEF ThreadsCounted
<1>7. RequestFirst /\ EntriesLive /\ RegisteredRowsActive /\ OpenRowsExplained
  BY <1>3 DEF Init, RequestFirst, EntriesLive, RegisteredRowsActive, OpenRowsExplained
<1>8. EndedAtMostOnce
  BY DEF Init, NoEnding, EndedAtMostOnce
<1>9. QED
  BY <1>4, <1>5, <1>6, <1>7, <1>8 DEF LifecycleInv

LEMMA StepKeepsInv ==
  ASSUME LifecycleInv, [Next]_vars
  PROVE  LifecycleInv'
<1>1. CASE ClientNext
  <2>1. ASSUME NEW c \in Chats,
               \/ \E s \in Sessions : ChatStarts(c, s) \/ MessageStarts(c, s)
               \/ SendMessage(c) \/ GiveUpMessage(c) \/ ChatEnds(c) \/ ChatResumes(c)
               \/ DeleteLost(c)
        PROVE  LifecycleInv'
    BY <2>1, RequestKeepsInv, ClientKeepsInv
  <2>2. ASSUME NEW s \in Sessions, GiveUpStart(s)
        PROVE  LifecycleInv'
    BY <2>2, GiveUpStartKeepsInv
  <2>3. QED
    BY <1>1, <2>1, <2>2 DEF ClientNext
<1>2. CASE ServerNext
  <2>1. ASSUME NEW c \in Chats,
               \/ AcceptTurn(c) \/ RejectTurn(c) \/ AnswerTurn(c)
               \/ DeleteSession(c) \/ RejectDelete(c)
        PROVE  LifecycleInv'
    BY <2>1, AcceptTurnKeepsInv, AnswerTurnKeepsInv, DeleteSessionKeepsInv, ClientKeepsInv
  <2>2. ASSUME NEW s \in Sessions,
               \/ InsertRow(s) \/ InsertFails(s) \/ PutSession(s) \/ TurnAbandoned(s)
               \/ CloseRow(s) \/ CloseFails(s)
        PROVE  LifecycleInv'
    BY <2>2, InsertRowKeepsInv, InsertFailsKeepsInv, PutSessionKeepsInv,
       TurnAbandonedKeepsInv, CloseKeepsInv
  <2>3. CASE Tick \/ SweepExpired \/ Restart
    BY <2>3, TickKeepsInv, SweepKeepsInv, RestartKeepsInv
  <2>4. QED
    BY <1>2, <2>1, <2>2, <2>3 DEF ServerNext
<1>3. CASE UNCHANGED vars
  <2>1. UNCHANGED <<server, restarts, unasked>> /\ chat' = chat
    BY <1>3 DEF vars
  <2>2. /\ chat' \in [Chats -> Chat]
        /\ PostedToSession'
        /\ \A s : Answering(s)' \subseteq Answering(s)
    BY <2>1 DEF LifecycleInv, TypeOK, PostedToSession, Answering
  <2>3. QED
    BY <2>1, <2>2, ClientStepKeepsInv
<1>4. QED
  BY <1>1, <1>2, <1>3 DEF Next

\* The inductive invariant of the sessions of the server.
THEOREM LifecycleInvariant == Spec => []LifecycleInv
<1>1. Init => LifecycleInv
  BY InitEstablishesInv
<1>2. LifecycleInv /\ [Next]_vars => LifecycleInv'
  BY StepKeepsInv
<1>3. QED
  BY <1>1, <1>2, PTL DEF Spec

\* Whoever finds a session in the registry finds its row active, and a thread
\* never runs a turn on a session without a row: the put comes after the
\* INSERT, the remove before the UPDATE (student.py:111-112, 186-190).
THEOREM RegistryIsBacked == Spec => []RegisteredRowsActive
<1>1. LifecycleInv => RegisteredRowsActive
  BY DEF LifecycleInv
<1>2. QED
  BY <1>1, LifecycleInvariant, PTL

\* No row is left open without one of the reasons the code has for it: a death
\* of the server, a failed end_session or an eviction.
THEOREM OpenRowsAreExplained == Spec => []OpenRowsExplained
<1>1. LifecycleInv => OpenRowsExplained
  BY DEF LifecycleInv
<1>2. QED
  BY <1>1, LifecycleInvariant, PTL

\* However many chats delete a session, and however often, end_session is
\* started for it at most once, also while the first one is still in its thread
\* (student.py:186: the remove precedes the await).
THEOREM SessionsEndOnce == Spec => []EndedAtMostOnce
<1>1. LifecycleInv => EndedAtMostOnce
  BY DEF LifecycleInv
<1>2. QED
  BY <1>1, LifecycleInvariant, PTL

\* A session that is asked at least once per TTL is evicted by nobody but its
\* own DELETE or the end of the process (session_store.py: get touches, the
\* sweep compares).
THEOREM AskedSessionsStay == Spec => AskedSessionsKept
<1>1. ASSUME LifecycleInv, [Next]_vars
      PROVE  [\A s \in registry \ registry' :
                \/ ending'[s].running > ending[s].running
                \/ restarts' # restarts
                \/ unasked[s] > TTL]_vars
  <2> SUFFICES ASSUME NEW s \in registry, s \notin registry'
      PROVE  \/ ending'[s].running > ending[s].running
             \/ restarts' # restarts
             \/ unasked[s] > TTL
    OBVIOUS
  <2>1. /\ ending \in [Sessions -> Ending]
        /\ s \in Sessions
        /\ idle[s] = unasked[s]
        /\ restarts \in Nat
    <3>1. TypeOK /\ EntriesLive
      BY <1>1 DEF LifecycleInv
    <3>2. ending \in [Sessions -> Ending] /\ s \in Sessions /\ restarts \in Nat
      BY <3>1, LifecycleAssumption DEF TypeOK
    <3>3. idle[s] = unasked[s]
      BY <3>1 DEF EntriesLive
    <3>4. QED
      BY <3>2, <3>3
  <2>2. ASSUME NEW c \in Chats, DeleteSession(c)
        PROVE  ending'[s].running > ending[s].running
    <3>1. PICK old \in Ending : old = ending[s]
      BY <2>1
    <3>2. chat[c].delete = s /\ ending' = [ending EXCEPT ![s].running = @ + 1]
      BY <2>1, <2>2 DEF DeleteSession
    <3>3. ending'[s].running = old.running + 1 /\ old.running \in Nat
      BY <2>1, <3>1, <3>2 DEF Ending
    <3>4. QED
      BY <3>1, <3>3
  <2>3. SweepExpired => unasked[s] > TTL
    BY <2>1 DEF SweepExpired, Expired
  <2>4. Restart => restarts' # restarts
    <3>1. Restart => restarts' = restarts + 1
      BY Zenon DEF Restart
    <3>2. QED
      BY <2>1, <3>1
  <2>5. ~ClientNext
    BY DEF ClientNext, ChatStarts, MessageStarts, RequestSession, SendMessage, GiveUpMessage,
       ChatEnds, ChatResumes, DeleteLost, GiveUpStart, server
  <2>6. \A c \in Chats : ~(AcceptTurn(c) \/ RejectTurn(c) \/ AnswerTurn(c) \/ RejectDelete(c))
    BY DEF AcceptTurn, RejectTurn, AnswerTurn, RejectDelete, server
  <2>7. \A r \in Sessions : ~(\/ InsertRow(r) \/ InsertFails(r) \/ PutSession(r)
                              \/ TurnAbandoned(r) \/ CloseRow(r) \/ CloseFails(r))
    BY DEF InsertRow, InsertFails, PutSession, TurnAbandoned, CloseRow, CloseFails
  <2>8. ~Tick /\ ~UNCHANGED vars
    BY DEF Tick, vars, server
  <2>9. QED
    BY <1>1, <2>2, <2>3, <2>4, <2>5, <2>6, <2>7, <2>8 DEF Next, ServerNext
<1>2. QED
  BY <1>1, LifecycleInvariant, PTL DEF Spec, AskedSessionsKept

=============================================================================
