----------------------------- MODULE StepStream -----------------------------
(***************************************************************************)
(* How the steps and the result of one turn travel from the thread that    *)
(* runs it to the student: on_step posts callbacks to the event loop, the  *)
(* event generator of _handle_turn takes items from an asyncio queue with  *)
(* a timeout and asks whether the future of the thread is done, and the    *)
(* chat client reads the server-sent events.  Thread, event loop,          *)
(* generator and client take turns freely.                                 *)
(*                                                                         *)
(* Steps are numbered in the order handle_turn emits them; a turn emits at *)
(* most MaxSteps.  The thread's future is completed by a callback of the   *)
(* loop as well, posted when the thread is through (asyncio's wrap_future).*)
(***************************************************************************)
EXTENDS Naturals, Sequences

CONSTANT MaxSteps    \* the most steps a turn emits (9 with two retries)

ASSUME StreamAssumption == MaxSteps \in Nat

VARIABLES worker,    \* the thread that runs handle_turn
          emitted,   \* steps handle_turn has emitted
          ready,     \* callbacks the thread has posted to the event loop
          future,    \* the asyncio future: "pending", "result", "error"
          queue,     \* the asyncio.Queue of steps
          generator, \* where event_generator is
          wire,      \* events yielded and not yet read by the client
          sent,      \* all events yielded
          client,    \* where on_message is
          shown      \* what the student has been shown, in order

vars == <<worker, emitted, ready, future, queue, generator, wire, sent, client, shown>>

\* Waiting in wait_for, resumed by its timeout, emptying the queue, about to
\* yield the terminal event, at the end, or cancelled with the connection.
GeneratorPoints == {"unstarted", "waiting", "timedout", "draining", "terminal",
                    "ended", "cancelled"}

ClientPoints == {"reading", "result", "answered", "apologised"}

Terminals == {"result", "error"}

\* A server-sent event, or what the client shows for it.
Event(type, number) == [type |-> type, number |-> number]

Step(n) == Event("step", n)

Outcome(type) == Event(type, 0)

FirstSteps(n) == [i \in 1 .. n |-> Step(i)]

\* What the future holds once the thread is through.
ResultOf(outcome) == IF outcome = "returned" THEN "result" ELSE "error"

-----------------------------------------------------------------------------
(* Mutant marks a planted defect. *)

\* Mutant: the newest step is put before the others.
PutMutant(step) == <<step>> \o queue

\* queue.put_nowait, run by the loop.
Put(step) == Append(queue, step)

Init ==
  /\ worker = "none"
  /\ emitted = 0
  /\ ready = <<>>
  /\ future = "pending"
  /\ queue = <<>>
  /\ generator = "unstarted"
  /\ wire = <<>>
  /\ sent = <<>>
  /\ client = "reading"
  /\ shown = <<>>

(* The thread. *)

\* A thread of the default pool picks the turn up.
StartTurn ==
  /\ worker = "queued"
  /\ worker' = "running"
  /\ UNCHANGED <<emitted, ready, future, queue, generator, wire, sent, client, shown>>

\* on_step: call_soon_threadsafe appends to the loop's callbacks.
EmitStep ==
  /\ worker = "running"
  /\ emitted < MaxSteps
  /\ emitted' = emitted + 1
  /\ ready' = Append(ready, Step(emitted + 1))
  /\ UNCHANGED <<worker, future, queue, generator, wire, sent, client, shown>>

\* Mutant: the generator looks at the thread itself, not at the loop's future.
FinishTurnMutant ==
  /\ worker = "running"
  /\ \E outcome \in {"returned", "raised"} :
       /\ worker' = outcome
       /\ future' = ResultOf(outcome)
  /\ UNCHANGED <<emitted, ready, queue, generator, wire, sent, client, shown>>

\* handle_turn returns or raises.
FinishTurn ==
  /\ worker = "running"
  /\ \E outcome \in {"returned", "raised"} :
       /\ worker' = outcome
       /\ ready' = Append(ready, Outcome(ResultOf(outcome)))
  /\ UNCHANGED <<emitted, future, queue, generator, wire, sent, client, shown>>

(* The event loop. *)

\* The next callback: a step is put, or the future is completed.
RunCallback ==
  /\ ready # <<>>
  /\ ready' = Tail(ready)
  /\ IF Head(ready).type \in Terminals
     THEN future' = Head(ready).type /\ UNCHANGED queue
     ELSE queue' = Put(Head(ready)) /\ UNCHANGED future
  /\ UNCHANGED <<worker, emitted, generator, wire, sent, client, shown>>

Yield(event) ==
  /\ wire' = Append(wire, event)
  /\ sent' = Append(sent, event)

\* The response is streamed for the first time: run_in_executor.
StartGenerator ==
  /\ generator = "unstarted"
  /\ generator' = "waiting"
  /\ worker' = "queued"
  /\ UNCHANGED <<emitted, ready, future, queue, wire, sent, client, shown>>

\* wait_for(queue.get()) has an item.
YieldStep ==
  /\ generator = "waiting"
  /\ queue # <<>>
  /\ queue' = Tail(queue)
  /\ Yield(Head(queue))
  /\ UNCHANGED <<worker, emitted, ready, future, generator, client, shown>>

\* wait_for times out; a callback may still run before the generator resumes.
TimeOut ==
  /\ generator = "waiting"
  /\ queue = <<>>
  /\ generator' = "timedout"
  /\ UNCHANGED <<worker, emitted, ready, future, queue, wire, sent, client, shown>>

\* Mutant: the loop is left only when the timeout finds an item.
ResumeForeverMutant ==
  /\ generator = "timedout"
  /\ generator' = IF future # "pending" /\ queue # <<>> THEN "draining" ELSE "waiting"
  /\ UNCHANGED <<worker, emitted, ready, future, queue, wire, sent, client, shown>>

\* except TimeoutError: wait again unless the future is done.
Resume ==
  /\ generator = "timedout"
  /\ generator' = IF future = "pending" THEN "waiting" ELSE "draining"
  /\ UNCHANGED <<worker, emitted, ready, future, queue, wire, sent, client, shown>>

\* while not queue.empty(): the generator is suspended at every yield.
Drain ==
  /\ generator = "draining"
  /\ IF queue = <<>>
     THEN generator' = "terminal" /\ UNCHANGED <<queue, wire, sent>>
     ELSE queue' = Tail(queue) /\ Yield(Head(queue)) /\ UNCHANGED generator
  /\ UNCHANGED <<worker, emitted, ready, future, client, shown>>

\* Mutant: the exception of the turn is logged and no event is sent for it.
YieldTerminalMutant ==
  /\ generator = "terminal"
  /\ generator' = "ended"
  /\ IF future = "result" THEN Yield(Outcome(future)) ELSE UNCHANGED <<wire, sent>>
  /\ UNCHANGED <<worker, emitted, ready, future, queue, client, shown>>

\* task.result() gives the result event, or raises and gives the error event.
YieldTerminal ==
  /\ generator = "terminal"
  /\ generator' = "ended"
  /\ Yield(Outcome(future))
  /\ UNCHANGED <<worker, emitted, ready, future, queue, client, shown>>

\* The server notices that the client is gone; the thread is not told.
Cancel ==
  /\ client \in {"answered", "apologised"}
  /\ generator \notin {"ended", "cancelled"}
  /\ generator' = "cancelled"
  /\ UNCHANGED <<worker, emitted, ready, future, queue, wire, sent, client, shown>>

(* The client. *)

Apologise ==
  /\ client' = "apologised"
  /\ shown' = Append(shown, Outcome("apology"))

\* A step is shown, a result kept for the end, an error ends on_message.
ReadEvent ==
  /\ client \in {"reading", "result"}
  /\ wire # <<>>
  /\ wire' = Tail(wire)
  /\ CASE Head(wire).type = "result" -> client' = "result" /\ UNCHANGED shown
       [] Head(wire).type = "error"  -> Apologise
       [] OTHER -> shown' = Append(shown, Head(wire)) /\ UNCHANGED client
  /\ UNCHANGED <<worker, emitted, ready, future, queue, generator, sent>>

\* The stream has ended: the result, if one was read, is shown.
EndOfStream ==
  /\ client \in {"reading", "result"}
  /\ generator = "ended"
  /\ wire = <<>>
  /\ client' = "answered"
  /\ shown' = IF client = "result" THEN Append(shown, Outcome("answer")) ELSE shown
  /\ UNCHANGED <<worker, emitted, ready, future, queue, generator, wire, sent>>

\* The connection breaks or nothing is received for 300 s.
RequestError ==
  /\ client \in {"reading", "result"}
  /\ Apologise
  /\ UNCHANGED <<worker, emitted, ready, future, queue, generator, wire, sent>>

Next ==
  \/ StartTurn
  \/ EmitStep
  \/ FinishTurn
  \/ RunCallback
  \/ StartGenerator
  \/ YieldStep
  \/ TimeOut
  \/ Resume
  \/ Drain
  \/ YieldTerminal
  \/ Cancel
  \/ ReadEvent
  \/ EndOfStream
  \/ RequestError

\* The thread gets through its turn, the loop runs its callbacks and the
\* generator, and the client reads what arrives.
Fairness ==
  /\ WF_vars(StartTurn)
  /\ WF_vars(FinishTurn)
  /\ WF_vars(RunCallback)
  /\ WF_vars(StartGenerator)
  /\ WF_vars(YieldStep \/ TimeOut \/ Resume)
  /\ WF_vars(Drain)
  /\ WF_vars(YieldTerminal)
  /\ WF_vars(ReadEvent)
  /\ WF_vars(EndOfStream)

Spec == Init /\ [][Next]_vars /\ Fairness

-----------------------------------------------------------------------------

Steps == {Step(n) : n \in 1 .. MaxSteps}

Events == Steps \cup {Outcome(type) : type \in Terminals}

StreamTypeOK ==
  /\ worker \in {"none", "queued", "running", "returned", "raised"}
  /\ emitted \in 0 .. MaxSteps
  /\ ready \in Seq(Events)
  /\ future \in {"pending"} \cup Terminals
  /\ queue \in Seq(Steps)
  /\ generator \in GeneratorPoints
  /\ wire \in Seq(Events)
  /\ sent \in Seq(Events)
  /\ client \in ClientPoints
  /\ shown \in Seq(Steps \cup {Outcome("answer"), Outcome("apology")})

\* A stream that comes to its end has carried every step the turn emitted, in
\* order, and then exactly one terminal event, the one of the turn's outcome:
\* no step is overtaken by the result (student.py:149-168).
CompleteStream ==
  generator = "ended" =>
    sent = Append(FirstSteps(emitted), Outcome(ResultOf(worker)))

\* What is shown is the first steps of the turn in order, and after them at
\* most one answer or apology; an answer comes after all of them.
ShownInOrder ==
  \E n \in 0 .. emitted :
    \/ shown = FirstSteps(n)
    \/ shown = Append(FirstSteps(n), Outcome("apology"))
    \/ n = emitted /\ worker = "returned" /\ shown = Append(FirstSteps(n), Outcome("answer"))

\* on_message never ends in silence: app.py shows nothing when the stream ends
\* without a result or an error, so the generator must not let that happen.
NeverSilent ==
  client \in {"answered", "apologised"} =>
    shown # <<>> /\ shown[Len(shown)].type \in {"answer", "apology"}

\* Once it is streamed, every turn is answered or apologised for, however
\* timeouts, callbacks and reads fall.
EveryStreamSettles ==
  generator = "waiting" ~> client \in {"answered", "apologised"}

=============================================================================
