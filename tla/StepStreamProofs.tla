-------------------------- MODULE StepStreamProofs --------------------------
(***************************************************************************)
(* What holds of StepStream for turns of any number of steps, wherever     *)
(* timeouts, callbacks, reads and disconnections fall.  The inductive      *)
(* invariant numbers the steps on their way: those sent come first, then   *)
(* those in the queue, then those among the callbacks, without a gap, and  *)
(* the outcome of the turn is behind them all.                             *)
(***************************************************************************)
EXTENDS StepStream, SequenceTheorems, TLAPS

Finished == worker \in {"returned", "raised"}

\* The outcome is among the callbacks, as the last of them.
Posted == Finished /\ future = "pending"

StepsReady == IF Posted THEN Len(ready) - 1 ELSE Len(ready)

StepsSent == IF generator = "ended" THEN Len(sent) - 1 ELSE Len(sent)

\* The steps on their way are all those emitted, in the order of their numbers.
StepsNumbered ==
  /\ StepsSent + Len(queue) + StepsReady = emitted
  /\ \A i \in 1 .. StepsSent : sent[i] = Step(i)
  /\ \A i \in 1 .. Len(queue) : queue[i] = Step(StepsSent + i)
  /\ \A i \in 1 .. StepsReady : ready[i] = Step(StepsSent + Len(queue) + i)

\* The outcome of the turn is one thing at a time: a callback, the future's
\* result, and in the end the last event that was sent.
OutcomeOnce ==
  /\ Posted => ready # <<>> /\ ready[Len(ready)] = Outcome(ResultOf(worker))
  /\ future # "pending" => /\ Finished
                           /\ future = ResultOf(worker)
                           /\ ready = <<>>
  /\ generator = "ended" => sent # <<>> /\ sent[Len(sent)] = Outcome(ResultOf(worker))

GeneratorSound ==
  /\ generator = "unstarted" => worker = "none"
  /\ generator \in {"draining", "terminal", "ended"} => future # "pending"
  /\ generator \in {"terminal", "ended"} => queue = <<>>

\* What is shown for the first n steps and, if the turn is over, after them.
ShownAfter(n, last) ==
  /\ Len(shown) = n + 1
  /\ \A i \in 1 .. n : shown[i] = Step(i)
  /\ shown[n + 1] = Outcome(last)

\* While the client reads, what it has shown and what is on the wire make up
\* what was sent.
ClientSound ==
  /\ client = "reading" =>
       /\ Len(shown) <= emitted
       /\ Len(shown) + Len(wire) = Len(sent)
       /\ \A i \in 1 .. Len(shown) : shown[i] = Step(i)
       /\ \A i \in 1 .. Len(wire) : wire[i] = sent[Len(shown) + i]
  /\ client = "result" =>
       /\ generator = "ended" /\ worker = "returned" /\ wire = <<>>
       /\ Len(shown) = emitted
       /\ \A i \in 1 .. Len(shown) : shown[i] = Step(i)
  /\ client = "answered" => worker = "returned" /\ ShownAfter(emitted, "answer")
  /\ client = "apologised" => \E n \in 0 .. emitted : ShownAfter(n, "apology")

StreamInv ==
  /\ StreamTypeOK
  /\ StepsNumbered
  /\ OutcomeOnce
  /\ GeneratorSound
  /\ ClientSound

-----------------------------------------------------------------------------

LEMMA EventsDiffer ==
  /\ \A m, n : Step(m) = Step(n) => m = n
  /\ \A n, type : type # "step" => Step(n) # Outcome(type)
  /\ \A n : Step(n).type = "step"
  /\ \A type : Outcome(type).type = type
BY DEF Step, Outcome, Event

LEMMA EventKinds ==
  /\ \A n \in 1 .. MaxSteps : Step(n) \in Steps /\ Step(n) \in Events
  /\ \A w : Outcome(ResultOf(w)) \in Events /\ ResultOf(w) \in Terminals
  /\ \A e \in Events : e.type \in Terminals \/ e \in Steps
  /\ \A e \in Events : e.type \in Terminals => e = Outcome(e.type)
  /\ \A e \in Steps : e.type = "step"
<1>1. \A n \in 1 .. MaxSteps : Step(n) \in Steps /\ Step(n) \in Events
  BY DEF Steps, Events
<1>2. \A w : ResultOf(w) \in Terminals /\ Outcome(ResultOf(w)) \in Events
  BY DEF ResultOf, Terminals, Events
<1>3. \A e \in Steps : e.type = "step"
  BY EventsDiffer DEF Steps
<1>4. \A e \in Events : e \in Steps \/ \E type \in Terminals : e = Outcome(type)
  BY DEF Events
<1>5. \A e \in Events : e.type \in Terminals \/ e \in Steps
  BY <1>4, EventsDiffer
<1>6. \A e \in Events : e.type \in Terminals => e = Outcome(e.type)
  BY <1>3, <1>4, EventsDiffer DEF Terminals
<1>7. QED
  BY <1>1, <1>2, <1>3, <1>5, <1>6

LEMMA InitEstablishesInv == Init => StreamInv
<1> SUFFICES ASSUME Init PROVE StreamInv
  OBVIOUS
<1> USE DEF Init
<1>1. StreamTypeOK
  BY StreamAssumption DEF StreamTypeOK, GeneratorPoints, ClientPoints
<1>2. StepsNumbered
  BY DEF StepsNumbered, StepsSent, StepsReady, Posted, Finished
<1>3. OutcomeOnce /\ GeneratorSound
  BY DEF OutcomeOnce, GeneratorSound, Posted, Finished
<1>4. ClientSound
  BY DEF ClientSound
<1>5. QED
  BY <1>1, <1>2, <1>3, <1>4 DEF StreamInv

\* A step of the thread or the loop does not concern the client, as long as a
\* turn that is over stays as it is.
LEMMA ClientKept ==
  ASSUME ClientSound, StreamTypeOK, StreamTypeOK',
         UNCHANGED <<sent, wire, client, shown>>,
         emitted <= emitted',
         Finished => emitted' = emitted /\ worker' = worker,
         generator = "ended" => generator' = "ended",
         generator = "ended" => Finished
  PROVE  ClientSound'
<1>1. emitted \in Nat /\ emitted' \in Nat /\ Len(shown) \in Nat
  BY StreamAssumption DEF StreamTypeOK
<1>2. client = "reading" => Len(shown) <= emitted'
  BY <1>1 DEF ClientSound
<1>3. client = "result" => worker' = worker /\ emitted' = emitted /\ generator' = "ended"
  BY DEF ClientSound
<1>4. client = "answered" => worker' = worker /\ emitted' = emitted
  BY DEF ClientSound, Finished
<1>5. client = "apologised" => \E n \in 0 .. emitted' : ShownAfter(n, "apology")
  BY <1>1 DEF ClientSound
<1>6. QED
  BY <1>2, <1>3, <1>4, <1>5 DEF ClientSound, ShownAfter

-----------------------------------------------------------------------------
(* The thread. *)

LEMMA StartTurnKeepsInv == ASSUME StreamInv, StartTurn PROVE StreamInv'
<1> USE DEF StreamInv, StartTurn
<1>1. StreamTypeOK'
  BY DEF StreamTypeOK
<1>2. StepsNumbered'
  BY DEF StepsNumbered, StepsSent, StepsReady, Posted, Finished
<1>3. OutcomeOnce'
  BY DEF OutcomeOnce, GeneratorSound, Posted, Finished
<1>4. GeneratorSound'
  BY DEF GeneratorSound
<1>5. ClientSound'
  BY <1>1, ClientKept DEF StreamTypeOK, Finished, OutcomeOnce, GeneratorSound
<1>6. QED
  BY <1>1, <1>2, <1>3, <1>4, <1>5

LEMMA EmitStepKeepsInv == ASSUME StreamInv, EmitStep PROVE StreamInv'
<1>1. /\ worker = "running" /\ worker' = "running" /\ ~Finished /\ ~Finished'
      /\ emitted' = emitted + 1 /\ emitted' \in 1 .. MaxSteps
      /\ ready' = Append(ready, Step(emitted + 1))
      /\ UNCHANGED <<future, queue, generator, wire, sent, client, shown>>
  BY StreamAssumption DEF StreamInv, StreamTypeOK, EmitStep, Finished
<1>2. future = "pending" /\ generator \notin {"unstarted", "draining", "terminal", "ended"}
  BY <1>1 DEF StreamInv, OutcomeOnce, GeneratorSound, Finished
<1>3. /\ ready' \in Seq(Events)
      /\ Len(ready') = Len(ready) + 1
      /\ \A i \in 1 .. Len(ready) : ready'[i] = ready[i]
      /\ ready'[Len(ready) + 1] = Step(emitted + 1)
  BY <1>1, EventKinds, AppendProperties DEF StreamInv, StreamTypeOK
<1>4. StreamTypeOK'
  BY <1>1, <1>3 DEF StreamInv, StreamTypeOK
<1>5. StepsNumbered'
  <2>1. /\ StepsReady = Len(ready) /\ StepsReady' = Len(ready) + 1
        /\ StepsSent' = StepsSent /\ StepsSent = Len(sent)
    BY <1>1, <1>2, <1>3 DEF StepsReady, StepsSent, Posted
  <2>2. Len(sent) \in Nat /\ Len(queue) \in Nat /\ Len(ready) \in Nat
    BY DEF StreamInv, StreamTypeOK
  <2>3. Len(sent) + Len(queue) + Len(ready) = emitted
    BY <2>1 DEF StreamInv, StepsNumbered
  <2>4. ready'[Len(ready) + 1] = Step(Len(sent) + Len(queue) + (Len(ready) + 1))
    BY <1>3, <2>2, <2>3
  <2>5. StepsSent' + Len(queue') + StepsReady' = emitted'
    BY <1>1, <2>1, <2>2, <2>3
  <2>6. ASSUME NEW i \in 1 .. Len(ready) + 1
        PROVE  ready'[i] = Step(Len(sent) + Len(queue) + i)
    <3>1. CASE i \in 1 .. Len(ready)
      BY <1>3, <2>1, <3>1 DEF StreamInv, StepsNumbered
    <3>2. CASE i = Len(ready) + 1
      BY <1>3, <2>4, <3>2
    <3>3. QED
      BY <2>2, <3>1, <3>2
  <2>7. QED
    BY <1>1, <2>1, <2>5, <2>6 DEF StreamInv, StepsNumbered
<1>6. OutcomeOnce'
  BY <1>1, <1>2 DEF OutcomeOnce, Posted
<1>7. GeneratorSound'
  BY <1>1, <1>2 DEF GeneratorSound
<1>8. ClientSound'
  BY <1>1, <1>2, <1>4, ClientKept DEF StreamInv, StreamTypeOK
<1>9. QED
  BY <1>4, <1>5, <1>6, <1>7, <1>8 DEF StreamInv

LEMMA FinishTurnKeepsInv == ASSUME StreamInv, FinishTurn PROVE StreamInv'
<1>1. PICK outcome \in {"returned", "raised"} :
        worker' = outcome /\ ready' = Append(ready, Outcome(ResultOf(outcome)))
  BY DEF FinishTurn
<1>2. /\ worker = "running" /\ ~Finished /\ Finished'
      /\ UNCHANGED <<emitted, future, queue, generator, wire, sent, client, shown>>
  BY <1>1 DEF FinishTurn, Finished
<1>3. future = "pending" /\ generator \notin {"unstarted", "draining", "terminal", "ended"}
  BY <1>2 DEF StreamInv, OutcomeOnce, GeneratorSound, Finished
<1>4. /\ ready' \in Seq(Events)
      /\ ready' # <<>>
      /\ Len(ready') = Len(ready) + 1
      /\ \A i \in 1 .. Len(ready) : ready'[i] = ready[i]
      /\ ready'[Len(ready) + 1] = Outcome(ResultOf(worker'))
  <2>1. Outcome(ResultOf(outcome)) \in Events /\ ready \in Seq(Events)
    BY EventKinds DEF StreamInv, StreamTypeOK
  <2>2. QED
    BY <1>1, <2>1, AppendProperties
<1>5. StreamTypeOK'
  BY <1>1, <1>2, <1>4 DEF StreamInv, StreamTypeOK
<1>6. StepsNumbered'
  <2>1. Len(ready) \in Nat
    BY DEF StreamInv, StreamTypeOK
  <2>2. StepsReady = Len(ready) /\ StepsReady' = Len(ready) /\ StepsSent' = StepsSent
    BY <1>2, <1>3, <1>4, <2>1 DEF StepsReady, StepsSent, Posted
  <2>3. QED
    BY <1>2, <1>4, <2>1, <2>2 DEF StreamInv, StepsNumbered
<1>7. OutcomeOnce'
  BY <1>2, <1>3, <1>4 DEF OutcomeOnce
<1>8. GeneratorSound'
  BY <1>2, <1>3 DEF GeneratorSound
<1>9. ClientSound'
  BY <1>2, <1>3, <1>5, ClientKept DEF StreamInv, StreamTypeOK
<1>10. QED
  BY <1>5, <1>6, <1>7, <1>8, <1>9 DEF StreamInv

-----------------------------------------------------------------------------
(* The event loop. *)

LEMMA RunCallbackKeepsInv == ASSUME StreamInv, RunCallback PROVE StreamInv'
<1>1. /\ ready # <<>> /\ ready' = Tail(ready)
      /\ UNCHANGED <<worker, emitted, generator, wire, sent, client, shown>>
  BY DEF RunCallback
<1>2. /\ Head(ready) = ready[1] /\ Head(ready) \in Events
      /\ ready' \in Seq(Events)
      /\ Len(ready') = Len(ready) - 1
      /\ \A i \in 1 .. Len(ready') : ready'[i] = ready[i + 1]
      /\ Len(ready) \in Nat /\ Len(ready) >= 1
  BY <1>1, HeadTailProperties DEF StreamInv, StreamTypeOK
<1>3. future = "pending" /\ generator \notin {"draining", "terminal", "ended"}
  BY <1>1 DEF StreamInv, OutcomeOnce, GeneratorSound
<1>4. /\ Len(sent) \in Nat /\ Len(queue) \in Nat
      /\ StepsSent = Len(sent) /\ StepsSent' = StepsSent
      /\ Len(sent) + Len(queue) + StepsReady = emitted
      /\ emitted \in 0 .. MaxSteps
  BY <1>1, <1>3 DEF StreamInv, StreamTypeOK, StepsNumbered, StepsSent
<1>5. CASE Head(ready).type \in Terminals
  <2>1. future' = Head(ready).type /\ queue' = queue
    BY <1>5 DEF RunCallback
  <2>2. StepsReady = 0
    <3>1. CASE StepsReady >= 1
      <4>1. ready[1] = Step(StepsSent + Len(queue) + 1)
        BY <1>2, <3>1 DEF StreamInv, StepsNumbered, StepsReady
      <4>2. QED
        BY <1>2, <1>5, <4>1, EventsDiffer DEF Terminals
    <3>2. QED
      BY <1>2, <3>1 DEF StepsReady
  <2>3. Posted /\ Len(ready) = 1 /\ Head(ready) = Outcome(ResultOf(worker))
    BY <1>2, <2>2 DEF StepsReady, StreamInv, OutcomeOnce
  <2>4. future' = ResultOf(worker) /\ future' \in Terminals
    BY <1>5, <2>1, <2>3, EventsDiffer
  <2>5. Len(ready') = 0 /\ ready' = <<>>
    BY <1>2, <2>3
  <2>6. future' # "pending"
    BY <2>4 DEF Terminals
  <2>7. Finished' /\ ~Posted' /\ StepsReady' = 0
    BY <1>1, <2>3, <2>5, <2>6 DEF StepsReady, Posted, Finished
  <2>8. StreamTypeOK'
    BY <1>1, <1>2, <2>1, <2>4 DEF StreamInv, StreamTypeOK
  <2>9. StepsNumbered'
    BY <1>1, <1>4, <2>1, <2>2, <2>7 DEF StreamInv, StepsNumbered
  <2>10. OutcomeOnce'
    BY <1>1, <1>3, <2>4, <2>5, <2>7 DEF OutcomeOnce
  <2>11. GeneratorSound'
    BY <1>1, <1>3 DEF StreamInv, GeneratorSound
  <2>12. ClientSound'
    BY <1>1, <1>3, <1>4, <2>8, ClientKept DEF StreamInv
  <2>13. QED
    BY <2>8, <2>9, <2>10, <2>11, <2>12 DEF StreamInv
<1>6. CASE Head(ready).type \notin Terminals
  <2>1. queue' = Append(queue, Head(ready)) /\ future' = future
    BY <1>6 DEF RunCallback, Put
  <2>2. Head(ready) \in Steps
    BY <1>2, <1>6, EventKinds
  <2>3. /\ queue' \in Seq(Steps)
        /\ Len(queue') = Len(queue) + 1
        /\ \A i \in 1 .. Len(queue) : queue'[i] = queue[i]
        /\ queue'[Len(queue) + 1] = Head(ready)
    BY <2>1, <2>2, AppendProperties DEF StreamInv, StreamTypeOK
  <2>4. StepsReady >= 1 /\ StepsReady \in Nat
    <3>1. CASE Posted /\ Len(ready) = 1
      <4>1. Head(ready) = Outcome(ResultOf(worker))
        BY <1>2, <3>1 DEF StreamInv, OutcomeOnce
      <4>2. QED
        BY <1>6, <4>1, EventsDiffer, EventKinds
    <3>2. QED
      BY <1>2, <3>1 DEF StepsReady
  <2>5. StepsReady' = StepsReady - 1 /\ Posted' = Posted
    BY <1>1, <1>2, <2>1 DEF StepsReady, Posted, Finished
  <2>6. Head(ready) = Step(Len(sent) + Len(queue) + 1)
    BY <1>2, <1>4, <2>4 DEF StreamInv, StepsNumbered
  <2>7. StreamTypeOK'
    BY <1>1, <1>2, <2>1, <2>3 DEF StreamInv, StreamTypeOK
  <2>8. StepsNumbered'
    <3>1. StepsSent' + Len(queue') + StepsReady' = emitted'
      <4>1. StepsSent' = Len(sent) /\ Len(queue') = Len(queue) + 1
              /\ StepsReady' = StepsReady - 1 /\ emitted' = emitted
        BY <1>1, <1>4, <2>3, <2>5
      <4>2. QED
        BY <1>4, <2>4, <4>1
    <3>2. \A i \in 1 .. StepsSent' : sent'[i] = Step(i)
      BY <1>1, <1>4 DEF StreamInv, StepsNumbered
    <3>3. \A i \in 1 .. Len(queue') : queue'[i] = Step(StepsSent' + i)
      <4>1. \A i \in 1 .. Len(queue) : queue'[i] = Step(Len(sent) + i)
        BY <1>4, <2>3 DEF StreamInv, StepsNumbered
      <4>2. queue'[Len(queue) + 1] = Step(Len(sent) + (Len(queue) + 1))
        BY <1>4, <2>3, <2>6
      <4>3. ASSUME NEW i \in 1 .. Len(queue) + 1
            PROVE  queue'[i] = Step(Len(sent) + i)
        <5>1. i \in 1 .. Len(queue) \/ i = Len(queue) + 1
          BY <1>4
        <5>2. QED
          BY <4>1, <4>2, <5>1
      <4>4. QED
        BY <1>4, <2>3, <4>3
    <3>4. ASSUME NEW i \in 1 .. StepsReady'
          PROVE  ready'[i] = Step(StepsSent' + Len(queue') + i)
      <4>1. i \in 1 .. Len(ready') /\ i + 1 \in 1 .. StepsReady
        BY <1>2, <2>4, <2>5, <3>4 DEF StepsReady
      <4>2. ready'[i] = Step(Len(sent) + Len(queue) + (i + 1))
        BY <1>2, <1>4, <4>1 DEF StreamInv, StepsNumbered
      <4>3. Len(sent) + Len(queue) + (i + 1) = Len(sent) + (Len(queue) + 1) + i
        BY <1>4, <4>1
      <4>4. QED
        BY <1>4, <2>3, <4>2, <4>3
    <3>5. QED
      BY <3>1, <3>2, <3>3, <3>4 DEF StepsNumbered
  <2>9. OutcomeOnce'
    <3>1. Posted' => ready' # <<>> /\ ready'[Len(ready')] = Outcome(ResultOf(worker'))
      <4>1. SUFFICES ASSUME Posted
                     PROVE  ready' # <<>>
                            /\ ready'[Len(ready')] = Outcome(ResultOf(worker'))
        BY <2>5
      <4>2. Len(ready') >= 1 /\ Len(ready') + 1 = Len(ready)
        BY <1>2, <2>4, <4>1 DEF StepsReady
      <4>3. ready'[Len(ready')] = ready[Len(ready)]
        BY <1>2, <4>2
      <4>4. ready[Len(ready)] = Outcome(ResultOf(worker))
        BY <4>1 DEF StreamInv, OutcomeOnce
      <4>5. ready' # <<>>
        BY <4>2
      <4>6. QED
        BY <1>1, <4>3, <4>4, <4>5
    <3>2. QED
      BY <1>1, <1>3, <2>1, <3>1 DEF OutcomeOnce
  <2>10. GeneratorSound'
    BY <1>1, <1>3, <2>1 DEF StreamInv, GeneratorSound
  <2>11. ClientSound'
    BY <1>1, <1>3, <1>4, <2>7, ClientKept DEF StreamInv
  <2>12. QED
    BY <2>7, <2>8, <2>9, <2>10, <2>11 DEF StreamInv
<1>7. QED
  BY <1>5, <1>6

-----------------------------------------------------------------------------
(* The generator. *)

\* The generator moves on between its start and its end; nothing is sent.
LEMMA GeneratorMoves ==
  ASSUME StreamInv, generator # "ended", generator' \in GeneratorPoints \ {"ended", "unstarted"},
         UNCHANGED <<emitted, ready, future, queue, wire, sent, client, shown>>,
         worker' = worker \/ (worker = "none" /\ worker' = "queued"),
         generator' \in {"draining", "terminal"} => future # "pending",
         generator' = "terminal" => queue = <<>>
  PROVE  StreamInv'
<1>1. StreamTypeOK'
  BY DEF StreamInv, StreamTypeOK
<1>2. Finished' = Finished /\ Posted' = Posted /\ (Finished => worker' = worker)
  BY DEF Finished, Posted
<1>3. StepsNumbered'
  BY <1>2 DEF StreamInv, StepsNumbered, StepsSent, StepsReady
<1>4. OutcomeOnce'
  <2>1. Posted' => ready' # <<>> /\ ready'[Len(ready')] = Outcome(ResultOf(worker'))
    BY <1>2 DEF StreamInv, OutcomeOnce, Posted
  <2>2. future' # "pending" => Finished' /\ future' = ResultOf(worker') /\ ready' = <<>>
    BY <1>2 DEF StreamInv, OutcomeOnce
  <2>3. QED
    BY <2>1, <2>2 DEF OutcomeOnce
<1>5. GeneratorSound'
  BY DEF GeneratorSound
<1>6. ClientSound'
  <2>1. client # "result" /\ (client = "answered" => worker' = worker)
    BY DEF StreamInv, ClientSound
  <2>2. QED
    BY <2>1 DEF StreamInv, ClientSound, ShownAfter
<1>7. QED
  BY <1>1, <1>3, <1>4, <1>5, <1>6 DEF StreamInv

LEMMA StartGeneratorKeepsInv == ASSUME StreamInv, StartGenerator PROVE StreamInv'
BY GeneratorMoves DEF StartGenerator, StreamInv, GeneratorSound, GeneratorPoints

LEMMA TimeOutKeepsInv == ASSUME StreamInv, TimeOut PROVE StreamInv'
BY GeneratorMoves DEF TimeOut, GeneratorPoints

LEMMA ResumeKeepsInv == ASSUME StreamInv, Resume PROVE StreamInv'
BY GeneratorMoves DEF Resume, GeneratorPoints

LEMMA CancelKeepsInv == ASSUME StreamInv, Cancel PROVE StreamInv'
BY GeneratorMoves DEF Cancel, GeneratorPoints

\* An event is sent before the last one: the client has it on the wire.
LEMMA EventSent ==
  ASSUME StreamInv, generator # "ended", NEW e \in Events,
         wire' = Append(wire, e), sent' = Append(sent, e),
         UNCHANGED <<worker, emitted, client, shown>>
  PROVE  /\ ClientSound'
         /\ wire' \in Seq(Events) /\ sent' \in Seq(Events)
         /\ Len(sent') = Len(sent) + 1
         /\ \A i \in 1 .. Len(sent) : sent'[i] = sent[i]
         /\ sent'[Len(sent) + 1] = e
<1>1. sent \in Seq(Events) /\ wire \in Seq(Events)
        /\ Len(sent) \in Nat /\ Len(wire) \in Nat /\ Len(shown) \in Nat
  BY DEF StreamInv, StreamTypeOK
<1>2. /\ sent' \in Seq(Events)
      /\ Len(sent') = Len(sent) + 1
      /\ \A i \in 1 .. Len(sent) : sent'[i] = sent[i]
      /\ sent'[Len(sent) + 1] = e
  BY <1>1, AppendProperties
<1>3. /\ wire' \in Seq(Events)
      /\ Len(wire') = Len(wire) + 1
      /\ \A i \in 1 .. Len(wire) : wire'[i] = wire[i]
      /\ wire'[Len(wire) + 1] = e
  BY <1>1, AppendProperties
<1>4. client # "result"
  BY DEF StreamInv, ClientSound
<1>5. ASSUME client = "reading"
      PROVE  /\ Len(shown) + Len(wire') = Len(sent')
             /\ \A i \in 1 .. Len(wire') : wire'[i] = sent'[Len(shown) + i]
  <2>1. Len(shown) + Len(wire) = Len(sent)
    BY <1>5 DEF StreamInv, ClientSound
  <2>2. ASSUME NEW i \in 1 .. Len(wire)
        PROVE  wire'[i] = sent'[Len(shown) + i]
    <3>1. wire[i] = sent[Len(shown) + i]
      BY <1>5 DEF StreamInv, ClientSound
    <3>2. Len(shown) + i \in 1 .. Len(sent)
      BY <1>1, <2>1
    <3>3. QED
      BY <1>2, <1>3, <3>1, <3>2
  <2>3. wire'[Len(wire) + 1] = sent'[Len(shown) + (Len(wire) + 1)]
    BY <1>1, <1>2, <1>3, <2>1
  <2>4. ASSUME NEW i \in 1 .. Len(wire) + 1
        PROVE  wire'[i] = sent'[Len(shown) + i]
    <3>1. i \in 1 .. Len(wire) \/ i = Len(wire) + 1
      BY <1>1
    <3>2. QED
      BY <2>2, <2>3, <3>1
  <2>5. QED
    BY <1>1, <1>2, <1>3, <2>1, <2>4
<1>6. ClientSound'
  BY <1>4, <1>5 DEF StreamInv, ClientSound, ShownAfter
<1>7. QED
  BY <1>2, <1>3, <1>6

\* The first step of the queue is sent.
LEMMA StepSent ==
  ASSUME StreamInv, generator \in {"waiting", "draining"}, queue # <<>>,
         queue' = Tail(queue), Yield(Head(queue)),
         UNCHANGED <<worker, emitted, ready, future, generator, client, shown>>
  PROVE  StreamInv'
<1>1. /\ Head(queue) = queue[1] /\ Head(queue) \in Steps
      /\ queue' \in Seq(Steps)
      /\ Len(queue') = Len(queue) - 1
      /\ \A i \in 1 .. Len(queue') : queue'[i] = queue[i + 1]
      /\ Len(queue) \in Nat /\ Len(queue) >= 1
  BY HeadTailProperties DEF StreamInv, StreamTypeOK
<1>2. Head(queue) \in Events
  BY <1>1 DEF Events
<1>3. /\ ClientSound'
      /\ wire' \in Seq(Events) /\ sent' \in Seq(Events)
      /\ Len(sent') = Len(sent) + 1
      /\ \A i \in 1 .. Len(sent) : sent'[i] = sent[i]
      /\ sent'[Len(sent) + 1] = Head(queue)
  BY <1>2, EventSent DEF Yield
<1>4. /\ StepsSent = Len(sent) /\ StepsSent' = Len(sent) + 1
      /\ StepsReady' = StepsReady
      /\ Finished' = Finished /\ Posted' = Posted
  BY <1>3 DEF StepsSent, StepsReady, Posted, Finished
<1>5. /\ Len(sent) \in Nat /\ Len(ready) \in Nat /\ emitted \in Nat
      /\ StepsReady \in Int
  BY StreamAssumption DEF StreamInv, StreamTypeOK, StepsReady
<1>6. StreamTypeOK'
  BY <1>1, <1>3 DEF StreamInv, StreamTypeOK
<1>7. StepsNumbered'
  <2>1. StepsSent' + Len(queue') + StepsReady' = emitted'
    <3>1. Len(sent) + Len(queue) + StepsReady = emitted
      BY <1>4 DEF StreamInv, StepsNumbered
    <3>2. StepsSent' = Len(sent) + 1 /\ Len(queue') = Len(queue) - 1
            /\ StepsReady' = StepsReady /\ emitted' = emitted
      BY <1>1, <1>4
    <3>3. QED
      BY <1>1, <1>5, <3>1, <3>2
  <2>2. ASSUME NEW i \in 1 .. StepsSent'
        PROVE  sent'[i] = Step(i)
    <3>1. CASE i \in 1 .. Len(sent)
      BY <1>3, <1>4, <3>1 DEF StreamInv, StepsNumbered
    <3>2. CASE i = Len(sent) + 1
      BY <1>1, <1>3, <1>4, <3>2 DEF StreamInv, StepsNumbered
    <3>3. QED
      BY <1>4, <1>5, <3>1, <3>2
  <2>3. ASSUME NEW i \in 1 .. Len(queue')
        PROVE  queue'[i] = Step(StepsSent' + i)
    <3>1. i + 1 \in 1 .. Len(queue) /\ queue'[i] = queue[i + 1]
      BY <1>1
    <3>2. queue'[i] = Step(Len(sent) + (i + 1))
      BY <1>4, <3>1 DEF StreamInv, StepsNumbered
    <3>3. Len(sent) + (i + 1) = (Len(sent) + 1) + i
      BY <1>5
    <3>4. QED
      BY <1>4, <3>2, <3>3
  <2>4. ASSUME NEW i \in 1 .. StepsReady'
        PROVE  ready'[i] = Step(StepsSent' + Len(queue') + i)
    <3>1. ready[i] = Step(Len(sent) + Len(queue) + i)
      BY <1>4 DEF StreamInv, StepsNumbered
    <3>2. Len(sent) + Len(queue) + i = (Len(sent) + 1) + Len(queue') + i
      BY <1>1, <1>5
    <3>3. QED
      BY <1>4, <3>1, <3>2
  <2>5. QED
    BY <2>1, <2>2, <2>3, <2>4 DEF StepsNumbered
<1>8. OutcomeOnce'
  BY <1>4 DEF StreamInv, OutcomeOnce
<1>9. GeneratorSound'
  BY DEF StreamInv, GeneratorSound
<1>10. QED
  BY <1>3, <1>6, <1>7, <1>8, <1>9 DEF StreamInv

LEMMA YieldStepKeepsInv == ASSUME StreamInv, YieldStep PROVE StreamInv'
BY StepSent DEF YieldStep

LEMMA DrainKeepsInv == ASSUME StreamInv, Drain PROVE StreamInv'
<1>1. CASE queue = <<>>
  <2>1. generator = "draining" /\ generator' = "terminal"
          /\ UNCHANGED <<worker, emitted, ready, future, queue, wire, sent, client, shown>>
    BY <1>1 DEF Drain
  <2>2. future # "pending"
    BY <2>1 DEF StreamInv, GeneratorSound
  <2>3. QED
    BY <1>1, <2>1, <2>2, GeneratorMoves DEF GeneratorPoints
<1>2. CASE queue # <<>>
  BY <1>2, StepSent DEF Drain
<1>3. QED
  BY <1>1, <1>2

LEMMA YieldTerminalKeepsInv == ASSUME StreamInv, YieldTerminal PROVE StreamInv'
<1>1. /\ generator = "terminal" /\ generator' = "ended"
      /\ Yield(Outcome(future))
      /\ UNCHANGED <<worker, emitted, ready, future, queue, client, shown>>
  BY DEF YieldTerminal
<1>2. /\ future # "pending" /\ queue = <<>> /\ Finished
      /\ future = ResultOf(worker) /\ ready = <<>>
  BY <1>1 DEF StreamInv, GeneratorSound, OutcomeOnce
<1>3. Outcome(future) \in Events
  BY <1>2, EventKinds
<1>4. /\ ClientSound'
      /\ wire' \in Seq(Events) /\ sent' \in Seq(Events)
      /\ Len(sent') = Len(sent) + 1
      /\ \A i \in 1 .. Len(sent) : sent'[i] = sent[i]
      /\ sent'[Len(sent) + 1] = Outcome(future)
  BY <1>1, <1>3, EventSent DEF Yield
<1>5. Len(sent) \in Nat
  BY DEF StreamInv, StreamTypeOK
<1>6. StepsSent = Len(sent) /\ StepsSent' = Len(sent) /\ StepsReady' = StepsReady
        /\ ~Posted' /\ Finished'
  BY <1>1, <1>2, <1>4, <1>5 DEF StepsSent, StepsReady, Posted, Finished
<1>7. StreamTypeOK'
  BY <1>1, <1>4 DEF StreamInv, StreamTypeOK, GeneratorPoints
<1>8. StepsNumbered'
  BY <1>1, <1>4, <1>6 DEF StreamInv, StepsNumbered
<1>9. OutcomeOnce'
  <2>1. sent' # <<>> /\ sent'[Len(sent')] = Outcome(ResultOf(worker'))
    BY <1>1, <1>2, <1>4, <1>5
  <2>2. QED
    BY <1>1, <1>2, <1>6, <2>1 DEF OutcomeOnce
<1>10. GeneratorSound'
  BY <1>1, <1>2 DEF GeneratorSound
<1>11. QED
  BY <1>4, <1>7, <1>8, <1>9, <1>10 DEF StreamInv

-----------------------------------------------------------------------------
(* The client. *)

\* The client reads or gives up; what was sent stays.
LEMMA ClientMoves ==
  ASSUME StreamInv, StreamTypeOK', ClientSound',
         UNCHANGED <<worker, emitted, ready, future, queue, generator, sent>>
  PROVE  StreamInv'
<1>1. StepsNumbered'
  BY DEF StreamInv, StepsNumbered, StepsSent, StepsReady, Posted, Finished
<1>2. OutcomeOnce' /\ GeneratorSound'
  BY DEF StreamInv, OutcomeOnce, GeneratorSound, Posted, Finished
<1>3. QED
  BY <1>1, <1>2 DEF StreamInv

\* Whatever has been read, an apology or the answer follows the steps shown.
LEMMA LastShown ==
  ASSUME StreamInv, client \in {"reading", "result"}, NEW last \in {"answer", "apology"},
         shown' = Append(shown, Outcome(last))
  PROVE  /\ \E n \in 0 .. emitted : n = Len(shown) /\ ShownAfter(n, last)'
         /\ shown' \in Seq(Steps \cup {Outcome("answer"), Outcome("apology")})
<1>1. /\ shown \in Seq(Steps \cup {Outcome("answer"), Outcome("apology")})
      /\ Len(shown) \in Nat /\ emitted \in Nat
  BY StreamAssumption DEF StreamInv, StreamTypeOK
<1>2. Len(shown) <= emitted /\ \A i \in 1 .. Len(shown) : shown[i] = Step(i)
  BY <1>1 DEF StreamInv, ClientSound
<1>3. /\ shown' \in Seq(Steps \cup {Outcome("answer"), Outcome("apology")})
      /\ Len(shown') = Len(shown) + 1
      /\ \A i \in 1 .. Len(shown) : shown'[i] = shown[i]
      /\ shown'[Len(shown) + 1] = Outcome(last)
  BY <1>1, AppendProperties
<1>4. PICK n \in 0 .. emitted : n = Len(shown)
  BY <1>1, <1>2
<1>5. ShownAfter(n, last)'
  BY <1>2, <1>3, <1>4 DEF ShownAfter
<1>6. QED
  BY <1>3, <1>4, <1>5

LEMMA ApologiseKeepsInv ==
  ASSUME StreamInv, client \in {"reading", "result"}, Apologise, wire' \in Seq(Events),
         UNCHANGED <<worker, emitted, ready, future, queue, generator, sent>>
  PROVE  StreamInv'
<1>1. client' = "apologised" /\ shown' = Append(shown, Outcome("apology"))
  BY DEF Apologise
<1>2. /\ \E n \in 0 .. emitted : ShownAfter(n, "apology")'
      /\ shown' \in Seq(Steps \cup {Outcome("answer"), Outcome("apology")})
  BY <1>1, LastShown
<1>3. StreamTypeOK'
  BY <1>1, <1>2 DEF StreamInv, StreamTypeOK, ClientPoints
<1>4. ClientSound'
  BY <1>1, <1>2 DEF ClientSound, ShownAfter
<1>5. QED
  BY <1>3, <1>4, ClientMoves

LEMMA RequestErrorKeepsInv == ASSUME StreamInv, RequestError PROVE StreamInv'
BY ApologiseKeepsInv DEF RequestError, StreamInv, StreamTypeOK

LEMMA EndOfStreamKeepsInv == ASSUME StreamInv, EndOfStream PROVE StreamInv'
<1>1. /\ client \in {"reading", "result"} /\ generator = "ended" /\ wire = <<>>
      /\ client' = "answered"
      /\ UNCHANGED <<worker, emitted, ready, future, queue, generator, wire, sent>>
  BY DEF EndOfStream
<1>2. client = "result"
  <2> SUFFICES ASSUME client = "reading" PROVE FALSE
    BY <1>1
  <2>1. Len(shown) = Len(sent) /\ Len(sent) \in Nat /\ Len(sent) >= 1
    BY <1>1 DEF StreamInv, ClientSound, StreamTypeOK, OutcomeOnce
  <2>2. Len(shown) <= emitted /\ Len(sent) - 1 + Len(queue) + StepsReady = emitted
    BY <1>1 DEF StreamInv, ClientSound, StepsNumbered, StepsSent
  <2>3. queue = <<>> /\ StepsReady = 0
    BY <1>1 DEF StreamInv, GeneratorSound, OutcomeOnce, StepsReady, Posted
  <2>4. QED
    BY <2>1, <2>2, <2>3
<1>3. worker = "returned" /\ Len(shown) = emitted
  BY <1>2 DEF StreamInv, ClientSound
<1>4. shown' = Append(shown, Outcome("answer"))
  BY <1>2 DEF EndOfStream
<1>5. /\ \E n \in 0 .. emitted : n = Len(shown) /\ ShownAfter(n, "answer")'
      /\ shown' \in Seq(Steps \cup {Outcome("answer"), Outcome("apology")})
  BY <1>2, <1>4, LastShown
<1>6. StreamTypeOK'
  BY <1>1, <1>5 DEF StreamInv, StreamTypeOK, ClientPoints
<1>7. ClientSound'
  BY <1>1, <1>3, <1>5 DEF ClientSound, ShownAfter
<1>8. QED
  BY <1>1, <1>6, <1>7, ClientMoves

LEMMA ReadEventKeepsInv == ASSUME StreamInv, ReadEvent PROVE StreamInv'
<1>1. /\ wire # <<>> /\ wire' = Tail(wire) /\ client \in {"reading", "result"}
      /\ UNCHANGED <<worker, emitted, ready, future, queue, generator, sent>>
  BY DEF ReadEvent
<1>2. client = "reading"
  BY <1>1 DEF StreamInv, ClientSound
<1>3. /\ Head(wire) = wire[1] /\ Head(wire) \in Events
      /\ wire' \in Seq(Events)
      /\ Len(wire') = Len(wire) - 1
      /\ \A i \in 1 .. Len(wire') : wire'[i] = wire[i + 1]
      /\ Len(wire) \in Nat /\ Len(wire) >= 1
  BY <1>1, HeadTailProperties DEF StreamInv, StreamTypeOK
<1>4. /\ Len(shown) \in Nat /\ Len(sent) \in Nat /\ emitted \in Nat /\ Len(queue) \in Nat
      /\ Len(shown) + Len(wire) = Len(sent) /\ Len(shown) <= emitted
      /\ Head(wire) = sent[Len(shown) + 1]
  BY <1>2, <1>3, StreamAssumption DEF StreamInv, StreamTypeOK, ClientSound
<1>5. StepsReady \in Nat
  BY DEF StreamInv, StreamTypeOK, OutcomeOnce, StepsReady
<1>6. \/ Len(shown) + 1 \in 1 .. StepsSent
      \/ generator = "ended" /\ Len(shown) + 1 = Len(sent)
  <2>1. CASE generator = "ended"
    BY <1>3, <1>4, <2>1 DEF StepsSent
  <2>2. CASE generator # "ended"
    BY <1>3, <1>4, <2>2 DEF StepsSent
  <2>3. QED
    BY <2>1, <2>2
<1>7. CASE Head(wire).type = "result"
  <2>1. client' = "result" /\ shown' = shown
    BY <1>7 DEF ReadEvent
  <2>2. Len(shown) + 1 \notin 1 .. StepsSent
    BY <1>4, <1>7, EventsDiffer DEF StreamInv, StepsNumbered
  <2>3. generator = "ended" /\ Len(shown) + 1 = Len(sent)
    BY <1>6, <2>2
  <2>4. Head(wire) = Outcome(ResultOf(worker)) /\ Finished
    BY <1>4, <2>3 DEF StreamInv, OutcomeOnce, GeneratorSound
  <2>5. worker = "returned"
    BY <1>7, <2>4, EventsDiffer DEF ResultOf, Finished
  <2>6. queue = <<>> /\ StepsReady = 0
    BY <2>3 DEF StreamInv, GeneratorSound, OutcomeOnce, StepsReady, Posted
  <2>7. Len(shown) = emitted
    BY <1>4, <2>3, <2>6 DEF StreamInv, StepsNumbered, StepsSent
  <2>8. wire' = <<>>
    <3>1. Len(wire') = 0
      BY <1>3, <1>4, <2>3
    <3>2. QED
      BY <1>3, <3>1
  <2>9. StreamTypeOK'
    BY <1>1, <1>3, <2>1 DEF StreamInv, StreamTypeOK, ClientPoints
  <2>10. ClientSound'
    BY <1>1, <1>2, <2>1, <2>3, <2>5, <2>7, <2>8 DEF StreamInv, ClientSound
  <2>11. QED
    BY <1>1, <2>9, <2>10, ClientMoves
<1>8. CASE Head(wire).type = "error"
  <2>1. Apologise
    BY <1>8 DEF ReadEvent
  <2>2. QED
    BY <1>1, <1>3, <2>1, ApologiseKeepsInv
<1>9. CASE Head(wire).type \notin {"result", "error"}
  <2>1. shown' = Append(shown, Head(wire)) /\ client' = client
    BY <1>9 DEF ReadEvent
  <2>2. Head(wire) \in Steps
    BY <1>3, <1>9, EventKinds DEF Terminals
  <2>3. Len(shown) + 1 \in 1 .. StepsSent
    <3>1. SUFFICES ASSUME generator = "ended", Len(shown) + 1 = Len(sent)
                   PROVE  FALSE
      BY <1>6
    <3>2. Head(wire) = Outcome(ResultOf(worker))
      BY <1>4, <3>1 DEF StreamInv, OutcomeOnce
    <3>3. QED
      BY <1>9, <3>2, EventsDiffer, EventKinds DEF Terminals
  <2>4. Head(wire) = Step(Len(shown) + 1)
    BY <1>4, <2>3 DEF StreamInv, StepsNumbered
  <2>5. Len(shown) + 1 <= emitted
    <3>1. StepsSent \in Int /\ StepsSent + Len(queue) + StepsReady = emitted
      BY <1>4 DEF StreamInv, StepsNumbered, StepsSent
    <3>2. QED
      BY <1>4, <1>5, <2>3, <3>1
  <2>6. /\ shown' \in Seq(Steps \cup {Outcome("answer"), Outcome("apology")})
        /\ Len(shown') = Len(shown) + 1
        /\ \A i \in 1 .. Len(shown) : shown'[i] = shown[i]
        /\ shown'[Len(shown) + 1] = Head(wire)
    <3>1. shown \in Seq(Steps \cup {Outcome("answer"), Outcome("apology")})
      BY DEF StreamInv, StreamTypeOK
    <3>2. Head(wire) \in Steps \cup {Outcome("answer"), Outcome("apology")}
      BY <2>2
    <3>3. QED
      BY <2>1, <3>1, <3>2, AppendProperties
  <2>7. StreamTypeOK'
    BY <1>1, <1>3, <2>1, <2>6 DEF StreamInv, StreamTypeOK
  <2>8. ClientSound'
    <3>1. Len(shown') <= emitted' /\ Len(shown') + Len(wire') = Len(sent')
      BY <1>1, <1>3, <1>4, <2>5, <2>6
    <3>2. ASSUME NEW i \in 1 .. Len(shown')
          PROVE  shown'[i] = Step(i)
      <4>1. CASE i \in 1 .. Len(shown)
        BY <1>2, <2>6, <4>1 DEF StreamInv, ClientSound
      <4>2. CASE i = Len(shown) + 1
        BY <2>4, <2>6, <4>2
      <4>3. QED
        BY <1>4, <2>6, <4>1, <4>2
    <3>3. ASSUME NEW i \in 1 .. Len(wire')
          PROVE  wire'[i] = sent'[Len(shown') + i]
      <4>1. i + 1 \in 1 .. Len(wire) /\ wire'[i] = wire[i + 1]
        BY <1>3
      <4>2. wire[i + 1] = sent[Len(shown) + (i + 1)]
        BY <1>2, <4>1 DEF StreamInv, ClientSound
      <4>3. Len(shown) + (i + 1) = Len(shown') + i
        BY <1>4, <2>6
      <4>4. QED
        BY <1>1, <4>1, <4>2, <4>3
    <3>4. QED
      BY <1>2, <2>1, <3>1, <3>2, <3>3 DEF ClientSound
  <2>9. QED
    BY <1>1, <2>7, <2>8, ClientMoves
<1>10. QED
  BY <1>7, <1>8, <1>9

-----------------------------------------------------------------------------

LEMMA NextKeepsInv == StreamInv /\ [Next]_vars => StreamInv'
<1> SUFFICES ASSUME StreamInv, [Next]_vars PROVE StreamInv'
  OBVIOUS
<1>1. CASE UNCHANGED vars
  <2>1. StreamTypeOK'
    BY <1>1 DEF vars, StreamInv, StreamTypeOK
  <2>2. StepsNumbered'
    BY <1>1 DEF vars, StreamInv, StepsNumbered, StepsSent, StepsReady, Posted, Finished
  <2>3. OutcomeOnce'
    BY <1>1 DEF vars, StreamInv, OutcomeOnce, StepsSent, StepsReady, Posted, Finished
  <2>4. GeneratorSound'
    BY <1>1 DEF vars, StreamInv, GeneratorSound, StepsSent, StepsReady, Posted, Finished
  <2>5. ClientSound'
    BY <1>1 DEF vars, StreamInv, ClientSound, ShownAfter
  <2>6. QED
    BY <2>1, <2>2, <2>3, <2>4, <2>5 DEF StreamInv
<1>2. CASE Next
  BY <1>2, StartTurnKeepsInv, EmitStepKeepsInv, FinishTurnKeepsInv,
     RunCallbackKeepsInv, StartGeneratorKeepsInv, YieldStepKeepsInv, TimeOutKeepsInv,
     ResumeKeepsInv, DrainKeepsInv, YieldTerminalKeepsInv, CancelKeepsInv,
     ReadEventKeepsInv, EndOfStreamKeepsInv, RequestErrorKeepsInv DEF Next
<1>3. QED
  BY <1>1, <1>2

LEMMA InvAlways == Spec => []StreamInv
BY InitEstablishesInv, NextKeepsInv, PTL DEF Spec

\* Every event, callback and queued item is one there can be.
THEOREM StreamTypesHold == Spec => []StreamTypeOK
<1>1. StreamInv => StreamTypeOK
  BY DEF StreamInv
<1>2. QED
  BY <1>1, InvAlways, PTL

LEMMA FirstStepsProperties ==
  ASSUME NEW n \in 0 .. MaxSteps
  PROVE  /\ FirstSteps(n) \in Seq(Steps)
         /\ Len(FirstSteps(n)) = n
         /\ \A i \in 1 .. n : FirstSteps(n)[i] = Step(i)
<1>1. n \in Nat /\ \A i \in 1 .. n : Step(i) \in Steps
  BY StreamAssumption DEF Steps
<1>2. QED
  BY <1>1, IsASeq DEF FirstSteps

\* A sequence that is the first n steps and one more event.
LEMMA FirstStepsAndLast ==
  ASSUME NEW S, NEW s \in Seq(S), NEW n \in 0 .. MaxSteps, NEW last,
         Len(s) = n + 1,
         \A i \in 1 .. n : s[i] = Step(i),
         s[n + 1] = last
  PROVE  s = Append(FirstSteps(n), last)
<1> DEFINE t == Append(FirstSteps(n), last)
           All == S \cup Steps \cup {last}
<1>1. /\ FirstSteps(n) \in Seq(All)
      /\ Len(FirstSteps(n)) = n
      /\ \A i \in 1 .. n : FirstSteps(n)[i] = Step(i)
      /\ n \in Nat
  BY FirstStepsProperties, SeqMonotonic, StreamAssumption
<1>2. /\ t \in Seq(All) /\ Len(t) = n + 1
      /\ \A i \in 1 .. n : t[i] = Step(i)
      /\ t[n + 1] = last
  BY <1>1, AppendProperties
<1>3. s \in Seq(All)
  BY SeqMonotonic
<1> HIDE DEF t, All
<1>4. \A i \in 1 .. Len(s) : s[i] = t[i]
  BY <1>1, <1>2
<1>5. QED
  BY <1>2, <1>3, <1>4, SeqEqual DEF t

\* A stream that ends has carried every step of the turn, in order, and after
\* them its outcome, for turns of any length (student.py:149-168).
THEOREM StreamsAreComplete == Spec => []CompleteStream
<1>1. ASSUME StreamInv, generator = "ended"
      PROVE  sent = Append(FirstSteps(emitted), Outcome(ResultOf(worker)))
  <2>1. queue = <<>> /\ StepsReady = 0 /\ sent \in Seq(Events) /\ Len(sent) \in Nat
          /\ emitted \in 0 .. MaxSteps
    BY <1>1 DEF StreamInv, GeneratorSound, OutcomeOnce, StepsReady, Posted, StreamTypeOK
  <2>2. Len(sent) = emitted + 1
    BY <1>1, <2>1 DEF StreamInv, StepsNumbered, StepsSent
  <2>3. \A i \in 1 .. emitted : sent[i] = Step(i)
    BY <1>1, <2>1, <2>2, StreamAssumption DEF StreamInv, StepsNumbered, StepsSent
  <2>4. sent[emitted + 1] = Outcome(ResultOf(worker))
    BY <1>1, <2>2 DEF StreamInv, OutcomeOnce
  <2>5. QED
    BY <2>1, <2>2, <2>3, <2>4, FirstStepsAndLast
<1>2. StreamInv => CompleteStream
  BY <1>1 DEF CompleteStream
<1>3. QED
  BY <1>2, InvAlways, PTL

\* The student sees the steps of a turn from the first on, in order, and the
\* answer after all of them (app.py:231-262).
THEOREM StepsAreShownInOrder == Spec => []ShownInOrder
<1>1. ASSUME StreamInv PROVE ShownInOrder
  <2>1. /\ shown \in Seq(Steps \cup {Outcome("answer"), Outcome("apology")})
        /\ emitted \in 0 .. MaxSteps /\ emitted \in Nat /\ Len(shown) \in Nat
    BY <1>1, StreamAssumption DEF StreamInv, StreamTypeOK
  <2>2. \A n \in 0 .. emitted : n \in 0 .. MaxSteps
    BY <2>1, StreamAssumption
  <2>3. CASE client \in {"reading", "result"}
    <3>1. Len(shown) \in 0 .. emitted /\ \A i \in 1 .. Len(shown) : shown[i] = Step(i)
      BY <1>1, <2>1, <2>3 DEF StreamInv, ClientSound
    <3>2. FirstSteps(Len(shown)) \in Seq(Steps \cup {Outcome("answer"), Outcome("apology")})
            /\ Len(FirstSteps(Len(shown))) = Len(shown)
            /\ \A i \in 1 .. Len(shown) : FirstSteps(Len(shown))[i] = Step(i)
      BY <2>2, <3>1, FirstStepsProperties, SeqMonotonic
    <3>3. shown = FirstSteps(Len(shown))
      BY <2>1, <3>1, <3>2, SeqEqual
    <3>4. QED
      BY <3>1, <3>3 DEF ShownInOrder
  <2>4. CASE client = "answered"
    <3>1. worker = "returned" /\ ShownAfter(emitted, "answer")
      BY <1>1, <2>4 DEF StreamInv, ClientSound
    <3>2. shown = Append(FirstSteps(emitted), Outcome("answer"))
      BY <2>1, <3>1, FirstStepsAndLast DEF ShownAfter
    <3>3. emitted \in 0 .. emitted
      BY <2>1
    <3>4. QED
      BY <3>1, <3>2, <3>3 DEF ShownInOrder
  <2>5. CASE client = "apologised"
    <3>1. PICK n \in 0 .. emitted : ShownAfter(n, "apology")
      BY <1>1, <2>5 DEF StreamInv, ClientSound
    <3>2. shown = Append(FirstSteps(n), Outcome("apology"))
      BY <2>1, <2>2, <3>1, FirstStepsAndLast DEF ShownAfter
    <3>3. QED
      BY <3>2 DEF ShownInOrder
  <2>6. QED
    BY <1>1, <2>3, <2>4, <2>5 DEF StreamInv, StreamTypeOK, ClientPoints
<1>2. QED
  BY <1>1, InvAlways, PTL

\* on_message ends with an answer or an apology, never in silence.
THEOREM StreamsAreNeverSilent == Spec => []NeverSilent
<1>1. ASSUME StreamInv, client \in {"answered", "apologised"}
      PROVE  shown # <<>> /\ shown[Len(shown)].type \in {"answer", "apology"}
  <2>1. PICK n \in Nat, last \in {"answer", "apology"} : ShownAfter(n, last)
    BY <1>1, StreamAssumption DEF StreamInv, StreamTypeOK, ClientSound
  <2>2. Len(shown) = n + 1 /\ shown[n + 1] = Outcome(last)
    BY <2>1 DEF ShownAfter
  <2>3. shown # <<>>
    BY <2>2
  <2>4. QED
    BY <2>2, <2>3, EventsDiffer
<1>2. StreamInv => NeverSilent
  BY <1>1 DEF NeverSilent
<1>3. QED
  BY <1>2, InvAlways, PTL

=============================================================================
