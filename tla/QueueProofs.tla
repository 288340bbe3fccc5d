----------------------------- MODULE QueueProofs -----------------------------
(***************************************************************************)
(* Proofs about the analysis queue under its calling protocol, for every   *)
(* number of work threads, analyzers and packets and every buffer size.    *)
(*                                                                         *)
(* The argument.  A work thread sets done only when job_queue is empty and *)
(* it holds no analyzer, and job_queue is refilled only after done was     *)
(* read from every thread; so "all done" means that every analyzer went    *)
(* over the whole analysis buffer, which is when the buffers may rotate.   *)
(* Between two rotations an analyzer is queued, held by one thread at a    *)
(* known position, or finished, and that says how far its log reaches.     *)
(***************************************************************************)
EXTENDS QueueProtocol, TLAPS

Idle(w) == worker[w].pc = "pop" /\ ~ hasWork[w]

Handshake ==
    /\ \A w \in Worker : done[w] => Idle(w)
    /\ \A w \in Worker : worker[w].pc # "pop" => hasWork[w]
    /\ \A w \in Worker : done[w] => queue.jobs = <<>>
    /\ StartFindsThreadsParked

\* The packets handed over before those of the two buffers.
Settled == Len(pushed) - Len(queue.fout) - Len(queue.analysis)

Buffered ==
    /\ Settled \in Nat
    /\ \A i \in 1 .. Len(queue.analysis) : pushed[Settled + i] = queue.analysis[i]
    /\ \A i \in 1 .. Len(queue.fout) :
           pushed[Settled + Len(queue.analysis) + i] = queue.fout[i]
    /\ mode \in {"drain", "waitFront", "rotateFront"} => queue.fout = <<>>
    /\ mode = "paused" => queue.analysis = <<>>

Busy(w, a) == worker[w].pc = "process" /\ worker[w].item = a
Queued(a) == \E i \in 1 .. Len(queue.jobs) : queue.jobs[i] = a

\* The constructor queues each analyzer several times, over an empty buffer.
OneHolder ==
    /\ \A w \in Worker : worker[w].pc = "process" => worker[w].item \in Analyzer
    /\ queue.analysis # <<>> =>
        /\ \A i, j \in 1 .. Len(queue.jobs) : queue.jobs[i] = queue.jobs[j] => i = j
        /\ \A v, w \in Worker, a \in Analyzer : Busy(v, a) /\ Busy(w, a) => v = w
        /\ \A w \in Worker, a \in Analyzer : Busy(w, a) => ~ Queued(a)

\* How far an analyzer is.
Reached(a) ==
    /\ mode = "drain" \/ Queued(a) => Len(log[a]) = Settled
    /\ \A w \in Worker : Busy(w, a) =>
           /\ worker[w].pos <= Len(queue.analysis)
           /\ Len(log[a]) = Settled + worker[w].pos
    /\ mode # "drain" /\ ~ Queued(a) /\ (\A w \in Worker : ~ Busy(w, a))
           => Len(log[a]) = Settled + Len(queue.analysis)

Progress == \A a \in Analyzer : Reached(a)

Prefixes ==
    \A a \in Analyzer :
        /\ Len(log[a]) <= Len(pushed)
        /\ \A i \in 1 .. Len(log[a]) : log[a][i] = pushed[i]

IInv == TypeOK /\ Handshake /\ Buffered /\ OneHolder /\ Progress /\ Prefixes

(***************************************************************************)
(* The work loop() and start() post: every analyzer once.                  *)
(***************************************************************************)
LEMMA WorkItemsType ==
    /\ WorkItems \in Seq(Analyzer)
    /\ Len(WorkItems) = NumAnalyzers
    /\ \A i \in 1 .. NumAnalyzers : WorkItems[i] = i
<1>1. NumAnalyzers \in Nat
  BY QueueAssumption
<1>2. WorkItems \in [1 .. NumAnalyzers -> Analyzer]
  BY DEF WorkItems, Analyzer
<1>3. WorkItems \in Seq(Analyzer)
  BY <1>1, <1>2
<1>4. Len(WorkItems) = NumAnalyzers
  BY <1>1, <1>2, <1>3
<1> QED
  BY <1>3, <1>4 DEF WorkItems, Analyzer

\* Posting to an empty job_queue.
LEMMA Posting ==
    ASSUME NEW q \in Queues, q.jobs = <<>>
    PROVE  /\ WorkPosted(q) \in Queues
           /\ WorkPosted(q).fout = q.fout
           /\ WorkPosted(q).analysis = q.analysis
           /\ WorkPosted(q).jobs = WorkItems
<1>1. q.jobs \in Seq(Analyzer)
  BY DEF Queues
<1>2. WorkItems \o q.jobs = WorkItems
  BY WorkItemsType
<1> QED
  BY <1>2, WorkItemsType DEF WorkPosted, Queues

\* Posting to any job_queue.
LEMMA PostingType ==
    ASSUME NEW q \in Queues
    PROVE  /\ WorkPosted(q) \in Queues
           /\ WorkPosted(q).fout = q.fout
           /\ WorkPosted(q).analysis = q.analysis
<1>1. q.fout \in Seq(Packet) /\ q.analysis \in Seq(Packet) /\ q.jobs \in Seq(Analyzer)
  BY DEF Queues
<1>2. WorkItems \o q.jobs \in Seq(Analyzer)
  BY <1>1, WorkItemsType
<1> DEFINE posted == WorkItems \o q.jobs
<1> HIDE DEF posted
<1>3. [q EXCEPT !.jobs = posted] \in Queues
  BY <1>1, <1>2 DEF Queues, posted
<1>4. [q EXCEPT !.jobs = posted].fout = q.fout /\ [q EXCEPT !.jobs = posted].analysis = q.analysis
  BY DEF Queues
<1> QED
  BY <1>3, <1>4 DEF WorkPosted, posted

LEMMA Rotation ==
    ASSUME NEW q \in Queues
    PROVE  /\ Rotated(q) \in Queues
           /\ Rotated(q).fout = <<>>
           /\ Rotated(q).analysis = q.fout
           /\ Rotated(q).jobs = q.jobs
<1> DEFINE front == q.fout
           none == <<>>
<1>1. front \in Seq(Packet) /\ none \in Seq(Packet)
  BY DEF Queues
<1> HIDE DEF front, none
<1>2. [q EXCEPT !.fout = none] \in Queues
  BY <1>1 DEF Queues
<1>3. [[q EXCEPT !.fout = none] EXCEPT !.analysis = front] \in Queues
  BY <1>1, <1>2 DEF Queues
<1>4. Rotated(q) = [[q EXCEPT !.fout = none] EXCEPT !.analysis = front]
  BY DEF Rotated, front, none
<1>5. Rotated(q) \in Queues
  BY <1>3, <1>4
<1>6. Rotated(q).fout = <<>>
  BY DEF Rotated, Queues
<1>7. Rotated(q).analysis = q.fout
  BY DEF Rotated, Queues
<1>8. Rotated(q).jobs = q.jobs
  BY DEF Rotated, Queues
<1> QED
  BY <1>5, <1>6, <1>7, <1>8

LEMMA Storing ==
    ASSUME NEW q \in Queues, NEW pkt \in Packet
    PROVE  /\ Stored(q, pkt) \in Queues
           /\ Stored(q, pkt).fout = Append(q.fout, pkt)
           /\ Stored(q, pkt).analysis = q.analysis
           /\ Stored(q, pkt).jobs = q.jobs
<1> DEFINE longer == Append(q.fout, pkt)
<1>1. longer \in Seq(Packet)
  BY DEF Queues
<1> HIDE DEF longer
<1>2. [q EXCEPT !.fout = longer] \in Queues
  BY <1>1 DEF Queues
<1>3. [q EXCEPT !.fout = longer].fout = longer
  BY DEF Queues
<1>4. [q EXCEPT !.fout = longer].analysis = q.analysis /\ [q EXCEPT !.fout = longer].jobs = q.jobs
  BY DEF Queues
<1> QED
  BY <1>2, <1>3, <1>4 DEF Stored, longer

(***************************************************************************)
(* What a producer knows when all work threads are done.                   *)
(***************************************************************************)
LEMMA AllDoneFacts ==
    ASSUME IInv, AllDone
    PROVE  /\ queue.jobs = <<>>
           /\ \A w \in Worker : Idle(w)
           /\ mode # "drain" => \A a \in Analyzer : Len(log[a]) = Settled + Len(queue.analysis)
<1>1. queue.jobs = <<>>
  BY ProtocolAssumption DEF IInv, Handshake, AllDone
<1>2. \A w \in Worker : Idle(w)
  BY DEF IInv, Handshake, AllDone
<1>3. ASSUME NEW a \in Analyzer
      PROVE  ~ Queued(a) /\ \A w \in Worker : ~ Busy(w, a)
  BY <1>1, <1>2 DEF Queued, Busy, Idle
<1> QED
  BY <1>1, <1>2, <1>3 DEF IInv, Progress, Reached

(***************************************************************************)
(* The initial state.                                                      *)
(***************************************************************************)
LEMMA ConstructedQueue ==
    /\ Constructed(FirstFrame, FirstScene) \in Queues
    /\ Constructed(FirstFrame, FirstScene).fout = <<FirstScene>>
    /\ Constructed(FirstFrame, FirstScene).analysis = <<>>
<1> DEFINE q0 == [fout |-> <<>>, analysis |-> <<>>, jobs |-> <<>>]
<1>1. q0 \in Queues
  BY DEF Queues
<1>2. ASSUME NEW q \in Queues, NEW pkt \in Packet
      PROVE  /\ AfterSync(q, pkt) \in Queues
             /\ AfterSync(q, pkt).fout = <<pkt>>
             /\ AfterSync(q, pkt).analysis = <<>>
  <2>1. /\ Rotated(q) \in Queues
        /\ Rotated(q).fout = <<>>
    BY Rotation
  <2> DEFINE q1 == WorkPosted(Rotated(q))
  <2>2. q1 \in Queues /\ q1.fout = <<>>
    BY <2>1, PostingType
  <2> DEFINE q2 == Rotated(q1)
  <2> HIDE DEF q1
  <2>3. q2 \in Queues /\ q2.fout = <<>> /\ q2.analysis = <<>>
    BY <2>2, Rotation
  <2> HIDE DEF q2
  <2> DEFINE q3 == Stored(q2, pkt)
  <2>4. q3 \in Queues /\ q3.fout = <<pkt>> /\ q3.analysis = <<>>
    BY <2>3, Storing
  <2> HIDE DEF q3
  <2>5. WorkPosted(q3) \in Queues /\ WorkPosted(q3).fout = <<pkt>> /\ WorkPosted(q3).analysis = <<>>
    BY <2>4, PostingType
  <2> QED
    BY <2>5 DEF AfterSync, q1, q2, q3
<1> HIDE DEF q0
<1>3. AfterSync(q0, FirstFrame) \in Queues
  BY <1>1, <1>2, ProtocolAssumption
<1> DEFINE q1 == AfterSync(q0, FirstFrame)
           q2 == AfterSync(q1, FirstScene)
<1>4. q1 \in Queues
  BY <1>3
<1> HIDE DEF q1
<1>5. q2 \in Queues /\ q2.fout = <<FirstScene>> /\ q2.analysis = <<>>
  BY <1>4, <1>2, ProtocolAssumption
<1> HIDE DEF q2
<1>6. WorkPosted(q2) \in Queues /\ WorkPosted(q2).fout = <<FirstScene>> /\ WorkPosted(q2).analysis = <<>>
  BY <1>5, PostingType
<1> QED
  BY <1>6 DEF Constructed, q0, q1, q2

LEMMA InitIInv == Init => IInv
<1> SUFFICES ASSUME Init PROVE IInv
  OBVIOUS
<1>1. /\ queue \in Queues
      /\ queue.fout = <<FirstScene>>
      /\ queue.analysis = <<>>
      /\ pushed = <<FirstScene>>
  BY ConstructedQueue DEF Init, QueueInit
<1>2. pushed \in Seq(Packet)
  BY <1>1, ProtocolAssumption
<1>3. log = [a \in Analyzer |-> <<>>] /\ mode = "running"
  BY DEF Init, QueueInit
<1>4. worker = [w \in Worker |-> [pc |-> "pop", item |-> 0, pos |-> 0]]
  BY DEF Init, QueueInit
<1>5. hasWork = [w \in Worker |-> TRUE] /\ done = [w \in Worker |-> FALSE] /\ producerMtx = NoThread
  BY DEF Init, QueueInit
<1>6. TypeOK
  <2>1. worker \in [Worker -> WorkerStates]
    BY <1>4 DEF WorkerStates
  <2>2. log \in [Analyzer -> Seq(Packet)]
    BY <1>3
  <2> QED
    BY <1>1, <1>2, <1>3, <1>5, <2>1, <2>2 DEF TypeOK, QueueTypeOK, Modes
<1>7. Handshake
  BY <1>3, <1>4, <1>5 DEF Handshake, StartFindsThreadsParked, Parked
<1>8. Settled = 0
  <2>1. Len(pushed) = 1 /\ Len(queue.fout) = 1 /\ Len(queue.analysis) = 0
    BY <1>1
  <2> QED
    BY <2>1 DEF Settled
<1>9. Buffered
  BY <1>1, <1>3, <1>8 DEF Buffered
<1>10. OneHolder
  BY <1>1, <1>4 DEF OneHolder
<1>11. Progress /\ Prefixes
  BY <1>1, <1>3, <1>4, <1>8 DEF Progress, Reached, Prefixes, Busy
<1> QED
  BY <1>6, <1>7, <1>9, <1>10, <1>11 DEF IInv

(***************************************************************************)
(* The steps of a work thread.  None is possible while a pause has the     *)
(* threads parked.                                                         *)
(***************************************************************************)
LEMMA WorkerAwake ==
    ASSUME IInv, NEW w \in Worker, WorkerStep(w)
    PROVE  ~ Parked /\ hasWork[w]
<1>1. hasWork[w]
  BY DEF WorkerStep, Wake, PopEmpty, Pop, Process, HasPacket, NextPacket, SignalProducer, IInv, Handshake
<1> QED
  BY <1>1 DEF IInv, Handshake, StartFindsThreadsParked

\* A step that moves w to pc, holding what it held.
LEMMA MoveTo ==
    ASSUME IInv, NEW w \in Worker, NEW pc \in {"pop", "woken"},
           worker' = [worker EXCEPT ![w].pc = pc]
    PROVE  /\ worker' \in [Worker -> WorkerStates]
           /\ worker'[w].pc = pc
           /\ \A v \in Worker \ {w} : worker'[v] = worker[v]
<1>1. worker \in [Worker -> WorkerStates]
  BY DEF IInv, TypeOK, QueueTypeOK
<1>2. [worker[w] EXCEPT !.pc = pc] \in WorkerStates
  BY <1>1 DEF WorkerStates
<1>3. worker' = [worker EXCEPT ![w] = [worker[w] EXCEPT !.pc = pc]]
  OBVIOUS
<1>4. worker' \in [Worker -> WorkerStates]
  BY <1>1, <1>2, <1>3
<1>5. worker'[w] = [worker[w] EXCEPT !.pc = pc]
  BY <1>1, <1>3
<1>6. worker'[w].pc = pc
  BY <1>1, <1>5 DEF WorkerStates
<1> QED
  BY <1>1, <1>3, <1>4, <1>6

\* Wake, PopEmpty and SignalProducer: the thread keeps or gives up its analyzer
\* when there is nothing left for it to process, and may report itself done.
LEMMA MoveIInv ==
    ASSUME IInv, NEW w \in Worker, NEW pc \in {"pop", "woken"},
           ~ Parked,
           worker' = [worker EXCEPT ![w].pc = pc],
           UNCHANGED <<queue, producerMtx, log, pushed, mode>>,
           \/ pc = "woken" /\ hasWork[w] /\ UNCHANGED <<hasWork, done>>
           \/ pc = "pop" /\ queue.jobs = <<>> /\ NoMoreJobs(w)
           \/ pc = "pop" /\ hasWork[w] /\ UNCHANGED <<hasWork, done>>,
           worker[w].pc = "process" => worker[w].pos >= Len(queue.analysis)
    PROVE  IInv'
<1>1. /\ worker' \in [Worker -> WorkerStates]
      /\ worker'[w].pc = pc
      /\ \A v \in Worker \ {w} : worker'[v] = worker[v]
  BY MoveTo
<1>2. /\ hasWork' \in [Worker -> BOOLEAN]
      /\ done' \in [Worker -> BOOLEAN]
      /\ \A v \in Worker \ {w} : hasWork'[v] = hasWork[v] /\ done'[v] = done[v]
  BY DEF IInv, TypeOK, QueueTypeOK, NoMoreJobs
<1>3. \/ pc = "woken" /\ hasWork'[w] /\ hasWork[w] /\ done'[w] = done[w]
      \/ pc = "pop" /\ queue.jobs = <<>> /\ ~ hasWork'[w] /\ done'[w]
      \/ pc = "pop" /\ hasWork'[w] /\ hasWork[w] /\ done'[w] = done[w]
  BY DEF IInv, TypeOK, QueueTypeOK, NoMoreJobs
<1>4. TypeOK'
  BY <1>1, <1>2 DEF IInv, TypeOK, QueueTypeOK
<1>5. Handshake'
  <2>1. ~ Parked'
    BY DEF Parked
  <2>2. ASSUME NEW v \in Worker
        PROVE  /\ done'[v] => worker'[v].pc = "pop" /\ ~ hasWork'[v] /\ queue.jobs = <<>>
               /\ worker'[v].pc # "pop" => hasWork'[v]
    <3>1. CASE v = w
      BY <1>1, <1>3, <3>1 DEF IInv, Handshake, Idle
    <3>2. CASE v # w
      BY <1>1, <1>2, <3>2 DEF IInv, Handshake, Idle
    <3> QED
      BY <3>1, <3>2
  <2> QED
    BY <2>1, <2>2 DEF Handshake, StartFindsThreadsParked, Idle
<1>6. Settled' = Settled
  BY DEF Settled
<1>7. Buffered'
  BY <1>6 DEF IInv, Buffered
<1>8. ASSUME NEW v \in Worker, NEW a \in Analyzer
      PROVE  Busy(v, a)' => v # w /\ Busy(v, a)
  BY <1>1 DEF Busy
<1>9. ASSUME NEW a \in Analyzer
      PROVE  Queued(a)' <=> Queued(a)
  BY DEF Queued
<1>10. OneHolder'
  <2>1. ASSUME NEW v \in Worker, worker'[v].pc = "process"
        PROVE  worker'[v].item \in Analyzer
    BY <1>1, <2>1 DEF IInv, OneHolder
  <2> QED
    BY <2>1, <1>8, <1>9 DEF IInv, OneHolder
<1>11. Progress'
  <2> SUFFICES ASSUME NEW a \in Analyzer
               PROVE  Reached(a)'
    BY DEF Progress
  <2>1. Reached(a)
    BY DEF IInv, Progress
  <2>2. ASSUME NEW v \in Worker, Busy(v, a)'
        PROVE  worker'[v] = worker[v] /\ Busy(v, a)
    BY <1>1, <1>8, <2>2
  <2>3. ASSUME mode # "drain", ~ Queued(a), \A v \in Worker : ~ Busy(v, a)'
        PROVE  Len(log[a]) = Settled + Len(queue.analysis)
    <3>1. CASE Busy(w, a)
      <4>1. worker[w].pos \in Nat /\ Len(queue.analysis) \in Nat
        BY DEF IInv, TypeOK, QueueTypeOK, WorkerStates, Queues
      <4>2. worker[w].pos = Len(queue.analysis)
        BY <2>1, <3>1, <4>1 DEF Reached, Busy
      <4> QED
        BY <2>1, <3>1, <4>2 DEF Reached
    <3>2. CASE ~ Busy(w, a)
      <4>1. \A v \in Worker : ~ Busy(v, a)
        BY <1>1, <2>3, <3>2 DEF Busy
      <4> QED
        BY <2>1, <2>3, <4>1 DEF Reached
    <3> QED
      BY <3>1, <3>2
  <2> QED
    BY <1>6, <1>9, <2>1, <2>2, <2>3 DEF Reached
<1>12. Prefixes'
  BY DEF IInv, Prefixes
<1> QED
  BY <1>4, <1>5, <1>7, <1>10, <1>11, <1>12 DEF IInv

LEMMA WakeIInv ==
    ASSUME IInv, NEW w \in Worker, Wake(w), UNCHANGED mode
    PROVE  IInv'
<1>1. ~ Parked
  BY WorkerAwake DEF WorkerStep
<1> QED
  BY <1>1, MoveIInv DEF Wake

LEMMA PopEmptyIInv ==
    ASSUME IInv, NEW w \in Worker, PopEmpty(w), UNCHANGED mode
    PROVE  IInv'
<1>1. ~ Parked
  BY WorkerAwake DEF WorkerStep
<1> QED
  BY <1>1, MoveIInv DEF PopEmpty

LEMMA SignalProducerIInv ==
    ASSUME IInv, NEW w \in Worker, SignalProducer(w), UNCHANGED mode
    PROVE  IInv'
<1>1. ~ Parked /\ hasWork[w]
  BY WorkerAwake DEF WorkerStep
<1> QED
  BY <1>1, MoveIInv DEF SignalProducer

\* A thread takes the analyzer at the head of job_queue.
LEMMA PopIInv ==
    ASSUME IInv, NEW w \in Worker, Pop(w), UNCHANGED mode
    PROVE  IInv'
<1> DEFINE rest == Tail(queue.jobs)
           n == Len(queue.jobs)
<1>1. ~ Parked /\ hasWork[w]
  BY WorkerAwake DEF WorkerStep
<1>2. queue \in Queues /\ queue.jobs \in Seq(Analyzer) /\ queue.jobs # <<>>
  BY DEF IInv, TypeOK, QueueTypeOK, Queues, Pop
<1>0. PICK b \in Analyzer : b = Head(queue.jobs)
  BY <1>2
<1>3. /\ b = queue.jobs[1]
      /\ rest \in Seq(Analyzer)
      /\ n \in Nat \ {0} /\ Len(rest) = n - 1
      /\ \A i \in 1 .. n - 1 : rest[i] = queue.jobs[i + 1]
  BY <1>2, <1>0
<1>4. queue' = [queue EXCEPT !.jobs = rest]
  BY DEF Pop
<1>5. worker' = [worker EXCEPT ![w] = [pc |-> "process", item |-> b, pos |-> 0]]
  BY <1>0 DEF Pop
<1> HIDE DEF rest, n
<1>6. /\ queue' \in Queues
      /\ queue'.jobs = rest /\ queue'.fout = queue.fout /\ queue'.analysis = queue.analysis
  BY <1>2, <1>3, <1>4 DEF Queues
<1>7. worker \in [Worker -> WorkerStates]
  BY DEF IInv, TypeOK, QueueTypeOK
<1>8. [pc |-> "process", item |-> b, pos |-> 0] \in WorkerStates
  BY <1>3 DEF WorkerStates
<1>9. /\ worker' \in [Worker -> WorkerStates]
      /\ worker'[w].pc = "process" /\ worker'[w].item = b /\ worker'[w].pos = 0
      /\ \A v \in Worker \ {w} : worker'[v] = worker[v]
  BY <1>5, <1>7, <1>8
<1>10. UNCHANGED <<hasWork, done, producerMtx, log, pushed, mode>>
  BY DEF Pop
<1>11. worker[w].pc = "woken"
  BY DEF Pop
<1>12. TypeOK'
  BY <1>6, <1>9, <1>10 DEF IInv, TypeOK, QueueTypeOK
<1>13. Handshake'
  <2>1. ~ Parked'
    BY <1>1, <1>10 DEF Parked
  <2>2. \A v \in Worker : ~ done[v]
    BY <1>2 DEF IInv, Handshake
  <2> QED
    BY <2>1, <2>2, <1>1, <1>9, <1>10 DEF IInv, Handshake, StartFindsThreadsParked
<1>14. Settled' = Settled
  BY <1>6, <1>10 DEF Settled
<1>15. Buffered'
  BY <1>6, <1>10, <1>14 DEF IInv, Buffered
<1>16. ASSUME NEW v \in Worker, NEW a \in Analyzer
       PROVE  Busy(v, a)' <=> IF v = w THEN a = b ELSE Busy(v, a)
  BY <1>9 DEF Busy
<1>17. ASSUME NEW a \in Analyzer, Queued(a)'
       PROVE  \E i \in 2 .. n : queue.jobs[i] = a
  <2>1. PICK i \in 1 .. n - 1 : rest[i] = a
    BY <1>3, <1>6, <1>17 DEF Queued
  <2> QED
    BY <1>3, <2>1
<1>18. Queued(b)
  BY <1>3 DEF Queued, n
<1>19. ASSUME NEW a \in Analyzer
       PROVE  (Queued(a)' => Queued(a)) /\ (Queued(a) => Queued(a)' \/ a = b)
  <2>1. Queued(a)' => Queued(a)
    BY <1>3, <1>17 DEF Queued, n
  <2>2. ASSUME Queued(a), a # b
        PROVE  Queued(a)'
    <3>1. PICK i \in 1 .. n : queue.jobs[i] = a
      BY <2>2 DEF Queued, n
    <3>2. i # 1 /\ i - 1 \in 1 .. n - 1 /\ rest[i - 1] = a
      BY <1>3, <2>2, <3>1
    <3> QED
      BY <1>3, <1>6, <3>2 DEF Queued
  <2> QED
    BY <2>1, <2>2
<1>20. queue.analysis # <<>> => ~ Queued(b)' /\ \A v \in Worker : ~ Busy(v, b)
  <2> SUFFICES ASSUME queue.analysis # <<>>
               PROVE  ~ Queued(b)' /\ \A v \in Worker : ~ Busy(v, b)
    OBVIOUS
  <2>1. \A i, j \in 1 .. n : queue.jobs[i] = queue.jobs[j] => i = j
    BY DEF IInv, OneHolder, n
  <2>2. ~ Queued(b)'
    BY <1>3, <1>17, <2>1
  <2> QED
    BY <1>3, <1>18, <2>2 DEF IInv, OneHolder
<1>21. OneHolder'
  <2>1. ASSUME NEW v \in Worker, worker'[v].pc = "process"
        PROVE  worker'[v].item \in Analyzer
    BY <1>3, <1>9, <2>1 DEF IInv, OneHolder
  <2>2. ASSUME queue.analysis # <<>>
        PROVE  \A i, j \in 1 .. n - 1 : rest[i] = rest[j] => i = j
    <3>1. \A i, j \in 1 .. n : queue.jobs[i] = queue.jobs[j] => i = j
      BY <2>2 DEF IInv, OneHolder, n
    <3> QED
      BY <1>3, <3>1
  <2>3. ASSUME queue.analysis # <<>>, NEW v \in Worker, NEW u \in Worker, NEW a \in Analyzer,
               Busy(v, a)', Busy(u, a)'
        PROVE  v = u
    BY <1>16, <1>20, <2>3 DEF IInv, OneHolder
  <2>4. ASSUME queue.analysis # <<>>, NEW v \in Worker, NEW a \in Analyzer, Busy(v, a)'
        PROVE  ~ Queued(a)'
    BY <1>16, <1>19, <1>20, <2>4 DEF IInv, OneHolder
  <2> QED
    BY <1>3, <1>6, <2>1, <2>2, <2>3, <2>4 DEF OneHolder
<1>22. Progress'
  <2> SUFFICES ASSUME NEW a \in Analyzer
               PROVE  Reached(a)'
    BY DEF Progress
  <2>1. Reached(a) /\ Reached(b)
    BY <1>3 DEF IInv, Progress
  <2>2. Len(log[b]) = Settled
    BY <1>18, <2>1 DEF Reached
  <2>3. Settled \in Nat /\ Len(queue.analysis) \in Nat
    BY <1>2 DEF IInv, Buffered, Queues
  <2>4. mode # "drain"
    BY <1>1 DEF Parked
  <2>5. Queued(a)' => Len(log[a]) = Settled
    BY <1>19, <2>1 DEF Reached
  <2>6. ASSUME NEW v \in Worker, Busy(v, a)'
        PROVE  worker'[v].pos <= Len(queue.analysis) /\ Len(log[a]) = Settled + worker'[v].pos
    <3>1. CASE v = w
      BY <1>9, <1>16, <2>2, <2>3, <2>6, <3>1
    <3>2. CASE v # w
      BY <1>9, <1>16, <2>1, <2>6, <3>2 DEF Reached
    <3> QED
      BY <3>1, <3>2
  <2>7. ASSUME ~ Queued(a)', \A v \in Worker : ~ Busy(v, a)'
        PROVE  Len(log[a]) = Settled + Len(queue.analysis)
    <3>1. a # b /\ ~ Queued(a)
      BY <1>16, <1>19, <2>7
    <3>2. \A v \in Worker : ~ Busy(v, a)
      BY <1>11, <1>16, <2>7 DEF Busy
    <3> QED
      BY <2>1, <2>4, <3>1, <3>2 DEF Reached
  <2> QED
    BY <1>6, <1>10, <1>14, <2>4, <2>5, <2>6, <2>7 DEF Reached
<1>23. Prefixes'
  BY <1>10 DEF IInv, Prefixes
<1> QED
  BY <1>12, <1>13, <1>15, <1>21, <1>22, <1>23 DEF IInv

\* An analyzer processes the next packet of the buffer: the one that follows in
\* the stream.
LEMMA ProcessNext ==
    ASSUME IInv, NEW w \in Worker, Process(w)
    PROVE  \E a \in Analyzer :
             /\ Busy(w, a) /\ worker[w].item = a
             /\ worker[w].pos \in Nat
             /\ queue.analysis # <<>>
             /\ worker[w].pos < Len(queue.analysis)
             /\ Len(log[a]) = Settled + worker[w].pos
             /\ Len(log[a]) < Len(pushed)
             /\ queue.analysis[worker[w].pos + 1] = pushed[Len(log[a]) + 1]
             /\ log' = [log EXCEPT ![a] = Append(@, pushed[Len(@) + 1])]
<1>1. PICK a \in Analyzer : worker[w].item = a
  BY DEF Process, HasPacket, NextPacket, IInv, OneHolder
<1>2. /\ worker[w].pos \in Nat
      /\ queue.analysis \in Seq(Packet) /\ queue.fout \in Seq(Packet)
      /\ pushed \in Seq(Packet) /\ log \in [Analyzer -> Seq(Packet)]
  BY DEF IInv, TypeOK, QueueTypeOK, WorkerStates, Queues
<1>3. Busy(w, a) /\ worker[w].pos < Len(queue.analysis)
  BY <1>1 DEF Process, HasPacket, NextPacket, Busy
<1>4. Len(log[a]) = Settled + worker[w].pos
  BY <1>3 DEF IInv, Progress, Reached
<1>5. Settled \in Nat /\ Settled + Len(queue.analysis) <= Len(pushed)
  BY <1>2 DEF IInv, Buffered, Settled
<1>6. pushed[Settled + (worker[w].pos + 1)] = queue.analysis[worker[w].pos + 1]
  <2>1. worker[w].pos + 1 \in 1 .. Len(queue.analysis)
    BY <1>2, <1>3
  <2> QED
    BY <2>1 DEF IInv, Buffered
<1>7. queue.analysis[worker[w].pos + 1] = pushed[Len(log[a]) + 1]
  BY <1>2, <1>4, <1>5, <1>6
<1>8. log' = [log EXCEPT ![a] = Append(@, queue.analysis[worker[w].pos + 1])]
  BY <1>1 DEF Process, HasPacket, NextPacket
<1>9. log' = [log EXCEPT ![a] = Append(@, pushed[Len(@) + 1])]
  BY <1>7, <1>8
<1>10. queue.analysis # <<>>
  BY <1>2, <1>3
<1>11. Len(log[a]) < Len(pushed)
  BY <1>2, <1>3, <1>4, <1>5
<1> QED
  BY <1>1, <1>2, <1>3, <1>4, <1>7, <1>9, <1>10, <1>11

LEMMA ProcessIInv ==
    ASSUME IInv, NEW w \in Worker, Process(w), UNCHANGED mode
    PROVE  IInv'
<1>1. PICK a \in Analyzer :
        /\ Busy(w, a) /\ worker[w].item = a
        /\ worker[w].pos \in Nat
        /\ queue.analysis # <<>>
        /\ worker[w].pos < Len(queue.analysis)
        /\ Len(log[a]) = Settled + worker[w].pos
        /\ Len(log[a]) < Len(pushed)
        /\ log' = [log EXCEPT ![a] = Append(@, pushed[Len(@) + 1])]
  BY ProcessNext
<1>2. ~ Parked /\ hasWork[w]
  BY WorkerAwake DEF WorkerStep
<1>3. UNCHANGED <<queue, hasWork, done, producerMtx, pushed, mode>>
  BY DEF Process, HasPacket, NextPacket
<1>4. /\ worker \in [Worker -> WorkerStates]
      /\ log \in [Analyzer -> Seq(Packet)]
      /\ pushed \in Seq(Packet)
      /\ queue \in Queues
  BY DEF IInv, TypeOK, QueueTypeOK
<1>0. PICK next \in Nat : next = worker[w].pos + 1
  BY <1>1
<1>5. [worker[w] EXCEPT !.pos = next] \in WorkerStates
  BY <1>4 DEF WorkerStates
<1>6. worker' = [worker EXCEPT ![w] = [worker[w] EXCEPT !.pos = next]]
  BY <1>0 DEF Process, HasPacket, NextPacket
<1>7. /\ worker' \in [Worker -> WorkerStates]
      /\ worker'[w] = [worker[w] EXCEPT !.pos = next]
      /\ \A v \in Worker \ {w} : worker'[v] = worker[v]
  BY <1>4, <1>5, <1>6
<1>8. /\ worker'[w].pc = worker[w].pc /\ worker'[w].item = worker[w].item
      /\ worker'[w].pos = next
  BY <1>4, <1>7 DEF WorkerStates
<1>9. pushed[Len(log[a]) + 1] \in Packet
  BY <1>1, <1>4
<1>10. /\ log' \in [Analyzer -> Seq(Packet)]
       /\ log'[a] = Append(log[a], pushed[Len(log[a]) + 1])
       /\ \A c \in Analyzer \ {a} : log'[c] = log[c]
  BY <1>1, <1>4, <1>9
<1>11. Len(log'[a]) = Len(log[a]) + 1
  BY <1>4, <1>9, <1>10
<1>12. TypeOK'
  BY <1>3, <1>7, <1>10 DEF IInv, TypeOK, QueueTypeOK
<1>13. ASSUME NEW v \in Worker
       PROVE  worker'[v].pc = worker[v].pc /\ worker'[v].item = worker[v].item
  BY <1>7, <1>8
<1>14. Handshake'
  <2>1. ~ Parked'
    BY <1>2, <1>3 DEF Parked
  <2> QED
    BY <1>3, <1>13, <2>1 DEF IInv, Handshake, Idle, StartFindsThreadsParked
<1>15. Settled' = Settled
  BY <1>3 DEF Settled
<1>16. Buffered'
  BY <1>3, <1>15 DEF IInv, Buffered
<1>17. ASSUME NEW v \in Worker, NEW c \in Analyzer
       PROVE  Busy(v, c)' <=> Busy(v, c)
  BY <1>13 DEF Busy
<1>18. ASSUME NEW c \in Analyzer
       PROVE  Queued(c)' <=> Queued(c)
  BY <1>3 DEF Queued
<1>19. OneHolder'
  <2>1. \A v \in Worker : worker'[v].pc = "process" => worker'[v].item \in Analyzer
    BY <1>13 DEF IInv, OneHolder
  <2> QED
    BY <1>3, <1>17, <1>18, <2>1 DEF IInv, OneHolder
<1>20. ~ Queued(a) /\ \A v \in Worker : Busy(v, a) => v = w
  BY <1>1 DEF IInv, OneHolder
<1>21. Settled \in Nat /\ Len(queue.analysis) \in Nat
  BY <1>4 DEF IInv, Buffered, Queues
<1>22. Progress'
  <2> SUFFICES ASSUME NEW c \in Analyzer
               PROVE  Reached(c)'
    BY DEF Progress
  <2>1. Reached(c)
    BY DEF IInv, Progress
  <2>2. mode # "drain"
    BY <1>2 DEF Parked
  <2>3. CASE c = a
    <3>1. ASSUME NEW v \in Worker, Busy(v, a)'
          PROVE  worker'[v].pos <= Len(queue.analysis) /\ Len(log'[a]) = Settled + worker'[v].pos
      <4>1. v = w
        BY <1>17, <1>20, <3>1
      <4>2. next <= Len(queue.analysis) /\ Len(log[a]) + 1 = Settled + next
        BY <1>0, <1>1, <1>21
      <4> QED
        BY <1>8, <1>11, <4>1, <4>2
    <3>2. Busy(w, a)'
      BY <1>1, <1>17
    <3> QED
      BY <1>3, <1>15, <1>18, <1>20, <2>2, <2>3, <3>1, <3>2 DEF Reached
  <2>4. CASE c # a
    <3>1. log'[c] = log[c]
      BY <1>10, <2>4
    <3>2. ASSUME NEW v \in Worker, Busy(v, c)'
          PROVE  worker'[v] = worker[v]
      BY <1>1, <1>7, <1>17, <2>4, <3>2 DEF Busy
    <3> QED
      BY <1>3, <1>15, <1>17, <1>18, <2>1, <2>2, <3>1, <3>2 DEF Reached
  <2> QED
    BY <2>3, <2>4
<1>23. Prefixes'
  <2> SUFFICES ASSUME NEW c \in Analyzer
               PROVE  Len(log'[c]) <= Len(pushed) /\ \A i \in 1 .. Len(log'[c]) : log'[c][i] = pushed[i]
    BY <1>3 DEF Prefixes
  <2>1. Len(log[c]) <= Len(pushed) /\ \A i \in 1 .. Len(log[c]) : log[c][i] = pushed[i]
    BY DEF IInv, Prefixes
  <2>2. CASE c # a
    BY <1>10, <2>1, <2>2
  <2>3. CASE c = a
    <3>1. log[a] \in Seq(Packet) /\ Len(pushed) \in Nat
      BY <1>4
    <3>2. ASSUME NEW i \in 1 .. Len(log'[a])
          PROVE  log'[a][i] = pushed[i]
      <4>1. CASE i = Len(log[a]) + 1
        BY <1>9, <1>10, <3>1, <4>1
      <4>2. CASE i # Len(log[a]) + 1
        <5>1. i \in 1 .. Len(log[a])
          BY <1>11, <3>1, <4>2
        <5> QED
          BY <1>9, <1>10, <2>1, <2>3, <3>1, <5>1
      <4> QED
        BY <4>1, <4>2
    <3> QED
      BY <1>1, <1>11, <2>3, <3>1, <3>2
  <2> QED
    BY <2>2, <2>3
<1> QED
  BY <1>12, <1>14, <1>16, <1>19, <1>22, <1>23 DEF IInv

(***************************************************************************)
(* The calls of a producer.                                                *)
(***************************************************************************)
LEMMA PushIInv ==
    ASSUME IInv, NEW t \in Thread, NEW pkt \in Packet, Push(t, pkt), UNCHANGED mode,
           mode \in {"running", "paused"}
    PROVE  IInv'
<1>1. queue \in Queues /\ pushed \in Seq(Packet)
  BY DEF IInv, TypeOK, QueueTypeOK
<1>2. /\ queue' \in Queues
      /\ queue'.fout = Append(queue.fout, pkt)
      /\ queue'.analysis = queue.analysis
      /\ queue'.jobs = queue.jobs
  BY <1>1, Storing DEF Push
<1>3. pushed' = Append(pushed, pkt) /\ pushed' \in Seq(Packet)
  BY <1>1 DEF Push
<1>4. producerMtx' \in Thread \cup {NoThread}
  BY DEF Push
<1>5. UNCHANGED <<hasWork, done, worker, log, mode>>
  BY DEF Push
<1>6. queue.fout \in Seq(Packet) /\ queue.analysis \in Seq(Packet)
  BY <1>1 DEF Queues
<1>7. Len(pushed') = Len(pushed) + 1 /\ Len(queue'.fout) = Len(queue.fout) + 1
  BY <1>1, <1>2, <1>3, <1>6
<1>8. Settled' = Settled /\ Settled \in Nat
  BY <1>1, <1>2, <1>6, <1>7 DEF Settled, IInv, Buffered
<1>9. TypeOK'
  BY <1>2, <1>3, <1>4, <1>5 DEF IInv, TypeOK, QueueTypeOK
<1>10. Handshake'
  BY <1>2, <1>5 DEF IInv, Handshake, Idle, StartFindsThreadsParked, Parked
<1>11. ASSUME NEW i \in 1 .. Len(pushed)
       PROVE  pushed'[i] = pushed[i]
  BY <1>1, <1>3
<1>12. Buffered'
  <2> DEFINE n == Len(queue.analysis)
             f == Len(queue.fout)
             p == Len(pushed)
             s == Settled
  <2>1. p \in Nat /\ f \in Nat /\ n \in Nat /\ s \in Nat
    BY <1>1, <1>6, <1>8
  <2>2. s = p - f - n
    BY DEF Settled
  <2>3. Len(queue'.fout) = f + 1
    BY <1>7
  <2>4. /\ \A i \in 1 .. n : pushed[s + i] = queue.analysis[i]
        /\ \A i \in 1 .. f : pushed[s + n + i] = queue.fout[i]
    BY DEF IInv, Buffered
  <2>5. \A i \in 1 .. p : pushed'[i] = pushed[i]
    BY <1>11
  <2>6. pushed'[p + 1] = pkt /\ queue'.fout[f + 1] = pkt
    BY <1>1, <1>2, <1>3, <1>6
  <2>7. \A i \in 1 .. f : queue'.fout[i] = queue.fout[i]
    BY <1>2, <1>6
  <2> HIDE DEF n, f, p, s
  <2>8. ASSUME NEW i \in 1 .. n
        PROVE  pushed'[s + i] = queue.analysis[i]
    <3>1. s + i \in 1 .. p
      BY <2>1, <2>2
    <3> QED
      BY <2>4, <2>5, <3>1
  <2>9. ASSUME NEW i \in 1 .. f + 1
        PROVE  pushed'[s + n + i] = queue'.fout[i]
    <3>1. CASE i = f + 1
      <4>1. s + n + i = p + 1
        BY <2>1, <2>2, <3>1
      <4> QED
        BY <2>6, <3>1, <4>1
    <3>2. CASE i # f + 1
      <4>1. i \in 1 .. f /\ s + n + i \in 1 .. p
        BY <2>1, <2>2, <3>2
      <4> QED
        BY <2>4, <2>5, <2>7, <4>1
    <3> QED
      BY <3>1, <3>2
  <2> QED
    BY <1>2, <1>5, <1>8, <2>3, <2>8, <2>9 DEF IInv, Buffered, n, f, s
<1>13. ASSUME NEW a \in Analyzer
       PROVE  Queued(a)' <=> Queued(a)
  BY <1>2 DEF Queued
<1>14. ASSUME NEW v \in Worker, NEW a \in Analyzer
       PROVE  Busy(v, a)' <=> Busy(v, a)
  BY <1>5 DEF Busy
<1>15. OneHolder'
  BY <1>2, <1>5, <1>13, <1>14 DEF IInv, OneHolder
<1>16. Progress'
  BY <1>2, <1>5, <1>8, <1>13, <1>14 DEF IInv, Progress, Reached
<1>17. Prefixes'
  <2> SUFFICES ASSUME NEW a \in Analyzer
               PROVE  Len(log[a]) <= Len(pushed') /\ \A i \in 1 .. Len(log[a]) : log[a][i] = pushed'[i]
    BY <1>5 DEF Prefixes
  <2>1. Len(log[a]) \in Nat /\ Len(pushed) \in Nat
    BY <1>1 DEF IInv, TypeOK, QueueTypeOK
  <2>2. Len(log[a]) <= Len(pushed) /\ \A i \in 1 .. Len(log[a]) : log[a][i] = pushed[i]
    BY DEF IInv, Prefixes
  <2> QED
    BY <1>7, <1>11, <2>1, <2>2
<1> QED
  BY <1>9, <1>10, <1>12, <1>15, <1>16, <1>17 DEF IInv

\* A call past the queue, while a pause has everything drained.
LEMMA ProcessAllIInv ==
    ASSUME IInv, NEW pkt \in Packet, ProcessAll(pkt), UNCHANGED mode,
           mode = "paused", queue.fout = <<>>
    PROVE  /\ IInv'
           /\ \A a \in Analyzer : log[a] = pushed
<1>1. queue \in Queues /\ pushed \in Seq(Packet) /\ log \in [Analyzer -> Seq(Packet)]
  BY DEF IInv, TypeOK, QueueTypeOK
<1>2. queue.analysis = <<>> /\ queue.jobs = <<>> /\ \A w \in Worker : worker[w].pc = "pop"
  BY DEF IInv, Buffered, Handshake, StartFindsThreadsParked, Parked
<1>3. Len(queue.fout) = 0 /\ Len(queue.analysis) = 0 /\ Len(queue.jobs) = 0
  BY <1>2
<1>4. Settled = Len(pushed)
  BY <1>1, <1>3 DEF Settled
<1>5. ASSUME NEW a \in Analyzer
      PROVE  ~ Queued(a) /\ \A w \in Worker : ~ Busy(w, a)
  BY <1>2, <1>3 DEF Queued, Busy
<1>6. ASSUME NEW a \in Analyzer
      PROVE  Len(log[a]) = Len(pushed)
  BY <1>1, <1>3, <1>4, <1>5 DEF IInv, Progress, Reached
<1>7. ASSUME NEW a \in Analyzer
      PROVE  log[a] = pushed
  BY <1>1, <1>6 DEF IInv, Prefixes
<1>8. UNCHANGED <<queue, hasWork, done, worker, producerMtx, mode>>
  BY DEF ProcessAll
<1>9. pushed' = Append(pushed, pkt) /\ pushed' \in Seq(Packet) /\ Len(pushed') = Len(pushed) + 1
  BY <1>1 DEF ProcessAll
<1>10. ASSUME NEW a \in Analyzer
       PROVE  log'[a] = pushed'
  BY <1>7, <1>9 DEF ProcessAll
<1>11. log' \in [Analyzer -> Seq(Packet)]
  BY <1>1 DEF ProcessAll
<1>12. TypeOK'
  BY <1>8, <1>9, <1>11 DEF IInv, TypeOK, QueueTypeOK
<1>13. Handshake'
  BY <1>8 DEF IInv, Handshake, Idle, StartFindsThreadsParked, Parked
<1>14. Settled' = Len(pushed') /\ Settled' \in Nat
  <2>1. Len(pushed') \in Nat /\ Len(queue'.fout) = 0 /\ Len(queue'.analysis) = 0
    BY <1>3, <1>8, <1>9
  <2> QED
    BY <2>1 DEF Settled
<1>15. Buffered'
  BY <1>3, <1>8, <1>14 DEF IInv, Buffered
<1>16. OneHolder'
  BY <1>2, <1>8 DEF OneHolder
<1>17. ASSUME NEW a \in Analyzer
       PROVE  Reached(a)'
  <2>1. \A w \in Worker : ~ Busy(w, a)'
    BY <1>2, <1>8 DEF Busy
  <2>2. Len(log'[a]) = Settled' /\ Len(log'[a]) = Settled' + Len(queue'.analysis)
    BY <1>3, <1>8, <1>10, <1>14
  <2> QED
    BY <2>1, <2>2 DEF Reached
<1>18. Prefixes'
  BY <1>9, <1>10 DEF Prefixes
<1>19. Progress'
  BY <1>17 DEF Progress
<1> QED
  BY <1>7, <1>12, <1>13, <1>15, <1>16, <1>18, <1>19 DEF IInv

LEMMA WaitBeginIInv ==
    ASSUME IInv, NEW t \in Thread, WaitBegin(t), UNCHANGED mode
    PROVE  IInv'
<1>1. UNCHANGED <<queue, hasWork, done, worker, log, pushed, mode>>
  BY DEF WaitBegin
<1>2. producerMtx' \in Thread \cup {NoThread}
  BY DEF WaitBegin
<1>3. TypeOK'
  BY <1>1, <1>2 DEF IInv, TypeOK, QueueTypeOK
<1>4. Handshake'
  BY <1>1 DEF IInv, Handshake, Idle, StartFindsThreadsParked, Parked
<1>5. Buffered'
  BY <1>1 DEF IInv, Buffered, Settled
<1>6. OneHolder'
  BY <1>1 DEF IInv, OneHolder, Busy, Queued
<1>7. Progress' /\ Prefixes'
  BY <1>1 DEF IInv, Progress, Reached, Prefixes, Busy, Queued, Settled
<1> QED
  BY <1>3, <1>4, <1>5, <1>6, <1>7 DEF IInv

\* With every analyzer posted once and no thread at work, each is queued.
LEMMA EachQueuedOnce ==
    ASSUME queue'.jobs = WorkItems,
           \A w \in Worker : worker'[w].pc = "pop"
    PROVE  /\ OneHolder'
           /\ \A a \in Analyzer : Queued(a)' /\ \A w \in Worker : ~ Busy(w, a)'
<1>1. /\ NumAnalyzers \in Nat
      /\ Len(queue'.jobs) = NumAnalyzers
      /\ \A i \in 1 .. NumAnalyzers : queue'.jobs[i] = i
  BY WorkItemsType, QueueAssumption
<1>2. \A a \in Analyzer : Queued(a)'
  BY <1>1 DEF Queued, Analyzer
<1>3. ASSUME NEW a \in Analyzer, NEW w \in Worker
      PROVE  ~ Busy(w, a)'
  BY DEF Busy
<1>4. OneHolder'
  BY <1>1, <1>3 DEF OneHolder
<1> QED
  BY <1>2, <1>3, <1>4

\* A rotation settles the packets of the analysis buffer.
LEMMA RotationSettles ==
    ASSUME IInv, UNCHANGED pushed,
           queue'.fout = <<>>, queue'.analysis = queue.fout
    PROVE  /\ Settled' = Settled + Len(queue.analysis)
           /\ Settled' \in Nat
           /\ \A i \in 1 .. Len(queue'.analysis) : pushed'[Settled' + i] = queue'.analysis[i]
<1>1. /\ Len(pushed) \in Nat /\ Len(queue.fout) \in Nat /\ Len(queue.analysis) \in Nat
      /\ Settled \in Nat
  BY DEF IInv, TypeOK, QueueTypeOK, Queues, Buffered
<1>2. Len(queue'.fout) = 0
  OBVIOUS
<1>3. Settled' = Len(pushed) - Len(queue.fout)
  BY <1>1, <1>2 DEF Settled
<1>4. Settled' = Settled + Len(queue.analysis)
  BY <1>1, <1>3 DEF Settled
<1>5. \A i \in 1 .. Len(queue.fout) : pushed[Settled + Len(queue.analysis) + i] = queue.fout[i]
  BY DEF IInv, Buffered
<1> QED
  BY <1>1, <1>4, <1>5

LEMMA HandOverIInv ==
    ASSUME IInv, NEW t \in Thread, HandOver(t), UNCHANGED mode, mode = "running"
    PROVE  IInv'
<1>1. /\ queue.jobs = <<>>
      /\ \A w \in Worker : Idle(w)
      /\ \A a \in Analyzer : Len(log[a]) = Settled + Len(queue.analysis)
  BY AllDoneFacts DEF HandOver
<1>2. queue \in Queues
  BY DEF IInv, TypeOK, QueueTypeOK
<1>3. /\ queue' \in Queues
      /\ queue'.fout = <<>> /\ queue'.analysis = queue.fout
      /\ queue'.jobs = WorkItems
  <2>1. queue' = WorkPosted(Rotated(queue))
    BY DEF HandOver
  <2>2. Rotated(queue) \in Queues /\ Rotated(queue).jobs = <<>>
        /\ Rotated(queue).fout = <<>> /\ Rotated(queue).analysis = queue.fout
    BY <1>1, <1>2, Rotation
  <2> QED
    BY <2>1, <2>2, Posting
<1>4. UNCHANGED <<worker, log, pushed, mode>>
  BY DEF HandOver
<1>5. /\ hasWork' = [w \in Worker |-> TRUE]
      /\ done' = [w \in Worker |-> FALSE]
      /\ producerMtx' = NoThread
  BY DEF HandOver, AllHaveWork, Cleared
<1>6. TypeOK'
  BY <1>3, <1>4, <1>5 DEF IInv, TypeOK, QueueTypeOK
<1>7. Handshake'
  BY <1>4, <1>5 DEF Handshake, StartFindsThreadsParked, Parked
<1>8. /\ Settled' = Settled + Len(queue.analysis)
      /\ Settled' \in Nat
      /\ \A i \in 1 .. Len(queue'.analysis) : pushed'[Settled' + i] = queue'.analysis[i]
  BY <1>3, <1>4, RotationSettles
<1>9. Len(queue'.fout) = 0
  BY <1>3
<1>10. Buffered'
  BY <1>4, <1>8, <1>9 DEF Buffered
<1>11. /\ OneHolder'
       /\ \A a \in Analyzer : Queued(a)' /\ \A w \in Worker : ~ Busy(w, a)'
  BY <1>1, <1>3, <1>4, EachQueuedOnce DEF Idle
<1>12. Progress'
  BY <1>1, <1>4, <1>8, <1>11 DEF Progress, Reached
<1>13. Prefixes'
  BY <1>4 DEF IInv, Prefixes
<1> QED
  BY <1>6, <1>7, <1>10, <1>11, <1>12, <1>13 DEF IInv

\* A pause finds all work threads done.
LEMMA WaitEndIInv ==
    ASSUME IInv, NEW t \in Thread, WaitEnd(t),
           \/ mode = "running" /\ mode' = "rotateBack"
           \/ mode = "waitFront" /\ mode' = "rotateFront"
    PROVE  IInv'
<1>1. queue.jobs = <<>> /\ \A w \in Worker : Idle(w)
  BY AllDoneFacts DEF WaitEnd
<1>2. UNCHANGED <<queue, hasWork, worker, log, pushed>>
  BY DEF WaitEnd
<1>3. done' = [w \in Worker |-> FALSE] /\ producerMtx' = NoThread
  BY DEF WaitEnd, Cleared
<1>4. TypeOK'
  BY <1>2, <1>3 DEF IInv, TypeOK, QueueTypeOK, Modes
<1>5. Handshake'
  BY <1>1, <1>2, <1>3 DEF Handshake, StartFindsThreadsParked, Idle
<1>6. Settled' = Settled
  BY <1>2 DEF Settled
<1>7. Buffered'
  BY <1>2, <1>6 DEF IInv, Buffered
<1>8. OneHolder'
  BY <1>2 DEF IInv, OneHolder, Busy, Queued
<1>9. mode # "drain" /\ mode' # "drain"
  OBVIOUS
<1>10. Progress'
  BY <1>2, <1>6, <1>9 DEF IInv, Progress, Reached, Busy, Queued
<1>11. Prefixes'
  BY <1>2 DEF IInv, Prefixes
<1> QED
  BY <1>4, <1>5, <1>7, <1>8, <1>10, <1>11 DEF IInv

\* The two rotations of a pause.
LEMMA RotateIInv ==
    ASSUME IInv, Rotate,
           \/ mode = "rotateBack" /\ mode' = "drain"
           \/ mode = "rotateFront" /\ mode' = "paused"
    PROVE  IInv'
<1>1. /\ queue.jobs = <<>>
      /\ \A w \in Worker : worker[w].pc = "pop" /\ ~ hasWork[w] /\ ~ done[w]
  BY DEF IInv, Handshake, StartFindsThreadsParked, Parked
<1>2. queue \in Queues
  BY DEF IInv, TypeOK, QueueTypeOK
<1>3. /\ queue' \in Queues
      /\ queue'.fout = <<>> /\ queue'.analysis = queue.fout
      /\ queue'.jobs = <<>>
  BY <1>1, <1>2, Rotation DEF Rotate
<1>4. UNCHANGED <<hasWork, done, worker, producerMtx, log, pushed>>
  BY DEF Rotate
<1>5. TypeOK'
  BY <1>3, <1>4 DEF IInv, TypeOK, QueueTypeOK, Modes
<1>6. Handshake'
  BY <1>1, <1>3, <1>4 DEF Handshake, StartFindsThreadsParked
<1>7. /\ Settled' = Settled + Len(queue.analysis)
      /\ Settled' \in Nat
      /\ \A i \in 1 .. Len(queue'.analysis) : pushed'[Settled' + i] = queue'.analysis[i]
  BY <1>3, <1>4, RotationSettles
<1>8. Len(queue'.fout) = 0 /\ Len(queue'.jobs) = 0 /\ Len(queue.jobs) = 0
  BY <1>1, <1>3
<1>9. mode' = "paused" => queue'.analysis = <<>>
  BY <1>3 DEF IInv, Buffered
<1>10. Buffered'
  BY <1>3, <1>7, <1>8, <1>9 DEF Buffered
<1>11. ASSUME NEW a \in Analyzer
       PROVE  /\ ~ Queued(a) /\ ~ Queued(a)'
              /\ \A w \in Worker : ~ Busy(w, a) /\ ~ Busy(w, a)'
  BY <1>1, <1>4, <1>8 DEF Queued, Busy
<1>12. OneHolder'
  BY <1>1, <1>4, <1>8, <1>11 DEF OneHolder
<1>13. ASSUME NEW a \in Analyzer
       PROVE  Len(log'[a]) = Settled'
  BY <1>4, <1>7, <1>11 DEF IInv, Progress, Reached
<1>14. mode' # "drain" => Settled' + Len(queue'.analysis) = Settled'
  BY <1>7, <1>9, Len(<<>>) = 0
<1>15. Progress'
  BY <1>11, <1>13, <1>14 DEF Progress, Reached
<1>16. Prefixes'
  BY <1>4 DEF IInv, Prefixes
<1> QED
  BY <1>5, <1>6, <1>10, <1>12, <1>15, <1>16 DEF IInv

\* start() in the middle of a pause, and at its end.
LEMMA StartIInv ==
    ASSUME IInv, Start,
           \/ mode = "drain" /\ mode' = "waitFront"
           \/ mode = "paused" /\ mode' = "running"
    PROVE  IInv'
<1>1. /\ queue.jobs = <<>>
      /\ \A w \in Worker : worker[w].pc = "pop" /\ ~ done[w]
  BY DEF IInv, Handshake, StartFindsThreadsParked, Parked
<1>2. queue \in Queues
  BY DEF IInv, TypeOK, QueueTypeOK
<1>3. /\ queue' \in Queues
      /\ queue'.fout = queue.fout /\ queue'.analysis = queue.analysis
      /\ queue'.jobs = WorkItems
  BY <1>1, <1>2, Posting DEF Start
<1>4. UNCHANGED <<done, worker, producerMtx, log, pushed>>
  BY DEF Start
<1>5. hasWork' = [w \in Worker |-> TRUE]
  BY DEF Start, AllHaveWork
<1>6. TypeOK'
  BY <1>3, <1>4, <1>5 DEF IInv, TypeOK, QueueTypeOK, Modes
<1>7. Handshake'
  BY <1>1, <1>4, <1>5 DEF Handshake, StartFindsThreadsParked, Parked
<1>8. Settled' = Settled
  BY <1>3, <1>4 DEF Settled
<1>9. Buffered'
  BY <1>3, <1>4, <1>8 DEF IInv, Buffered
<1>10. /\ OneHolder'
       /\ \A a \in Analyzer : Queued(a)' /\ \A w \in Worker : ~ Busy(w, a)'
  BY <1>1, <1>3, <1>4, EachQueuedOnce
<1>11. ASSUME NEW a \in Analyzer
       PROVE  Len(log[a]) = Settled
  <2>1. Reached(a)
    BY DEF IInv, Progress
  <2>2. CASE mode = "drain"
    BY <2>1, <2>2 DEF Reached
  <2>3. CASE mode = "paused"
    <3>1. Len(queue.analysis) = 0 /\ Settled \in Nat /\ Len(queue.jobs) = 0
      BY <1>1, <2>3 DEF IInv, Buffered
    <3>2. ~ Queued(a) /\ \A w \in Worker : ~ Busy(w, a)
      BY <1>1, <3>1 DEF Queued, Busy
    <3> QED
      BY <2>1, <2>3, <3>1, <3>2 DEF Reached
  <2> QED
    BY <2>2, <2>3
<1>12. Progress'
  BY <1>4, <1>8, <1>10, <1>11 DEF Progress, Reached
<1>13. Prefixes'
  BY <1>4 DEF IInv, Prefixes
<1> QED
  BY <1>6, <1>7, <1>9, <1>10, <1>12, <1>13 DEF IInv

(***************************************************************************)
(* The invariant, and what follows from it.                                *)
(***************************************************************************)
LEMMA StepIInv == IInv /\ [Next]_protocolVars => IInv'
<1> SUFFICES ASSUME IInv, [Next]_protocolVars
             PROVE  IInv'
  OBVIOUS
<1>1. CASE UNCHANGED protocolVars
  <2>1. UNCHANGED <<queue, hasWork, done, worker, producerMtx, log, pushed, mode>>
    BY <1>1 DEF protocolVars, queueVars
  <2>2. (TypeOK /\ Handshake)'
    BY <2>1 DEF IInv, TypeOK, QueueTypeOK, Handshake, StartFindsThreadsParked, Parked, Idle
  <2>3. (Buffered /\ OneHolder)'
    BY <2>1 DEF IInv, Buffered, OneHolder, Settled, Busy, Queued
  <2>4. (Progress /\ Prefixes)'
    BY <2>1 DEF IInv, Progress, Reached, Prefixes, Settled, Busy, Queued
  <2> QED
    BY <2>2, <2>3, <2>4 DEF IInv
<1>2. CASE \E w \in Worker : WorkerStep(w) /\ UNCHANGED mode
  <2> PICK w \in Worker : WorkerStep(w) /\ UNCHANGED mode
    BY <1>2
  <2> QED
    BY WakeIInv, PopEmptyIInv, PopIInv, ProcessIInv, SignalProducerIInv DEF WorkerStep
<1>3. CASE PushRunning
  BY <1>3, PushIInv DEF PushRunning
<1>4. CASE HandOverFull
  BY <1>4, HandOverIInv DEF HandOverFull
<1>5. CASE WaitBack
  BY <1>5, WaitBeginIInv, WaitEndIInv DEF WaitBack
<1>6. CASE RotateBack
  BY <1>6, RotateIInv DEF RotateBack
<1>7. CASE StartDrain
  BY <1>7, StartIInv DEF StartDrain
<1>8. CASE WaitFront
  BY <1>8, WaitBeginIInv, WaitEndIInv DEF WaitFront
<1>9. CASE RotateFront
  BY <1>9, RotateIInv DEF RotateFront
<1>10. CASE PushPaused
  BY <1>10, PushIInv DEF PushPaused
<1>11. CASE BypassPaused
  BY <1>11, ProcessAllIInv DEF BypassPaused
<1>12. CASE Resume
  BY <1>12, StartIInv DEF Resume
<1> QED
  BY <1>1, <1>2, <1>3, <1>4, <1>5, <1>6, <1>7, <1>8, <1>9, <1>10, <1>11, <1>12 DEF Next, Aborted

LEMMA Invariant == Spec => []IInv
BY InitIInv, StepIInv, PTL DEF Spec

LEMMA Joined ==
    ASSUME NEW l \in Seq(Packet), NEW f \in Seq(Packet), NEW p \in Seq(Packet),
           Len(l) + Len(f) = Len(p),
           \A i \in 1 .. Len(l) : l[i] = p[i],
           \A i \in 1 .. Len(f) : f[i] = p[Len(l) + i]
    PROVE  l \o f = p
<1> DEFINE both == l \o f
<1>1. both \in Seq(Packet) /\ Len(both) = Len(p)
  OBVIOUS
<1>2. ASSUME NEW i \in 1 .. Len(p) PROVE both[i] = p[i]
  <2>1. CASE i <= Len(l)
    BY <2>1
  <2>2. CASE i > Len(l)
    <3>1. i - Len(l) \in 1 .. Len(f) /\ i = Len(l) + (i - Len(l))
      BY <2>2
    <3>2. both[i] = f[i - Len(l)]
      BY <2>2
    <3>3. f[i - Len(l)] = p[Len(l) + (i - Len(l))]
      BY <3>1
    <3> QED  BY <3>1, <3>2, <3>3
  <2> QED  BY <2>1, <2>2
<1> HIDE DEF both
<1>3. both = p
  BY <1>1, <1>2
<1> QED  BY <1>3 DEF both

\* In a pause every analyzer has processed all but what fout_buffer holds.
LEMMA PausedDelivered ==
    ASSUME IInv, mode = "paused"
    PROVE  \A a \in Analyzer : log[a] \o queue.fout = pushed
<1> SUFFICES ASSUME NEW a \in Analyzer PROVE log[a] \o queue.fout = pushed
  OBVIOUS
<1>1. /\ log[a] \in Seq(Packet) /\ queue.fout \in Seq(Packet) /\ pushed \in Seq(Packet)
      /\ queue.analysis = <<>> /\ Len(queue.analysis) = 0
  BY DEF IInv, TypeOK, QueueTypeOK, Queues, Buffered
<1>2. queue.jobs = <<>> /\ \A w \in Worker : worker[w].pc = "pop"
  BY DEF IInv, Handshake, StartFindsThreadsParked, Parked
<1>3. ~ Queued(a) /\ \A w \in Worker : ~ Busy(w, a)
  BY <1>2 DEF Queued, Busy
<1>4. Len(log[a]) = Settled + Len(queue.analysis) /\ Settled \in Nat
  BY <1>3 DEF IInv, Progress, Reached, Buffered
<1>5. PICK m, n, k \in Nat : m = Len(log[a]) /\ n = Len(queue.fout) /\ k = Len(pushed)
  BY <1>1
<1>6. m + n = k
  <2>1. m = Settled + 0 /\ Settled = (k - n) - 0
    BY <1>1, <1>4, <1>5 DEF Settled
  <2> QED  BY <1>5, <2>1
<1>7. \A i \in 1 .. Len(log[a]) : log[a][i] = pushed[i]
  BY DEF IInv, Prefixes
<1>8. \A i \in 1 .. Len(queue.fout) : queue.fout[i] = pushed[Len(log[a]) + i]
  <2>1. ASSUME NEW i \in 1 .. Len(queue.fout)
        PROVE  queue.fout[i] = pushed[Settled + Len(queue.analysis) + i]
    BY DEF IInv, Buffered
  <2>2. Settled + Len(queue.analysis) = Len(log[a])
    BY <1>4
  <2> QED  BY <2>1, <2>2
<1>9. Len(log[a]) + Len(queue.fout) = Len(pushed)
  BY <1>5, <1>6
<1>10. log[a] \in Seq(Packet) /\ queue.fout \in Seq(Packet) /\ pushed \in Seq(Packet)
  BY <1>1
<1> QED  BY <1>7, <1>8, <1>9, <1>10, Joined

\* Every reachable state of the queue is well typed.
THEOREM QueueTypeCorrect == Spec => []TypeOK
<1>1. IInv => TypeOK
  BY DEF IInv
<1> QED
  BY <1>1, Invariant, PTL

\* start() and rotate_buffers(), which lock nothing a work thread locks, only run
\* when no work thread is awake or about to be.
THEOREM ThreadsParked == Spec => []StartFindsThreadsParked
<1>1. IInv => StartFindsThreadsParked
  BY DEF IInv, Handshake
<1> QED
  BY <1>1, Invariant, PTL

\* No step swaps the analysis buffer under a thread that reads it.
THEOREM BufferStays == Spec => BufferStaysUnderReaders
<1> DEFINE Stays == queue'.analysis # queue.analysis => \A w \in Worker : worker[w].pc # "process"
<1>1. IInv /\ [Next]_protocolVars => [Stays]_protocolVars
  <2> SUFFICES ASSUME IInv, Next
               PROVE  Stays
    OBVIOUS
  <2>1. queue \in Queues
    BY DEF IInv, TypeOK, QueueTypeOK
  <2>2. CASE \E w \in Worker : WorkerStep(w) /\ UNCHANGED mode
    <3> PICK w \in Worker : WorkerStep(w)
      BY <2>2
    <3>1. queue' = queue \/ queue' = [queue EXCEPT !.jobs = Tail(@)]
      BY DEF WorkerStep, Wake, PopEmpty, Pop, Process, HasPacket, NextPacket, SignalProducer
    <3>2. [queue EXCEPT !.jobs = Tail(@)].analysis = queue.analysis
      BY <2>1 DEF Queues
    <3> QED
      BY <3>1, <3>2
  <2>3. CASE PushRunning \/ PushPaused
    <3> PICK t \in Thread, pkt \in Packet : Push(t, pkt)
      BY <2>3 DEF PushRunning, PushPaused
    <3> QED
      BY <2>1, Storing DEF Push
  <2>4. CASE HandOverFull
    <3> PICK t \in Thread : HandOver(t)
      BY <2>4 DEF HandOverFull
    <3> QED
      BY AllDoneFacts DEF HandOver, Idle
  <2>5. CASE WaitBack \/ WaitFront
    <3>1. queue' = queue
      BY <2>5 DEF WaitBack, WaitFront, WaitBegin, WaitEnd
    <3> QED
      BY <3>1
  <2>6. CASE RotateBack \/ RotateFront
    BY <2>6 DEF RotateBack, RotateFront, IInv, Handshake, StartFindsThreadsParked, Parked
  <2>7. CASE StartDrain \/ Resume
    BY <2>1, <2>7, PostingType DEF StartDrain, Resume, Start
  <2>8. CASE BypassPaused \/ Aborted
    BY <2>8 DEF BypassPaused, ProcessAll, Aborted, protocolVars, queueVars
  <2> QED
    BY <2>2, <2>3, <2>4, <2>5, <2>6, <2>7, <2>8 DEF Next
<1> QED
  BY <1>1, Invariant, PTL DEF Spec, BufferStaysUnderReaders

(***************************************************************************)
(* Every step of the queue is a step of the stream, or hidden from it.     *)
(***************************************************************************)
LEMMA InitIsStreamInit == Init => Promise!Init
BY ConstructedQueue DEF Init, QueueInit, Promise!Init

LEMMA StepIsStreamStep ==
    IInv /\ [Next]_protocolVars => [Promise!Next]_<<pushed, log>>
<1> SUFFICES ASSUME IInv, [Next]_protocolVars
             PROVE  Promise!Next \/ UNCHANGED <<pushed, log>>
  OBVIOUS
<1>1. CASE UNCHANGED protocolVars
  BY <1>1 DEF protocolVars, queueVars
<1>2. CASE \E w \in Worker : WorkerStep(w) /\ UNCHANGED mode
  <2> PICK w \in Worker : WorkerStep(w)
    BY <1>2
  <2>1. CASE Process(w)
    <3>1. PICK a \in Analyzer :
            /\ Len(log[a]) < Len(pushed)
            /\ log' = [log EXCEPT ![a] = Append(@, pushed[Len(@) + 1])]
      BY <2>1, ProcessNext
    <3>2. pushed' = pushed
      BY <2>1 DEF Process, HasPacket, NextPacket
    <3>3. Promise!Deliver(a)
      BY <3>1, <3>2 DEF Promise!Deliver
    <3> QED
      BY <3>3 DEF Promise!Next
  <2>2. CASE ~ Process(w)
    BY <2>2 DEF WorkerStep, Wake, PopEmpty, Pop, SignalProducer
  <2> QED
    BY <2>1, <2>2
<1>3. CASE PushRunning \/ PushPaused
  <2> PICK t \in Thread, pkt \in Packet : Push(t, pkt)
    BY <1>3 DEF PushRunning, PushPaused
  <2> QED
    BY DEF Push, Promise!Next, Promise!HandIn
<1>4. CASE HandOverFull
  BY <1>4 DEF HandOverFull, HandOver
<1>5. CASE WaitBack \/ WaitFront
  BY <1>5 DEF WaitBack, WaitFront, WaitBegin, WaitEnd
<1>6. CASE RotateBack \/ RotateFront
  BY <1>6 DEF RotateBack, RotateFront, Rotate
<1>7. CASE StartDrain \/ Resume
  BY <1>7 DEF StartDrain, Resume, Start
<1>8. CASE BypassPaused
  <2> PICK pkt \in Packet : ProcessAll(pkt)
    BY <1>8 DEF BypassPaused
  <2>1. \A a \in Analyzer : log[a] = pushed
    BY <1>8, ProcessAllIInv DEF BypassPaused
  <2>2. pushed' = Append(pushed, pkt)
    BY DEF ProcessAll
  <2>3. log' = [a \in Analyzer |-> pushed']
    BY <2>1, <2>2 DEF ProcessAll
  <2> QED
    BY <2>1, <2>2, <2>3 DEF Promise!Next, Promise!Bypass
<1> QED
  BY <1>1, <1>2, <1>3, <1>4, <1>5, <1>6, <1>7, <1>8 DEF Next, Aborted

\* However the work threads interleave with the producers, each analyzer
\* processes every packet handed to the stage, once, in order.
THEOREM Delivery == Spec => DeliversInOrder
BY InitIsStreamInit, StepIsStreamStep, Invariant, PTL
   DEF Spec, DeliversInOrder, Promise!Spec, Promise!streamVars

=============================================================================
