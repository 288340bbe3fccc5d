---------------------------- MODULE AnalysisQueue ----------------------------
(***************************************************************************)
(* The last stage of the trace generator (generator/pipeline/              *)
(* analysis_queue.cc) and its work threads.  Producers append packets to   *)
(* fout_buffer; a full or drained buffer becomes the analysis_buffer, and  *)
(* the work threads take one analyzer each from job_queue and run it over  *)
(* that buffer.  This module holds the state of the queue, the steps of a  *)
(* work thread and the calls a producer makes; who calls what and when is  *)
(* the business of the modules that use it.                                *)
(*                                                                         *)
(* A semaphore is the binary event of Pin: wait() returns while it is set  *)
(* and does not clear it.  A section under consumer_mtx is one step.       *)
(***************************************************************************)
EXTENDS Naturals, Sequences

CONSTANTS
    Worker,         \* the analysis work threads
    NumAnalyzers,   \* registered analyzers, numbered from 1
    BufferSize,     \* BUFFER_SIZE
    Thread,         \* the threads that call the producer side
    NoThread,       \* producer_mtx is free
    Packet,         \* the packets
    Refused         \* the packets an assertion of process() is false of

\* A pause leaves the work threads parked while one packet is pushed: a buffer
\* of one packet would be full at once, with nobody to take it.
ASSUME QueueAssumption ==
    /\ NumAnalyzers \in Nat
    /\ BufferSize \in Nat \ {0, 1}
    /\ NoThread \notin Thread

VARIABLES
    queue,          \* [fout, analysis, jobs]: the two buffers and job_queue
    hasWork,        \* work_threads[w].has_work
    done,           \* work_threads[w].done
    worker,         \* worker[w]: where work thread w is, its analyzer and position
    producerMtx,    \* the holder of producer_mtx
    log,            \* history: what each analyzer processed
    pushed          \* history: what was handed to the stage

queueVars == <<queue, hasWork, done, worker, producerMtx, log, pushed>>

Analyzer == 1 .. NumAnalyzers
WorkItems == [a \in Analyzer |-> a]

Queues == [fout : Seq(Packet), analysis : Seq(Packet), jobs : Seq(Analyzer)]
WorkerStates ==
    [pc : {"pop", "woken", "process"}, item : Analyzer \cup {0}, pos : Nat]

-----------------------------------------------------------------------------
(* rotate_buffers(), the loop of inserts and the write into fout_buffer.   *)

\* Mutant: the new fout_buffer keeps its position.
RotatedKeepsPos(q) == [q EXCEPT !.fout = q.analysis, !.analysis = q.fout]
Rotated(q) == [q EXCEPT !.fout = <<>>, !.analysis = q.fout]
WorkPosted(q) == [q EXCEPT !.jobs = WorkItems \o @]
Stored(q, pkt) == [q EXCEPT !.fout = Append(@, pkt)]

\* The constructor runs handle_sync() twice and start() posts the work once more,
\* all before any thread exists: the waits return at once, and the second
\* rotation of a pause discards what the first call had pushed.
AfterSync(q, pkt) ==
    WorkPosted(Stored(Rotated(WorkPosted(Rotated(q))), pkt))

Constructed(first, second) ==
    WorkPosted(AfterSync(AfterSync(
        [fout |-> <<>>, analysis |-> <<>>, jobs |-> <<>>], first), second))

QueueInit(first, second) ==
    /\ queue = Constructed(first, second)
    /\ hasWork = [w \in Worker |-> TRUE]
    /\ done = [w \in Worker |-> FALSE]
    /\ worker = [w \in Worker |-> [pc |-> "pop", item |-> 0, pos |-> 0]]
    /\ producerMtx = NoThread
    /\ log = [a \in Analyzer |-> <<>>]
    /\ pushed = Constructed(first, second).fout

-----------------------------------------------------------------------------
(* The work threads: analysis_thread_work_loop() with pop() and            *)
(* signal_producer().  A wait that times out changes nothing.              *)

NoMoreJobs(w) ==
    /\ hasWork' = [hasWork EXCEPT ![w] = FALSE]
    /\ done' = [done EXCEPT ![w] = TRUE]

\* has_work.wait(timeout) returns before the lock is taken.
Wake(w) ==
    /\ worker[w].pc = "pop"
    /\ hasWork[w]
    /\ worker' = [worker EXCEPT ![w].pc = "woken"]
    /\ UNCHANGED <<queue, hasWork, done, producerMtx, log, pushed>>

PopEmpty(w) ==
    /\ worker[w].pc = "woken"
    /\ queue.jobs = <<>>
    /\ NoMoreJobs(w)
    /\ worker' = [worker EXCEPT ![w].pc = "pop"]
    /\ UNCHANGED <<queue, producerMtx, log, pushed>>

Pop(w) ==
    /\ worker[w].pc = "woken"
    /\ queue.jobs # <<>>
    /\ queue' = [queue EXCEPT !.jobs = Tail(@)]
    /\ worker' = [worker EXCEPT
           ![w] = [pc |-> "process", item |-> Head(queue.jobs), pos |-> 0]]
    /\ UNCHANGED <<hasWork, done, producerMtx, log, pushed>>

\* analyzers[analyzer_id]->process(analysis_buffer->data[i])
HasPacket(w) == worker[w].pc = "process" /\ worker[w].pos < Len(queue.analysis)
NextPacket(w) == queue.analysis[worker[w].pos + 1]

\* An assertion that fails ends the process, w is the thread it fails in.
Asserts(w) == HasPacket(w) /\ NextPacket(w) \in Refused

Process(w) ==
    /\ HasPacket(w)
    /\ NextPacket(w) \notin Refused
    /\ log' = [log EXCEPT ![worker[w].item] = Append(@, NextPacket(w))]
    /\ worker' = [worker EXCEPT ![w].pos = @ + 1]
    /\ UNCHANGED <<queue, hasWork, done, producerMtx, pushed>>

SignalProducer(w) ==
    /\ worker[w].pc = "process"
    /\ worker[w].pos >= Len(queue.analysis)
    /\ IF queue.jobs = <<>> THEN NoMoreJobs(w) ELSE UNCHANGED <<hasWork, done>>
    /\ worker' = [worker EXCEPT ![w].pc = "pop"]
    /\ UNCHANGED <<queue, producerMtx, log, pushed>>

WorkerStep(w) ==
    \/ Wake(w)
    \/ PopEmpty(w)
    \/ Pop(w)
    \/ Process(w)
    \/ SignalProducer(w)

-----------------------------------------------------------------------------
(* The producer side.                                                      *)

AllDone == \A w \in Worker : done[w]
Cleared == [w \in Worker |-> FALSE]
AllHaveWork == [w \in Worker |-> TRUE]

\* push() up to the test for a full buffer, which leaves the caller inside, with
\* the mutex.
Fills(q) == Len(q.fout) >= BufferSize

Push(t, pkt) ==
    /\ producerMtx = NoThread
    /\ queue' = Stored(queue, pkt)
    /\ pushed' = Append(pushed, pkt)
    /\ producerMtx' = IF Fills(queue') THEN t ELSE NoThread
    /\ UNCHANGED <<hasWork, done, worker, log>>

\* Mutant: takes the first thread that is done for all of them.
HandOverEarly(t) ==
    /\ producerMtx = t
    /\ \E w \in Worker : done[w]
    /\ done' = Cleared
    /\ queue' = WorkPosted(Rotated(queue))
    /\ hasWork' = AllHaveWork
    /\ producerMtx' = NoThread
    /\ UNCHANGED <<worker, log, pushed>>

\* The rest of a push() into a full buffer.  The mutex keeps every other call
\* away from the semaphores, so waiting for the threads one by one is waiting
\* for all of them.
HandOver(t) ==
    /\ producerMtx = t
    /\ AllDone
    /\ done' = Cleared
    /\ queue' = WorkPosted(Rotated(queue))
    /\ hasWork' = AllHaveWork
    /\ producerMtx' = NoThread
    /\ UNCHANGED <<worker, log, pushed>>

\* wait(): takes the mutex, then waits for all work threads.
WaitBegin(t) ==
    /\ producerMtx = NoThread
    /\ producerMtx' = t
    /\ UNCHANGED <<queue, hasWork, done, worker, log, pushed>>

\* Mutant: returns when the first thread is done.
WaitEndEarly(t) ==
    /\ producerMtx = t
    /\ \E w \in Worker : done[w]
    /\ done' = Cleared
    /\ producerMtx' = NoThread
    /\ UNCHANGED <<queue, hasWork, worker, log, pushed>>

WaitEnd(t) ==
    /\ producerMtx = t
    /\ AllDone
    /\ done' = Cleared
    /\ producerMtx' = NoThread
    /\ UNCHANGED <<queue, hasWork, worker, log, pushed>>

\* rotate_buffers() as a pause calls it, under no mutex.
Rotate ==
    /\ queue' = Rotated(queue)
    /\ UNCHANGED <<hasWork, done, worker, producerMtx, log, pushed>>

Start ==
    /\ producerMtx = NoThread
    /\ queue' = WorkPosted(queue)
    /\ hasWork' = AllHaveWork
    /\ UNCHANGED <<done, worker, producerMtx, log, pushed>>

\* swap_buffers() has every analyzer process a packet itself.
ProcessAll(pkt) ==
    /\ pushed' = Append(pushed, pkt)
    /\ log' = [a \in Analyzer |-> Append(log[a], pkt)]
    /\ UNCHANGED <<queue, hasWork, done, worker, producerMtx>>

QueueTypeOK ==
    /\ queue \in Queues
    /\ hasWork \in [Worker -> BOOLEAN]
    /\ done \in [Worker -> BOOLEAN]
    /\ worker \in [Worker -> WorkerStates]
    /\ producerMtx \in Thread \cup {NoThread}
    /\ log \in [Analyzer -> Seq(Packet)]
    /\ pushed \in Seq(Packet)
=============================================================================
