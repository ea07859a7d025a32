---------------------------- MODULE MainRunLoop ----------------------------
(***************************************************************************)
(* What the patch makes of WebKit's threads: tasks of the main RunLoop.    *)
(*                                                                         *)
(* Every WorkQueue borrows the main RunLoop, image decodes are deferred to *)
(* it, and a dedicated worker runs on it, its messages and its bootstrap   *)
(* in one queue with everything else.  Nothing may wait for a task behind  *)
(* it; a task that finds its worker not set up yet is posted again.        *)
(*                                                                         *)
(* One worker and one ImageFrameWorkQueue share the loop.                  *)
(***************************************************************************)
EXTENDS Naturals, Sequences, SequencesExt

CONSTANTS
  Requests,      \* ImageFrameWorkQueue::Request: index, level, options
  MaxMessages,   \* bound: messages the page posts to the worker
  MaxDecodes,    \* bound: decodes dispatched
  MaxStops       \* bound: times decoding is stopped

ASSUME BoundAssumption ==
  MaxMessages \in Nat /\ MaxDecodes \in Nat /\ MaxStops \in Nat

VARIABLES
  queue,        \* the main RunLoop
  \* WorkerMessagingProxy and WorkerMainRunLoop
  worker,       \* loading its script, started, or its global scope is set
  m_terminated,
  earlyTasks,   \* m_queuedEarlyTasks: posted while the script loads
  \* ImageFrameWorkQueue
  decodeQueue,
  \* bookkeeping of the model
  posted,       \* what the worker was when the page posted each message
  performed,    \* messages the worker has handled, in order
  decodes, stops

workerVars == <<worker, m_terminated, earlyTasks, posted, performed>>
decodeVars == <<decodeQueue, decodes, stops>>
runLoopVars == <<queue, workerVars, decodeVars>>

Message(n) == [type |-> "message", message |-> n]
Bootstrap == [type |-> "bootstrap"]
Decode(r) == [type |-> "decode", request |-> r]
Task == [type : {"message"}, message : 1..MaxMessages]
        \cup {Bootstrap} \cup [type : {"decode"}, request : Requests]

RunLoopInit ==
  /\ queue = <<>>
  /\ worker = "loading" /\ m_terminated = FALSE /\ earlyTasks = <<>>
  /\ decodeQueue = <<>>
  /\ posted = <<>> /\ performed = <<>>
  /\ decodes = 0 /\ stops = 0

-----------------------------------------------------------------------------
(* The page and WebCore, between two tasks or inside one *)

\* worker.postMessage(): kept by the proxy until there is a thread to post to.
PostMessage ==
  /\ ~m_terminated
  /\ Len(posted) < MaxMessages
  /\ posted' = Append(posted, worker)
  /\ IF worker = "loading"
     THEN earlyTasks' = Append(earlyTasks, Message(Len(posted'))) /\ UNCHANGED queue
     ELSE queue' = Append(queue, Message(Len(posted'))) /\ UNCHANGED earlyTasks
  /\ UNCHANGED <<worker, m_terminated, performed, decodeVars>>

EarlyTasksOnly == earlyTasks
LastTakenFirst == Reverse(earlyTasks) \o <<Bootstrap>>
\* startWorkerGlobalScope, UseMainThread: early tasks are flushed before
\* thread->start() enqueues the bootstrap.
Startup == earlyTasks \o <<Bootstrap>>
StartWorkerGlobalScope ==
  /\ worker = "loading" /\ ~m_terminated
  /\ worker' = "started"
  /\ queue' = queue \o Startup
  /\ earlyTasks' = <<>>
  /\ UNCHANGED <<m_terminated, posted, performed, decodeVars>>

\* worker.terminate(), or its page goes away.
Terminate ==
  /\ ~m_terminated
  /\ m_terminated' = TRUE
  /\ earlyTasks' = <<>>
  /\ UNCHANGED <<queue, worker, posted, performed, decodeVars>>

AppendsAnyway(r, decoder) == decodeQueue' = Append(decodeQueue, r)
\* A request without a decoder is not even queued: nothing would deliver it.
AppendsRequest(r, decoder) ==
  decodeQueue' = IF decoder THEN Append(decodeQueue, r) ELSE decodeQueue

\* ImageFrameWorkQueue::dispatch.
DispatchDecode(r) ==
  /\ decodes < MaxDecodes /\ decodes' = decodes + 1
  /\ \E decoder \in BOOLEAN :
       /\ AppendsRequest(r, decoder)
       /\ queue' = IF decoder THEN Append(queue, Decode(r)) ELSE queue
  /\ UNCHANGED <<workerVars, stops>>

\* ImageFrameWorkQueue::stop voids what is in flight.
Stop ==
  /\ stops < MaxStops /\ stops' = stops + 1
  /\ decodeQueue # <<>>
  /\ decodeQueue' = <<>>
  /\ UNCHANGED <<queue, workerVars, decodes>>

-----------------------------------------------------------------------------
(* The RunLoop runs its oldest task *)

IsNext(type) == queue # <<>> /\ Head(queue).type = type

\* The thread's start task; a worker terminated by then never gets a scope.
RunBootstrap ==
  /\ IsNext("bootstrap")
  /\ queue' = Tail(queue)
  /\ worker' = IF m_terminated THEN worker ELSE "scope"
  /\ UNCHANGED <<m_terminated, earlyTasks, posted, performed, decodeVars>>

\* No scope yet: the bootstrap is further back in the queue.
Requeued(task) == Append(Tail(queue), task)

\* The task of WorkerMainRunLoop::postTaskForMode.
RunMessage ==
  /\ IsNext("message")
  /\ IF ~m_terminated /\ worker # "scope"
     THEN queue' = Requeued(Head(queue))
     ELSE queue' = Tail(queue)
  /\ performed' = IF ~m_terminated /\ worker = "scope"
                  THEN Append(performed, Head(queue).message) ELSE performed
  /\ UNCHANGED <<worker, m_terminated, earlyTasks, posted, decodeVars>>

\* The callback delivers the head if it is the request it was made for, and is
\* void otherwise.
Deliver(r) ==
  IF decodeQueue # <<>> /\ Head(decodeQueue) = r THEN Tail(decodeQueue) ELSE decodeQueue

RunDecode ==
  /\ IsNext("decode")
  /\ queue' = Tail(queue)
  /\ decodeQueue' = Deliver(Head(queue).request)
  /\ UNCHANGED <<workerVars, decodes, stops>>

RunTask == RunBootstrap \/ RunMessage \/ RunDecode

RunLoopNext ==
  \/ PostMessage \/ StartWorkerGlobalScope \/ Terminate
  \/ \E r \in Requests : DispatchDecode(r)
  \/ Stop
  \/ RunTask

RunLoopSpec == RunLoopInit /\ [][RunLoopNext]_runLoopVars

\* The loop runs what is queued on it (EnginePump); page, network and guest owe
\* nothing.
FairRunLoopSpec == RunLoopSpec /\ WF_runLoopVars(RunTask)

-----------------------------------------------------------------------------
(* Properties *)

\* Types; and what a requeued message waits for is queued with it: "the
\* bootstrap is already in the queue, so this self-limits".
RunLoopTypeOK ==
  /\ worker = "started" /\ ~m_terminated => Bootstrap \in ToSet(queue)
  /\ queue \in Seq(Task) /\ earlyTasks \in Seq(Task)
  /\ worker \in {"loading", "started", "scope"} /\ m_terminated \in BOOLEAN
  /\ decodeQueue \in Seq(Requests)
  /\ posted \in Seq({"loading", "started", "scope"}) /\ Len(posted) <= MaxMessages
  /\ performed \in Seq(1..MaxMessages)
  /\ decodes \in 0..MaxDecodes /\ stops \in 0..MaxStops

\* No message is handled twice, and none is overtaken, whether it was posted
\* before the worker had a thread, while its bootstrap waited or later -- but for
\* one window: a message posted between start and bootstrap passes early ones
\* that will be requeued behind it.
WorkerMessageOrder ==
  \A i, j \in DOMAIN performed : i < j =>
    \/ performed[i] < performed[j]
    \/ /\ performed[i] > performed[j]
       /\ posted[performed[i]] = "started" /\ posted[performed[j]] = "loading"

\* Every message reaches the worker once it is started, also those posted while
\* its script was loading, unless it is terminated first.
WorkerMessagesPerformed ==
  \A n \in 1..MaxMessages :
    n <= Len(posted) /\ worker # "loading"
      ~> n \in ToSet(performed) \/ m_terminated

\* Decoding never stalls: however dispatches, stops and equal requests mix, the
\* head of the queue always has a callback that will deliver it, and every later
\* request comes to the head.
DecodesDelivered == decodeQueue # <<>> ~> decodeQueue = <<>>

\* What is dispatched to the one run loop gets done.
TasksDone == WorkerMessagesPerformed /\ DecodesDelivered
=============================================================================
