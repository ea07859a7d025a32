--------------------------- MODULE WebSocketProofs ---------------------------
(***************************************************************************)
(* One guest WebSocket, for every bound on frames, sends and undelivered   *)
(* callbacks: it keeps the contract of its client, it uses the socket as   *)
(* the protocol wants and gives it back, and its client gets the messages  *)
(* the server sent.                                                        *)
(*                                                                         *)
(* The contract speaks of the callbacks only.  What carries it is how the  *)
(* channel's fields remember them: the state tells that didClose is over,  *)
(* handshakeDone that didConnect is, receivedFail that an error may not be *)
(* reported again.  The use of the socket rests on the life of the stream: *)
(* created by the first task, destroyed by the last, and nothing written   *)
(* before the server has answered but the request.                         *)
(*                                                                         *)
(* The messages rest on where their bytes are.  After h parsed frames the  *)
(* rest of what the server said lies, gapless and in order, in the receive *)
(* buffer, in the undelivered callbacks and in the network, and what the   *)
(* client has been handed are the messages that end before the h-th frame. *)
(***************************************************************************)
EXTENDS BibWebSocketChannel, SequenceLemmas

ClientEvent == [type : EventType, frames : Seq(1..MaxFrames)]

\* A unit of a frame says which frame.
GoodUnit == [kind : FrameKind, id : 1..MaxFrames]
            \cup [kind : {"half", "accepted", "rejected"}, id : {0}]
GoodCallback == [type : {"open", "data", "fail"}, units : Seq(GoodUnit)]
Written == {"request", "message", "pong", "close"}

StatesTyped ==
  /\ state \in {"Connecting", "Handshaking", "Opened", "Closing", "Closed"}
  /\ stream \in {"none", "connecting", "up", "dead"}
  /\ peer \in {"pending", "up", "refused", "fin", "reset"}
  /\ answered \in {"none", "accepted", "rejected"}

FlagsTyped ==
  /\ streamID \in BOOLEAN /\ client \in BOOLEAN /\ handshakeDone \in BOOLEAN
  /\ discard \in BOOLEAN /\ hasContinuous \in BOOLEAN
  /\ receivedClose \in BOOLEAN /\ sentClose \in BOOLEAN
  /\ receivedFail \in BOOLEAN /\ receiving \in BOOLEAN /\ listed \in BOOLEAN

QueuesTyped ==
  /\ buffer \in Seq(GoodUnit) /\ inbound \in Seq(GoodUnit)
  /\ continuousData \in Seq(1..MaxFrames)
  /\ tasks \in Seq(Task)
  /\ sendBuffers \in Seq(Written) /\ outbound \in Seq(Written)
  /\ callbacks \in Seq(GoodCallback)
  /\ sent \in Seq(FrameKind)
  /\ log \in Seq(ClientEvent)
  /\ sends \in 0..MaxSends

Typed == StatesTyped /\ FlagsTyped /\ QueuesTyped

Queued(task) == \E i \in DOMAIN tasks : tasks[i] = task

\* The stream is created by the first task there ever is and destroyed by the last;
\* before connect() and before didOpen nothing else has happened.
StreamLife ==
  /\ state = "Closed" => ~streamID
  /\ ~streamID /\ state # "Closed" =>
       state = "Connecting" /\ tasks = <<>> /\ stream = "none" /\ callbacks = <<>>
  /\ state = "Connecting" => /\ tasks \in {<<>>, <<"create">>}
                             /\ outbound = <<>> /\ sendBuffers = <<>>
  /\ \A i \in DOMAIN tasks : /\ tasks[i] = "create" => i = 1 /\ callbacks = <<>>
                             /\ tasks[i] = "destroy" => i = Len(tasks) /\ ~streamID
  /\ (stream # "none" \/ Queued("create")) /\ ~streamID => Queued("destroy")

Told(type) == \E i \in DOMAIN log : log[i].type = type

\* What the channel's fields remember of the callbacks.
FieldsRemember ==
  /\ state \in {"Connecting", "Handshaking"} => ~handshakeDone
  /\ state \in {"Opened", "Closing"} => handshakeDone
  /\ client => (state = "Closed" <=> Told("closeClean") \/ Told("closeUnclean"))
  /\ ~client => state = "Closed"
  /\ handshakeDone <=> Told("connect")
  /\ Told("error") => receivedFail
  /\ receivedFail <=> discard
  /\ receivedFail \/ receivedClose => state = "Closed"
  /\ receiving => client /\ (state # "Closed" \/ discard \/ receivedClose)

\* Nothing comes from the server before it has answered, and it answers what has
\* been written.
AnswerFirst ==
  /\ answered = "none" => /\ inbound = <<>> /\ buffer = <<>>
                          /\ \A i \in DOMAIN callbacks : callbacks[i].units = <<>>
  /\ handshakeDone => answered # "none"
  /\ answered # "none" => outbound # <<>>
  /\ sentClose => handshakeDone

\* Our Close frame is known to have been written, and is the last.
CloseIsLast == (\E i \in DOMAIN Writes : Writes[i] = "close") => sentClose

IInv ==
  /\ Typed
  /\ StreamLife
  /\ FieldsRemember
  /\ AnswerFirst
  /\ CloseIsLast
  /\ WritesWellFormed

-----------------------------------------------------------------------------
(* Sequences of the model *)

USE DEF channelVars, receiveVars, streamVars, netVars, vars

LEMMA Goodness ==
  /\ Written \subseteq Task /\ Task = Written \cup {"create", "destroy"}
  /\ Written = Task \ {"create", "destroy"}
  /\ GoodUnit \subseteq Unit
  /\ \A u \in GoodUnit : u.kind \in FrameKind => u.id \in 1..MaxFrames
<1>1. /\ Written \subseteq Task /\ Task = Written \cup {"create", "destroy"}
      /\ Written = Task \ {"create", "destroy"}
  BY DEF Written, Task
<1>2. GoodUnit \subseteq Unit
  <2>1. ASSUME NEW u \in [kind : FrameKind, id : 1..MaxFrames] PROVE u \in Unit
    BY BoundAssumption DEF Unit
  <2>2. ASSUME NEW u \in [kind : {"half", "accepted", "rejected"}, id : {0}] PROVE u \in Unit
    BY BoundAssumption DEF Unit
  <2> QED
    BY <2>1, <2>2 DEF GoodUnit
<1>3. \A u \in GoodUnit : u.kind \in FrameKind => u.id \in 1..MaxFrames
  BY DEF GoodUnit, FrameKind
<1> QED
  BY <1>1, <1>2, <1>3

LEMMA TypedIsTypeOK ==
  ASSUME Typed, StreamLife
  PROVE  TypeOK
<1>1. buffer \in Seq(Unit) /\ inbound \in Seq(Unit)
  BY Goodness, SeqMonotonic DEF Typed, StatesTyped, FlagsTyped, QueuesTyped
<1>2. /\ sendBuffers \in Seq(Task \ {"create", "destroy"})
      /\ outbound \in Seq(Task \ {"create", "destroy"})
  BY Goodness DEF Typed, StatesTyped, FlagsTyped, QueuesTyped
<1>3. ASSUME NEW i \in DOMAIN callbacks PROVE callbacks[i] \in Callback
  <2>1. callbacks[i] \in GoodCallback
    BY <1>3, ElementOfSeq, LenProperties DEF Typed, StatesTyped, FlagsTyped, QueuesTyped
  <2>2. Seq(GoodUnit) \subseteq Seq(Unit)
    BY Goodness, SeqMonotonic
  <2> QED
    BY <2>1, <2>2 DEF GoodCallback, Callback
<1>4. \A i \in DOMAIN log : log[i] \in [type : EventType, frames : Seq(1..MaxFrames)]
  BY ElementOfSeq, LenProperties DEF Typed, StatesTyped, FlagsTyped, QueuesTyped, ClientEvent
<1> QED
  BY <1>1, <1>2, <1>3, <1>4
     DEF Typed, StatesTyped, FlagsTyped, QueuesTyped, StreamLife, TasksInOrder, TypeOK

\* The events of the contract.
LEMMA Events ==
  /\ Contract!Connect \in ClientEvent /\ Contract!Connect.type = "connect"
  /\ Contract!Closing \in ClientEvent /\ Contract!Closing.type = "closing"
  /\ Contract!Error \in ClientEvent /\ Contract!Error.type = "error"
  /\ Contract!CloseClean \in ClientEvent /\ Contract!CloseClean.type = "closeClean"
  /\ Contract!CloseUnclean \in ClientEvent /\ Contract!CloseUnclean.type = "closeUnclean"
  /\ \A f \in Seq(1..MaxFrames) : /\ Contract!Event("message", f) \in ClientEvent
                                  /\ Contract!Event("message", f).type = "message"
                                  /\ Contract!Event("message", f).frames = f
<1>1. <<>> \in Seq(1..MaxFrames)
  BY EmptySeq
<1> QED
  BY <1>1 DEF ClientEvent, EventType, Contract!Event, Contract!Connect, Contract!Closing,
              Contract!Error, Contract!CloseClean, Contract!CloseUnclean

LEMMA EventPairs ==
  /\ Append(<<Contract!Error>>, Contract!CloseUnclean)
       = <<Contract!Error, Contract!CloseUnclean>>
  /\ Append(<<Contract!Closing>>, Contract!CloseClean)
       = <<Contract!Closing, Contract!CloseClean>>
<1>1. /\ Contract!Error \in ClientEvent /\ Contract!CloseUnclean \in ClientEvent
      /\ Contract!Closing \in ClientEvent /\ Contract!CloseClean \in ClientEvent
  BY Events
<1>2. Append(<<Contract!Error>>, Contract!CloseUnclean)
        = <<Contract!Error, Contract!CloseUnclean>>
  BY <1>1, PairSeq, Zenon
<1>3. Append(<<Contract!Closing>>, Contract!CloseClean)
        = <<Contract!Closing, Contract!CloseClean>>
  BY <1>1, PairSeq, Zenon
<1> QED
  BY <1>2, <1>3

\* The types of what is reported join those of what has been.
LEMMA ReportJoins ==
  ASSUME log \in Seq(ClientEvent), NEW t \in Seq(ClientEvent), log' = log \o t
  PROVE  /\ log' \in Seq(ClientEvent)
         /\ \A v : Told(v)' <=> Told(v) \/ \E i \in DOMAIN t : t[i].type = v
<1>1. /\ log' \in Seq(ClientEvent) /\ Len(log) \in Nat /\ Len(t) \in Nat
      /\ DOMAIN log' = 1..(Len(log) + Len(t))
      /\ \A i \in 1..Len(log) : log'[i] = log[i]
      /\ \A i \in 1..Len(t) : log'[Len(log) + i] = t[i]
  BY ConcatElements
<1>2. DOMAIN log = 1..Len(log) /\ DOMAIN t = 1..Len(t)
  BY LenProperties
<1>3. ASSUME NEW i \in DOMAIN log'
      PROVE  \/ \E k \in DOMAIN log : log'[i] = log[k]
             \/ \E k \in DOMAIN t : log'[i] = t[k]
  <2>1. CASE i <= Len(log)
    BY <1>1, <1>2, <2>1
  <2>2. CASE i > Len(log)
    <3>1. i - Len(log) \in DOMAIN t /\ i = Len(log) + (i - Len(log))
      BY <1>1, <1>2, <2>2
    <3> QED
      BY <1>1, <1>2, <3>1
  <2> QED
    BY <1>1, <2>1, <2>2
<1>4. ASSUME NEW i \in DOMAIN log PROVE i \in DOMAIN log' /\ log'[i] = log[i]
  BY <1>1, <1>2
<1>5. ASSUME NEW i \in DOMAIN t
      PROVE  Len(log) + i \in DOMAIN log' /\ log'[Len(log) + i] = t[i]
  BY <1>1, <1>2
<1>6. \A v : Told(v)' <=> Told(v) \/ \E i \in DOMAIN t : t[i].type = v
  <2> TAKE v
  <2>1. ASSUME NEW i \in DOMAIN log', log'[i].type = v
        PROVE  Told(v) \/ \E k \in DOMAIN t : t[k].type = v
    BY <1>3, <2>1 DEF Told
  <2>2. ASSUME NEW i \in DOMAIN log, log[i].type = v
        PROVE  \E k \in DOMAIN log' : log'[k].type = v
    BY <1>4, <2>2
  <2>3. ASSUME NEW i \in DOMAIN t, t[i].type = v
        PROVE  \E k \in DOMAIN log' : log'[k].type = v
    BY <1>5, <2>3
  <2> QED
    BY <2>1, <2>2, <2>3, Zenon DEF Told
<1> QED
  BY <1>1, <1>6

\* One callback, if there is a client.
LEMMA ReportOne ==
  ASSUME log \in Seq(ClientEvent), client \in BOOLEAN,
         NEW e \in ClientEvent, log' = Report(<<e>>)
  PROVE  /\ log' \in Seq(ClientEvent)
         /\ client => log' = Append(log, e)
         /\ ~client => log' = log
         /\ \A v : Told(v)' <=> Told(v) \/ (client /\ v = e.type)
<1>1. <<e>> \in Seq(ClientEvent) /\ DOMAIN <<e>> = {1} /\ <<e>>[1] = e
  BY SingletonSeq, LenProperties
<1>2. CASE client
  <2>1. log' = log \o <<e>>
    BY <1>2 DEF Report
  <2>2. log' = Append(log, e)
    BY <2>1, AppendIsConcat
  <2>3. /\ log' \in Seq(ClientEvent)
        /\ \A v : Told(v)' <=> Told(v) \/ \E i \in DOMAIN <<e>> : <<e>>[i].type = v
    BY <1>1, <2>1, ReportJoins
  <2>4. \A v : Told(v)' <=> Told(v) \/ v = e.type
    BY <1>1, <2>3
  <2> QED
    BY <1>2, <2>2, <2>3, <2>4
<1>3. CASE ~client
  BY <1>3 DEF Report, Told
<1> QED
  BY <1>2, <1>3

\* Two callbacks of one step.
LEMMA ReportTwo ==
  ASSUME log \in Seq(ClientEvent), client \in BOOLEAN,
         NEW e \in ClientEvent, NEW f \in ClientEvent, log' = Report(<<e, f>>)
  PROVE  /\ log' \in Seq(ClientEvent)
         /\ client => log' = log \o <<e, f>>
         /\ ~client => log' = log
         /\ \A v : Told(v)' <=> Told(v) \/ (client /\ v \in {e.type, f.type})
<1>1. /\ <<e, f>> \in Seq(ClientEvent) /\ DOMAIN <<e, f>> = {1, 2}
      /\ <<e, f>>[1] = e /\ <<e, f>>[2] = f
  BY PairSeq, LenProperties
<1>2. CASE client
  <2>1. log' = log \o <<e, f>>
    BY <1>2 DEF Report
  <2>2. /\ log' \in Seq(ClientEvent)
        /\ \A v : Told(v)' <=> Told(v) \/ \E i \in DOMAIN <<e, f>> : <<e, f>>[i].type = v
    BY <1>1, <2>1, ReportJoins
  <2>3. \A v : Told(v)' <=> Told(v) \/ v \in {e.type, f.type}
    BY <1>1, <2>2
  <2> QED
    BY <1>2, <2>1, <2>2, <2>3
<1>3. CASE ~client
  BY <1>3 DEF Report, Told
<1> QED
  BY <1>2, <1>3

\* What destructStream does to the tasks.
LEMMA DestructTasks ==
  ASSUME Typed, NEW queued \in Seq(Task), DestructStream(queued)
  PROVE  /\ tasks \o queued \in Seq(Task)
         /\ tasks' \in Seq(Task)
         /\ streamID => tasks' = Append(tasks \o queued, "destroy")
         /\ ~streamID => tasks' = tasks \o queued
         /\ streamID' = FALSE /\ listed' \in BOOLEAN
<1>1. tasks \o queued \in Seq(Task)
  BY ConcatProperties DEF Typed, StatesTyped, FlagsTyped, QueuesTyped
<1>2. CASE streamID
  <2>1. tasks' = tasks \o queued \o <<"destroy">>
    BY <1>2 DEF DestructStream
  <2>2. "destroy" \in Task
    BY DEF Task
  <2>3. tasks' = Append(tasks \o queued, "destroy")
    BY <1>1, <2>1, <2>2, AppendIsConcat
  <2> QED
    BY <1>1, <1>2, <2>2, <2>3, AppendProperties DEF DestructStream, Typed, StatesTyped, FlagsTyped, QueuesTyped
<1>3. CASE ~streamID
  <2>1. tasks' = tasks \o queued \o <<>>
    BY <1>3 DEF DestructStream
  <2>2. tasks' = tasks \o queued
    BY <1>1, <2>1, ConcatEmptySeq
  <2> QED
    BY <1>1, <1>3, <2>2 DEF DestructStream, Typed, StatesTyped, FlagsTyped, QueuesTyped
<1> QED
  BY <1>2, <1>3 DEF Typed, StatesTyped, FlagsTyped, QueuesTyped

\* The queued frames.
LEMMA FrameSent ==
  ASSUME Typed, NEW opcode \in Written
  PROVE  /\ SendFrame(opcode) \in Seq(Task)
         /\ sentClose => tasks \o SendFrame(opcode) = tasks
         /\ ~sentClose => tasks \o SendFrame(opcode) = Append(tasks, opcode)
         /\ tasks \o SendFrame(opcode) \in Seq(Task)
<1>1. opcode \in Task
  BY Goodness
<1>2. <<opcode>> \in Seq(Task) /\ <<>> \in Seq(Task)
  BY <1>1, SingletonSeq, EmptySeq
<1>3. SendFrame(opcode) \in Seq(Task)
  BY <1>2 DEF SendFrame
<1>4. sentClose => tasks \o SendFrame(opcode) = tasks
  BY ConcatEmptySeq DEF SendFrame, Typed, StatesTyped, FlagsTyped, QueuesTyped
<1>5. ~sentClose => tasks \o SendFrame(opcode) = Append(tasks, opcode)
  BY <1>1, AppendIsConcat DEF SendFrame, Typed, StatesTyped, FlagsTyped, QueuesTyped
<1> QED
  BY <1>3, <1>4, <1>5, ConcatProperties DEF Typed, StatesTyped, FlagsTyped, QueuesTyped

LEMMA FailFacts ==
  ASSUME Typed, DidFailInternal
  PROVE  /\ ~receivedFail /\ receivedFail' = TRUE /\ discard' = TRUE /\ buffer' = <<>>
         /\ hasContinuous' = FALSE /\ continuousData' = <<>> /\ state' = "Closed"
         /\ DestructStream(<<>>) /\ <<>> \in Seq(Task)
         /\ state = "Closed" => log' = Report(<<Contract!Error>>)
         /\ state # "Closed" => log' = Report(<<Contract!Error, Contract!CloseUnclean>>)
BY EventPairs, EmptySeq DEF DidFailInternal, DidCloseInternal

LEMMA CloseFacts ==
  ASSUME Typed, state # "Closed", NEW queued, DidCloseInternal(queued, <<>>, Contract!CloseUnclean)
  PROVE  /\ DestructStream(queued) /\ state' = "Closed"
         /\ log' = Report(<<Contract!CloseUnclean>>)
<1>1. Append(<<>>, Contract!CloseUnclean) = <<Contract!CloseUnclean>>
  BY Events, SingletonSeq
<1> QED
  BY <1>1 DEF DidCloseInternal

\* A delivered callback was the first in the queue.
LEMMA DeliverFacts ==
  ASSUME Typed, NEW type, Deliver(type)
  PROVE  /\ callbacks' \in Seq(GoodCallback) /\ Head(callbacks) \in GoodCallback
         /\ Head(callbacks).units \in Seq(GoodUnit) /\ Head(callbacks).type = type
         /\ callbacks # <<>> /\ ~receiving
         /\ Head(callbacks) = callbacks[1] /\ 1 \in DOMAIN callbacks
         /\ \A i \in DOMAIN callbacks' : i + 1 \in DOMAIN callbacks
                                         /\ callbacks'[i] = callbacks[i + 1]
<1>1. callbacks \in Seq(GoodCallback) /\ callbacks # <<>> /\ callbacks' = Tail(callbacks)
      /\ Head(callbacks).type = type /\ ~receiving
  BY DEF Typed, StatesTyped, FlagsTyped, QueuesTyped, Deliver
<1>2. /\ Tail(callbacks) \in Seq(GoodCallback) /\ Len(callbacks) \in Nat \ {0}
      /\ Len(Tail(callbacks)) = Len(callbacks) - 1
      /\ \A i \in 1..Len(Tail(callbacks)) : Tail(callbacks)[i] = callbacks[i + 1]
      /\ Head(callbacks) = callbacks[1] /\ Head(callbacks) \in GoodCallback
  BY <1>1, TailFacts
<1>3. DOMAIN callbacks = 1..Len(callbacks)
      /\ DOMAIN Tail(callbacks) = 1..Len(Tail(callbacks))
  BY <1>1, <1>2, LenProperties
<1>4. Head(callbacks).units \in Seq(GoodUnit)
  BY <1>2 DEF GoodCallback
<1> QED
  BY <1>1, <1>2, <1>3, <1>4

\* What the tasks of a stream that stays will write.
LEMMA TasksTyped ==
  ASSUME Typed, StreamLife, ~Queued("destroy")
  PROVE  TasksOfStream \in Seq(Written)
<1>1. /\ tasks \in Seq(Task) /\ Len(tasks) \in Nat /\ DOMAIN tasks = 1..Len(tasks)
      /\ \A i \in 1..Len(tasks) : tasks[i] \in Task
  BY ElementOfSeq, LenProperties DEF Typed, StatesTyped, FlagsTyped, QueuesTyped
<1>2. \A i \in 1..Len(tasks) : i # 1 => tasks[i] \in Written
  BY <1>1, Goodness DEF StreamLife, Queued
<1>3. CASE tasks # <<>> /\ Head(tasks) = "create"
  <2>1. /\ Tail(tasks) \in Seq(Task) /\ Len(Tail(tasks)) = Len(tasks) - 1
        /\ \A i \in 1..Len(Tail(tasks)) : Tail(tasks)[i] = tasks[i + 1]
    BY <1>1, <1>3, TailFacts
  <2>2. \A i \in 1..Len(Tail(tasks)) : Tail(tasks)[i] \in Written
    BY <1>1, <1>2, <2>1
  <2> QED
    BY <1>3, <2>1, <2>2, SeqNarrows DEF TasksOfStream
<1>4. CASE ~(tasks # <<>> /\ Head(tasks) = "create")
  <2>1. \A i \in 1..Len(tasks) : tasks[i] \in Written
    <3>1. CASE tasks = <<>>
      BY <3>1, <1>1, EmptySeq
    <3>2. CASE tasks # <<>>
      <4>1. Head(tasks) = tasks[1] /\ tasks[1] \in Task
        BY <1>1, <3>2, TailFacts
      <4>2. tasks[1] # "destroy"
        BY <1>1, <3>2, TailFacts DEF Queued
      <4> QED
        BY <4>1, <4>2, <3>2, <1>4, <1>2, Goodness
    <3> QED
      BY <3>1, <3>2
  <2> QED
    BY <1>1, <1>4, <2>1, SeqNarrows DEF TasksOfStream
<1> QED
  BY <1>3, <1>4

\* Execution of the queued tasks leaves only what may be written in the buffers.
LEMMA BuffersTyped ==
  ASSUME Typed, StreamLife
  PROVE  /\ BuffersAfterTasks \in Seq(Written)
         /\ StreamAfterTasks \in {"none", "connecting", "up", "dead"}
         /\ StreamAfterTasks \notin {"none", "dead"} => ~Queued("destroy")
<1>1. StreamAfterTasks \in {"none", "connecting", "up", "dead"}
  BY DEF Typed, StatesTyped, FlagsTyped, QueuesTyped, StreamAfterTasks
<1>2. StreamAfterTasks \notin {"none", "dead"} => ~Queued("destroy")
  BY DEF StreamAfterTasks, ToSet, Queued
<1>3. ~Queued("destroy") => TasksOfStream \in Seq(Written)
  BY TasksTyped
<1>4. BuffersAfterTasks \in Seq(Written)
  <2>1. CASE StreamAfterTasks \in {"none", "dead"}
    BY <2>1, EmptySeq DEF BuffersAfterTasks
  <2>2. CASE StreamAfterTasks \notin {"none", "dead"}
    BY <2>2, <1>2, <1>3, ConcatProperties DEF BuffersAfterTasks, Typed, StatesTyped, FlagsTyped, QueuesTyped
  <2> QED
    BY <2>1, <2>2
<1> QED
  BY <1>1, <1>2, <1>4

\* One run of the scheduler, by what the stream was when its tasks had been executed.
LEMMA PumpTyped ==
  ASSUME Typed, StreamLife, PumpMainThread
  PROVE  /\ stream' \in {"none", "connecting", "up", "dead"}
         /\ inbound' \in Seq(GoodUnit) /\ callbacks' \in Seq(GoodCallback)
         /\ sendBuffers' \in Seq(Written) /\ outbound' \in Seq(Written)
         /\ tasks' = <<>>
<1>1. /\ BuffersAfterTasks \in Seq(Written)
      /\ StreamAfterTasks \in {"none", "connecting", "up", "dead"}
  BY BuffersTyped
<1>2. callbacks \in Seq(GoodCallback) /\ inbound \in Seq(GoodUnit)
      /\ outbound \in Seq(Written) /\ <<>> \in Seq(GoodUnit) /\ <<>> \in Seq(Written)
  BY EmptySeq DEF Typed, StatesTyped, FlagsTyped, QueuesTyped
<1>3. ASSUME NEW type \in {"open", "data", "fail"}, NEW units \in Seq(GoodUnit)
      PROVE  Call(type, units) \in Seq(GoodCallback)
  <2>1. [type |-> type, units |-> units] \in GoodCallback
    BY DEF GoodCallback
  <2> QED
    BY <2>1, <1>2, AppendProperties DEF Call
<1>4. /\ Call("open", <<>>) \in Seq(GoodCallback)
      /\ Call("fail", <<>>) \in Seq(GoodCallback)
      /\ Call("data", <<>>) \in Seq(GoodCallback)
  BY <1>2, <1>3
<1>5. ASSUME TryToConnect
      PROVE  /\ stream' \in {"none", "connecting", "up", "dead"}
             /\ inbound' \in Seq(GoodUnit) /\ callbacks' \in Seq(GoodCallback)
  <2>1. inbound' = inbound /\ stream' \in {"connecting", "up", "dead"}
    BY <1>5 DEF TryToConnect, NotifyFailure
  <2>2. callbacks' \in {callbacks, Call("open", <<>>), Call("fail", <<>>)}
    BY <1>5 DEF TryToConnect, NotifyFailure
  <2> QED
    BY <2>1, <2>2, <1>2, <1>4
<1>6. ASSUME TryToReceive
      PROVE  /\ stream' \in {"none", "connecting", "up", "dead"}
             /\ inbound' \in Seq(GoodUnit) /\ callbacks' \in Seq(GoodCallback)
  <2>1. CASE peer = "reset"
    <3>1. stream' = "dead" /\ callbacks' = Call("fail", <<>>) /\ inbound' = <<>>
      BY <1>6, <2>1, Zenon DEF TryToReceive, NotifyFailure
    <3> QED
      BY <3>1, <1>2, <1>4
  <2>2. CASE peer # "reset" /\ inbound # <<>>
    <3>1. PICK n \in 1..Len(inbound) :
            /\ callbacks' = Call("data", SubSeq(inbound, 1, n))
            /\ inbound' = SubSeq(inbound, n + 1, Len(inbound))
            /\ stream' = "up"
      BY <1>6, <2>2 DEF TryToReceive
    <3>2. Len(inbound) \in Nat
      BY <1>2, LenProperties
    <3>3. SubSeq(inbound, 1, n) \in Seq(GoodUnit)
      BY <1>2, <3>2, SubSeqProperties
    <3>4. SubSeq(inbound, n + 1, Len(inbound)) \in Seq(GoodUnit)
      BY <1>2, <3>2, SubSeqProperties
    <3> QED
      BY <3>1, <3>3, <3>4, <1>3
  <2>3. CASE peer = "fin" /\ inbound = <<>>
    <3>1. stream' = "dead" /\ callbacks' = Call("data", <<>>) /\ inbound' = inbound
      BY <1>6, <2>3, Zenon DEF TryToReceive
    <3> QED
      BY <3>1, <1>2, <1>4
  <2>4. CASE peer # "reset" /\ inbound = <<>> /\ peer # "fin"
    <3>1. stream' = "up" /\ callbacks' = callbacks /\ inbound' = inbound
      BY <1>6, <2>4, Zenon DEF TryToReceive
    <3> QED
      BY <3>1, <1>2
  <2> QED
    BY <2>1, <2>2, <2>3, <2>4
<1>7. ASSUME NothingToTransfer
      PROVE  /\ stream' \in {"none", "connecting", "up", "dead"}
             /\ inbound' \in Seq(GoodUnit) /\ callbacks' \in Seq(GoodCallback)
  BY <1>7, <1>1, <1>2 DEF NothingToTransfer
<1>8. /\ stream' \in {"none", "connecting", "up", "dead"}
      /\ inbound' \in Seq(GoodUnit) /\ callbacks' \in Seq(GoodCallback)
  BY <1>5, <1>6, <1>7 DEF PumpMainThread
<1>9. sendBuffers' \in Seq(Written) /\ outbound' \in Seq(Written)
  <2>1. CASE StreamAfterTasks = "up" /\ stream' = "up" /\ BuffersAfterTasks # <<>>
    <3>1. /\ outbound' = Append(outbound, Head(BuffersAfterTasks))
          /\ sendBuffers' = Tail(BuffersAfterTasks)
      BY <2>1 DEF PumpMainThread, TryToSend
    <3>2. Tail(BuffersAfterTasks) \in Seq(Written) /\ Head(BuffersAfterTasks) \in Written
      BY <1>1, <2>1, TailFacts
    <3> QED
      BY <3>1, <3>2, <1>2, AppendProperties
  <2>2. CASE ~(StreamAfterTasks = "up" /\ stream' = "up" /\ BuffersAfterTasks # <<>>)
    <3>1. outbound' = outbound /\ sendBuffers' \in {<<>>, BuffersAfterTasks}
      BY <2>2 DEF PumpMainThread, TryToSend
    <3> QED
      BY <3>1, <1>1, <1>2
  <2> QED
    BY <2>1, <2>2
<1> QED
  BY <1>8, <1>9 DEF PumpMainThread

\* What the server sends.
LEMMA ServerSendsTyped ==
  ASSUME Typed, NEW kind, NEW id, [kind |-> kind, id |-> id] \in GoodUnit, ServerSends(kind, id)
  PROVE  inbound' \in Seq(GoodUnit)
<1>1. [kind |-> "half", id |-> 0] \in GoodUnit
  BY DEF GoodUnit
<1> DEFINE h == [kind |-> "half", id |-> 0]
<1> DEFINE u == [kind |-> kind, id |-> id]
<1>2. inbound' = inbound \o <<h, u>>
  BY DEF ServerSends
<1> HIDE DEF h, u
<1>3. <<h, u>> \in Seq(GoodUnit)
  BY <1>1, PairSeq DEF h, u
<1> QED
  BY <1>2, <1>3, ConcatProperties DEF Typed, StatesTyped, FlagsTyped, QueuesTyped

LEMMA StepTyped ==
  ASSUME Typed, StreamLife, FieldsRemember
  PROVE  [Next]_vars => Typed'
<1> USE DEF Typed, StatesTyped, FlagsTyped, QueuesTyped
<1>a. <<>> \in Seq(GoodUnit) /\ <<>> \in Seq(1..MaxFrames) /\ <<>> \in Seq(Task)
  BY EmptySeq
<1>b. /\ Len(buffer) \in Nat
      /\ ~Incomplete => Skipped \in Seq(GoodUnit) /\ buffer[2] \in GoodUnit
  <2>1. Len(buffer) \in Nat
    BY LenProperties
  <2>2. ASSUME ~Incomplete PROVE Skipped \in Seq(GoodUnit) /\ buffer[2] \in GoodUnit
    <3>1. Len(buffer) >= 2 /\ 2 \in 1..Len(buffer)
      BY <2>1, <2>2 DEF Incomplete
    <3> QED
      BY <3>1, ElementOfSeq, SubSeqProperties DEF Skipped
  <2> QED
    BY <2>1, <2>2
<1>c. DidFailInternal =>
        /\ receivedFail' = TRUE /\ discard' = TRUE /\ buffer' = <<>>
        /\ hasContinuous' = FALSE /\ continuousData' = <<>> /\ state' = "Closed"
        /\ tasks' \in Seq(Task) /\ streamID' = FALSE /\ listed' \in BOOLEAN
        /\ log' \in Seq(ClientEvent)
  <2> SUFFICES ASSUME DidFailInternal
               PROVE  /\ tasks' \in Seq(Task) /\ streamID' = FALSE /\ listed' \in BOOLEAN
                      /\ log' \in Seq(ClientEvent)
    BY FailFacts
  <2>1. tasks' \in Seq(Task) /\ streamID' = FALSE /\ listed' \in BOOLEAN
    BY FailFacts, DestructTasks
  <2>2. CASE state = "Closed"
    BY <2>1, <2>2, FailFacts, Events, ReportOne
  <2>3. CASE state # "Closed"
    BY <2>1, <2>3, FailFacts, Events, ReportTwo
  <2> QED
    BY <2>2, <2>3
<1>d. ASSUME state # "Closed", DidCloseInternal(<<>>, <<>>, Contract!CloseUnclean)
      PROVE  /\ state' = "Closed"
             /\ tasks' \in Seq(Task) /\ streamID' = FALSE /\ listed' \in BOOLEAN
             /\ log' \in Seq(ClientEvent)
  <2>1. DestructStream(<<>>) /\ state' = "Closed" /\ log' = Report(<<Contract!CloseUnclean>>)
    BY <1>d, CloseFacts
  <2>2. tasks' \in Seq(Task) /\ streamID' = FALSE /\ listed' \in BOOLEAN
    BY <2>1, <1>a, DestructTasks
  <2>3. log' \in Seq(ClientEvent)
    BY <2>1, Events, ReportOne
  <2> QED
    BY <2>1, <2>2, <2>3
<1>e. ASSUME DidFailInternal, callbacks' \in Seq(GoodCallback),
             UNCHANGED <<client, handshakeDone, receivedClose, sentClose, receiving,
                         stream, sendBuffers, netVars, sends>>
      PROVE  Typed'
  <2>1. StatesTyped'
    BY <1>c, <1>e
  <2>2. FlagsTyped'
    BY <1>c, <1>e
  <2>3. QueuesTyped'
    BY <1>a, <1>c, <1>e
  <2> QED
    BY <2>1, <2>2, <2>3
<1>1. ASSUME Connect PROVE Typed'
  <2>1. tasks' \in Seq(Task)
    <3>1. "create" \in Task
      BY DEF Task
    <3> QED
      BY <1>1, <3>1, AppendProperties DEF Connect
  <2> QED
    BY <1>1, <2>1 DEF Connect
<1>2. ASSUME Send PROVE Typed'
  <2>1. "message" \in Written
    BY DEF Written
  <2>2. sends' \in 0..MaxSends
    BY <1>2, BoundAssumption DEF Send
  <2>3. UNCHANGED <<client, handshakeDone, receivedClose, sentClose, receiving,
                    stream, sendBuffers, callbacks, netVars>>
    BY <1>2 DEF Send
  <2>4. CASE /\ tasks' = tasks \o SendFrame("message")
             /\ UNCHANGED <<state, streamID, receiveVars, receivedFail, listed, log>>
    BY <2>1, <2>2, <2>3, <2>4, FrameSent
  <2>5. CASE DidFailInternal
    <3>1. StatesTyped'
      BY <1>c, <2>3, <2>5
    <3>2. FlagsTyped'
      BY <1>c, <2>3, <2>5
    <3>3. QueuesTyped'
      BY <1>a, <1>c, <2>2, <2>3, <2>5
    <3> QED
      BY <3>1, <3>2, <3>3
  <2> QED
    BY <1>2, <2>4, <2>5 DEF Send
<1>3. ASSUME CloseEarly PROVE Typed'
  <2>1. state # "Closed" /\ DidCloseInternal(<<>>, <<>>, Contract!CloseUnclean)
    BY <1>3 DEF CloseEarly
  <2> QED
    BY <1>3, <2>1, <1>d DEF CloseEarly
<1>4. ASSUME CloseOpened PROVE Typed'
  <2>1. "close" \in Written
    BY DEF Written
  <2> QED
    BY <1>4, <2>1, FrameSent DEF CloseOpened
<1>5. ASSUME Fail PROVE Typed'
  <2>1. callbacks' \in Seq(GoodCallback)
    BY <1>5 DEF Fail
  <2> QED
    BY <1>5, <2>1, <1>e DEF Fail
<1>6. ASSUME Disconnect PROVE Typed'
  <2>1. DestructStream(<<>>)
    BY <1>6 DEF Disconnect
  <2>2. tasks' \in Seq(Task) /\ streamID' = FALSE /\ listed' \in BOOLEAN
    BY <2>1, <1>a, DestructTasks
  <2> QED
    <3>1. StatesTyped'
      BY <1>6, <2>2 DEF Disconnect
    <3>2. FlagsTyped'
      BY <1>6, <2>2 DEF Disconnect
    <3>3. QueuesTyped'
      BY <1>6, <2>2 DEF Disconnect
    <3> QED
      BY <3>1, <3>2, <3>3
<1>7. ASSUME IgnoreCallback PROVE Typed'
  <2>1. callbacks' \in Seq(GoodCallback)
    BY <1>7, DeliverFacts DEF IgnoreCallback
  <2> QED
    BY <1>7, <2>1 DEF IgnoreCallback
<1>8. ASSUME DidOpen PROVE Typed'
  <2>1. callbacks' \in Seq(GoodCallback)
    BY <1>8, DeliverFacts DEF DidOpen
  <2>2. tasks' \in Seq(Task)
    <3>1. "request" \in Task
      BY DEF Task
    <3> QED
      BY <1>8, <3>1, AppendProperties DEF DidOpen
  <2> QED
    BY <1>8, <2>1, <2>2 DEF DidOpen
<1>9. ASSUME DidReceiveShutdown PROVE Typed'
  <2>1. callbacks' \in Seq(GoodCallback) /\ Head(callbacks).type = "data"
    BY <1>9, DeliverFacts DEF DidReceiveShutdown
  <2>2. state # "Closed"
    BY <1>9, <2>1 DEF DidReceiveShutdown, Ignored
  <2>3. DidCloseInternal(<<>>, <<>>, Contract!CloseUnclean)
    BY <1>9 DEF DidReceiveShutdown
  <2> QED
    BY <1>9, <2>1, <2>2, <2>3, <1>d DEF DidReceiveShutdown
<1>10. ASSUME DidReceiveData PROVE Typed'
  <2>1. callbacks' \in Seq(GoodCallback) /\ Head(callbacks).units \in Seq(GoodUnit)
    BY <1>10, DeliverFacts DEF DidReceiveData
  <2>2. buffer' \in Seq(GoodUnit)
    BY <1>10, <2>1, ConcatProperties DEF DidReceiveData
  <2> QED
    BY <1>10, <2>1, <2>2 DEF DidReceiveData
<1>11. ASSUME DidFail PROVE Typed'
  <2>1. callbacks' \in Seq(GoodCallback)
    BY <1>11, DeliverFacts DEF DidFail
  <2> QED
    BY <1>11, <2>1, <1>e DEF DidFail
<1>12. ASSUME ReceiveDone PROVE Typed'
  <2>1. StatesTyped'
    BY <1>12 DEF ReceiveDone
  <2>2. FlagsTyped'
    BY <1>12 DEF ReceiveDone
  <2>3. QueuesTyped'
    BY <1>12 DEF ReceiveDone
  <2> QED
    BY <2>1, <2>2, <2>3
<1>13. ASSUME ReceiveHandshake PROVE Typed'
  <2>1. log' \in Seq(ClientEvent)
    BY <1>13, Events, ReportOne DEF ReceiveHandshake
  <2> QED
    BY <1>13, <2>1, <1>b DEF ReceiveHandshake
<1>14. ASSUME RejectHandshake PROVE Typed'
  <2>1. callbacks' \in Seq(GoodCallback)
    BY <1>14 DEF RejectHandshake
  <2> QED
    BY <1>14, <2>1, <1>e DEF RejectHandshake
<1>15. ASSUME ReceiveMessage PROVE Typed'
  <2> DEFINE kind == buffer[2].kind
  <2> DEFINE id == buffer[2].id
  <2> DEFINE data == Append(continuousData, id)
  <2>1. ~Incomplete
    BY <1>15 DEF ReceiveMessage, NextFrame
  <2>2. kind \in {"first", "middle", "last", "text"}
    BY <1>15 DEF ReceiveMessage
  <2>3. id \in 1..MaxFrames
    BY <2>1, <2>2, <1>b, Goodness DEF FrameKind
  <2>4. data \in Seq(1..MaxFrames) /\ <<id>> \in Seq(1..MaxFrames)
    BY <2>3, AppendProperties, SingletonSeq
  <2>5. /\ Contract!Event("message", data) \in ClientEvent
        /\ Contract!Event("message", <<id>>) \in ClientEvent
    BY <2>4, Events
  <2>6. /\ hasContinuous' \in BOOLEAN /\ continuousData' \in {continuousData, data, <<>>}
        /\ \/ log' = log \/ log' = Report(<<Contract!Event("message", data)>>)
           \/ log' = Report(<<Contract!Event("message", <<id>>)>>)
    BY <1>15 DEF ReceiveMessage
  <2>7. log' \in Seq(ClientEvent)
    BY <2>5, <2>6, ReportOne
  <2>8. continuousData' \in Seq(1..MaxFrames)
    BY <2>4, <2>6, <1>a
  <2> HIDE DEF kind, id, data
  <2> QED
    BY <1>15, <2>1, <2>6, <2>7, <2>8, <1>b DEF ReceiveMessage
<1>16. ASSUME ReceivePing PROVE Typed'
  <2>1. "pong" \in Written
    BY DEF Written
  <2>2. tasks' \in Seq(Task)
    BY <1>16, <2>1, FrameSent DEF ReceivePing
  <2> QED
    BY <1>16, <2>2, <1>b DEF ReceivePing, NextFrame
<1>17. ASSUME ReceiveClose PROVE Typed'
  <2>1. SendFrame("close") \in Seq(Task)
    BY FrameSent DEF Written
  <2>2. state # "Closed"
    BY <1>17 DEF ReceiveClose, NextFrame, FieldsRemember
  <2>3. /\ DestructStream(SendFrame("close")) /\ state' = "Closed"
        /\ log' = Report(Append(<<Contract!Closing>>, Contract!CloseClean))
    BY <1>17, <2>2 DEF ReceiveClose, DidCloseInternal
  <2>4. Append(<<Contract!Closing>>, Contract!CloseClean)
          = <<Contract!Closing, Contract!CloseClean>>
    BY EventPairs
  <2>5. log' \in Seq(ClientEvent)
    <3>1. log' = Report(<<Contract!Closing, Contract!CloseClean>>)
      BY <2>3, <2>4
    <3> QED
      BY <3>1, Events, ReportTwo
  <2>6. tasks' \in Seq(Task) /\ streamID' = FALSE /\ listed' \in BOOLEAN
    BY <2>1, <2>3, DestructTasks
  <2> QED
    BY <1>17, <2>3, <2>5, <2>6, <1>b DEF ReceiveClose, NextFrame
<1>18. ASSUME ReceiveRejected PROVE Typed'
  <2>1. callbacks' \in Seq(GoodCallback)
    BY <1>18 DEF ReceiveRejected
  <2> QED
    BY <1>18, <2>1, <1>e DEF ReceiveRejected
<1>19. ASSUME PumpMainThread PROVE Typed'
  BY <1>19, <1>a, PumpTyped DEF PumpMainThread
<1>20. ASSUME AnswerConnect PROVE Typed'
  BY <1>20 DEF AnswerConnect, EngineUnchanged
<1>21. ASSUME SendHandshake PROVE Typed'
  <2>1. answered' \in {"accepted", "rejected"} /\ ServerSends(answered', 0)
    BY <1>21 DEF SendHandshake
  <2>2. [kind |-> answered', id |-> 0] \in GoodUnit
    BY <2>1 DEF GoodUnit
  <2>3. inbound' \in Seq(GoodUnit)
    BY <2>1, <2>2, ServerSendsTyped
  <2> QED
    BY <1>21, <2>1, <2>3 DEF SendHandshake, EngineUnchanged
<1>22. ASSUME SendServerFrame PROVE Typed'
  <2>1. PICK kind \in Kinds : /\ sent' = Append(sent, kind)
                              /\ ServerSends(kind, Len(sent) + 1)
    BY <1>22 DEF SendServerFrame
  <2>2. kind \in FrameKind /\ Len(sent) \in Nat /\ Len(sent) < MaxFrames
    BY <1>22, KindAssumption, LenProperties DEF SendServerFrame
  <2>3. [kind |-> kind, id |-> Len(sent) + 1] \in GoodUnit
    BY <2>2, BoundAssumption DEF GoodUnit
  <2>4. inbound' \in Seq(GoodUnit)
    BY <2>1, <2>3, ServerSendsTyped
  <2>5. sent' \in Seq(FrameKind)
    BY <2>1, <2>2, AppendProperties
  <2> QED
    BY <1>22, <2>4, <2>5 DEF SendServerFrame, EngineUnchanged
<1>23. ASSUME EndConnection PROVE Typed'
  BY <1>23 DEF EndConnection, EngineUnchanged
<1>24. ASSUME UNCHANGED vars PROVE Typed'
  BY <1>24
<1> QED
  BY <1>1, <1>2, <1>3, <1>4, <1>5, <1>6, <1>7, <1>8, <1>9, <1>10, <1>11, <1>12,
     <1>13, <1>14, <1>15, <1>16, <1>17, <1>18, <1>19, <1>20, <1>21, <1>22, <1>23, <1>24
  DEF Next, Callbacks, Receive

-----------------------------------------------------------------------------
(* The contract: what a step tells the client, and what the fields remember *)

LEMMA ContractReads ==
  /\ \A v : Contract!Happened(v) <=> Told(v)
  /\ Contract!Closed <=> Told("closeClean") \/ Told("closeUnclean")
BY DEF Contract!Happened, Contract!Closed, Told

\* fail() and every error path.
LEMMA FailTold ==
  ASSUME Typed, FieldsRemember, DidFailInternal
  PROVE  /\ [Contract!Next]_log
         /\ \A v : Told(v)' <=>
              Told(v) \/ (client /\ (v = "error" \/ (v = "closeUnclean" /\ state # "Closed")))
<1>1. log \in Seq(ClientEvent) /\ client \in BOOLEAN
  BY DEF Typed, FlagsTyped, QueuesTyped
<1>2. CASE state = "Closed"
  <2>1. /\ client => log' = Append(log, Contract!Error)
        /\ ~client => log' = log
        /\ \A v : Told(v)' <=> Told(v) \/ (client /\ v = "error")
    BY <1>1, <1>2, FailFacts, Events, ReportOne
  <2>2. client => Contract!LateError
    <3>1. client => Contract!Closed /\ ~Contract!Happened("error")
      BY <1>2, FailFacts, ContractReads DEF FieldsRemember
    <3> QED
      BY <2>1, <3>1 DEF Contract!LateError
  <2> QED
    BY <1>2, <2>1, <2>2 DEF Contract!Next
<1>3. CASE state # "Closed"
  <2>1. client
    BY <1>3 DEF FieldsRemember
  <2>2. /\ log' = log \o <<Contract!Error, Contract!CloseUnclean>>
        /\ \A v : Told(v)' <=> Told(v) \/ v \in {"error", "closeUnclean"}
    BY <1>1, <1>3, <2>1, FailFacts, Events, ReportTwo
  <2>3. ~Contract!Closed
    BY <1>3, <2>1, ContractReads DEF FieldsRemember
  <2> QED
    BY <1>3, <2>1, <2>2, <2>3 DEF Contract!DidFail, Contract!Next
<1> QED
  BY <1>2, <1>3

\* A close nobody asked the server for.
LEMMA CloseTold ==
  ASSUME Typed, FieldsRemember, state # "Closed", NEW queued,
         DidCloseInternal(queued, <<>>, Contract!CloseUnclean)
  PROVE  /\ Contract!DidCloseUnclean
         /\ \A v : Told(v)' <=> Told(v) \/ v = "closeUnclean"
<1>1. log \in Seq(ClientEvent) /\ client \in BOOLEAN
  BY DEF Typed, FlagsTyped, QueuesTyped
<1>2. client
  BY DEF FieldsRemember
<1>3. log' = Report(<<Contract!CloseUnclean>>)
  BY CloseFacts
<1>4. /\ log' = Append(log, Contract!CloseUnclean)
      /\ \A v : Told(v)' <=> Told(v) \/ v = "closeUnclean"
  BY <1>1, <1>2, <1>3, Events, ReportOne
<1>5. ~Contract!Closed
  BY <1>2, ContractReads DEF FieldsRemember
<1> QED
  BY <1>4, <1>5 DEF Contract!DidCloseUnclean

\* The opening response.
LEMMA HandshakeTold ==
  ASSUME Typed, FieldsRemember, ReceiveHandshake
  PROVE  /\ Contract!DidConnect /\ client
         /\ \A v : Told(v)' <=> Told(v) \/ v = "connect"
<1>1. log \in Seq(ClientEvent) /\ client \in BOOLEAN
  BY DEF Typed, FlagsTyped, QueuesTyped
<1>2. client /\ state = "Handshaking" /\ ~handshakeDone
  BY DEF ReceiveHandshake, FieldsRemember
<1>3. log' = Report(<<Contract!Connect>>)
  BY DEF ReceiveHandshake
<1>4. /\ log' = Append(log, Contract!Connect)
      /\ \A v : Told(v)' <=> Told(v) \/ v = "connect"
  BY <1>1, <1>2, <1>3, Events, ReportOne
<1>5. ~Contract!Closed /\ ~Contract!Happened("connect")
  BY <1>2, ContractReads DEF FieldsRemember
<1> QED
  BY <1>2, <1>4, <1>5 DEF Contract!DidConnect

\* A frame of data: nothing yet, or the message it completes.
LEMMA MessageTold ==
  ASSUME Typed, FieldsRemember, ReceiveMessage
  PROVE  /\ [Contract!Next]_log /\ state # "Closed"
         /\ \A v : v # "message" => (Told(v)' <=> Told(v))
<1>1. log \in Seq(ClientEvent) /\ client \in BOOLEAN
  BY DEF Typed, FlagsTyped, QueuesTyped
<1>2. client /\ state # "Closed" /\ handshakeDone
  BY DEF ReceiveMessage, NextFrame, FieldsRemember
<1> DEFINE kind == buffer[2].kind
<1> DEFINE id == buffer[2].id
<1> DEFINE data == Append(continuousData, id)
<1>3. id \in 1..MaxFrames
  <2>1. Len(buffer) >= 2 /\ Len(buffer) \in Nat /\ kind \in {"first", "middle", "last", "text"}
    BY LenProperties DEF ReceiveMessage, NextFrame, Incomplete, Typed, QueuesTyped
  <2>2. buffer[2] \in GoodUnit
    BY <2>1, ElementOfSeq DEF Typed, QueuesTyped
  <2> QED
    BY <2>1, <2>2, Goodness DEF FrameKind
<1>4. data \in Seq(1..MaxFrames) /\ <<id>> \in Seq(1..MaxFrames)
  BY <1>3, AppendProperties, SingletonSeq DEF Typed, QueuesTyped
<1>5. \/ log' = log \/ log' = Report(<<Contract!Event("message", data)>>)
      \/ log' = Report(<<Contract!Event("message", <<id>>)>>)
  BY DEF ReceiveMessage
<1>6. Contract!Happened("connect") /\ ~Contract!Closed
  BY <1>2, ContractReads DEF FieldsRemember
<1> HIDE DEF kind, id, data
<1>7. ASSUME NEW f \in Seq(1..MaxFrames), log' = Report(<<Contract!Event("message", f)>>)
      PROVE  /\ Contract!DidReceiveMessage
             /\ \A v : Told(v)' <=> Told(v) \/ v = "message"
  <2> DEFINE e == Contract!Event("message", f)
  <2>1. e \in ClientEvent /\ e.type = "message" /\ e.frames = f
    BY Events
  <2>2. /\ log' = Append(log, e)
        /\ \A v : Told(v)' <=> Told(v) \/ v = e.type
    BY <1>1, <1>2, <1>7, <2>1, ReportOne
  <2> HIDE DEF e
  <2>3. Len(log') = Len(log) + 1 /\ log'[Len(log')] = e
    BY <1>1, <2>1, <2>2, AppendProperties
  <2>4. log' = Append(log, Contract!Event("message", log'[Len(log')].frames))
    BY <2>1, <2>2, <2>3 DEF e
  <2> QED
    BY <1>6, <2>1, <2>2, <2>3, <2>4 DEF Contract!DidReceiveMessage
<1>8. CASE log' = log
  BY <1>2, <1>8 DEF Told
<1>9. CASE log' # log
  BY <1>2, <1>4, <1>5, <1>7, <1>9 DEF Contract!Next
<1> QED
  BY <1>8, <1>9

\* The server's Close frame.
LEMMA CloseFrameTold ==
  ASSUME Typed, FieldsRemember, ReceiveClose
  PROVE  /\ Contract!DidCloseClean /\ state # "Closed" /\ client
         /\ \A v : Told(v)' <=> Told(v) \/ v \in {"closing", "closeClean"}
<1>1. log \in Seq(ClientEvent) /\ client \in BOOLEAN
  BY DEF Typed, FlagsTyped, QueuesTyped
<1>2. client /\ state # "Closed" /\ handshakeDone
  BY DEF ReceiveClose, NextFrame, FieldsRemember
<1>3. log' = Report(<<Contract!Closing, Contract!CloseClean>>)
  BY <1>2, EventPairs DEF ReceiveClose, DidCloseInternal
<1>4. /\ log' = log \o <<Contract!Closing, Contract!CloseClean>>
      /\ \A v : Told(v)' <=> Told(v) \/ v \in {"closing", "closeClean"}
  BY <1>1, <1>2, <1>3, Events, ReportTwo
<1>5. Contract!Happened("connect") /\ ~Contract!Closed
  BY <1>2, ContractReads DEF FieldsRemember
<1> QED
  BY <1>2, <1>4, <1>5 DEF Contract!DidCloseClean

\* The channel tells its client nothing in these steps.
Silent ==
  \/ Connect \/ CloseOpened \/ Disconnect \/ IgnoreCallback \/ DidOpen \/ DidReceiveData
  \/ ReceiveDone \/ ReceivePing \/ PumpMainThread
  \/ AnswerConnect \/ SendHandshake \/ SendServerFrame \/ EndConnection

LEMMA SilentKeepsLog ==
  ASSUME Silent
  PROVE  log' = log
BY DEF Silent, Connect, CloseOpened, Disconnect, IgnoreCallback, DidOpen, DidReceiveData,
   ReceiveDone, ReceivePing, PumpMainThread, AnswerConnect, SendHandshake, SendServerFrame,
   EndConnection, EngineUnchanged

\* Each step of the channel is a step of the contract or leaves the client alone.
LEMMA StepContract ==
  ASSUME Typed, FieldsRemember
  PROVE  [Next]_vars => [Contract!Next]_log
<1>1. ASSUME Silent PROVE [Contract!Next]_log
  BY <1>1, SilentKeepsLog
<1>2. ASSUME Send PROVE [Contract!Next]_log
  BY <1>2, FailTold DEF Send
<1>3. ASSUME CloseEarly PROVE [Contract!Next]_log
  <2>1. state # "Closed" /\ DidCloseInternal(<<>>, <<>>, Contract!CloseUnclean)
    BY <1>3 DEF CloseEarly
  <2> QED
    BY <2>1, CloseTold DEF Contract!Next
<1>4. ASSUME Fail PROVE [Contract!Next]_log
  BY <1>4, FailTold DEF Fail
<1>5. ASSUME DidReceiveShutdown PROVE [Contract!Next]_log
  <2>1. /\ DidCloseInternal(<<>>, <<>>, Contract!CloseUnclean)
        /\ Head(callbacks).type = "data" /\ ~Ignored(Head(callbacks))
    BY <1>5 DEF DidReceiveShutdown, Deliver
  <2>2. state # "Closed"
    BY <2>1 DEF Ignored
  <2> QED
    BY <2>1, <2>2, CloseTold DEF Contract!Next
<1>6. ASSUME DidFail PROVE [Contract!Next]_log
  BY <1>6, FailTold DEF DidFail
<1>7. ASSUME ReceiveHandshake PROVE [Contract!Next]_log
  BY <1>7, HandshakeTold DEF Contract!Next
<1>8. ASSUME RejectHandshake PROVE [Contract!Next]_log
  BY <1>8, FailTold DEF RejectHandshake
<1>9. ASSUME ReceiveMessage PROVE [Contract!Next]_log
  BY <1>9, MessageTold
<1>10. ASSUME ReceiveClose PROVE [Contract!Next]_log
  BY <1>10, CloseFrameTold DEF Contract!Next
<1>11. ASSUME ReceiveRejected PROVE [Contract!Next]_log
  BY <1>11, FailTold DEF ReceiveRejected
<1> QED
  BY <1>1, <1>2, <1>3, <1>4, <1>5, <1>6, <1>7, <1>8, <1>9, <1>10, <1>11
  DEF Next, Callbacks, Receive, Silent

\* The fields keep up with what the client has been told.
LEMMA StepRemember ==
  ASSUME Typed, FieldsRemember
  PROVE  [Next]_vars => FieldsRemember'
<1> USE DEF FieldsRemember
<1>0. log' = log => \A v : Told(v)' <=> Told(v)
  BY DEF Told
<1>a. ASSUME DidFailInternal, UNCHANGED <<client, handshakeDone, receivedClose, receiving>>
      PROVE  FieldsRemember'
  <2>1. \A v : Told(v)' <=>
          Told(v) \/ (client /\ (v = "error" \/ (v = "closeUnclean" /\ state # "Closed")))
    BY <1>a, FailTold
  <2>2. state' = "Closed" /\ receivedFail' = TRUE /\ discard' = TRUE
    BY <1>a, FailFacts
  <2> QED
    BY <1>a, <2>1, <2>2
<1>b. ASSUME DidCloseInternal(<<>>, <<>>, Contract!CloseUnclean), state # "Closed", ~receiving,
             UNCHANGED <<client, handshakeDone, receivedClose, receiving, receivedFail, discard>>
      PROVE  FieldsRemember'
  <2>1. \A v : Told(v)' <=> Told(v) \/ v = "closeUnclean"
    BY <1>b, CloseTold
  <2>2. state' = "Closed"
    BY <1>b, CloseFacts
  <2> QED
    BY <1>b, <2>1, <2>2
<1>c. ASSUME UNCHANGED <<state, client, handshakeDone, receivedClose, receiving, receivedFail,
                         discard, log>>
      PROVE  FieldsRemember'
  BY <1>0, <1>c
<1>1. ASSUME Connect PROVE FieldsRemember'
  BY <1>1, <1>c DEF Connect
<1>2. ASSUME Send PROVE FieldsRemember'
  BY <1>2, <1>a, <1>c DEF Send
<1>3. ASSUME CloseEarly PROVE FieldsRemember'
  BY <1>3, <1>b DEF CloseEarly, Idle
<1>4. ASSUME CloseOpened PROVE FieldsRemember'
  BY <1>4, <1>0 DEF CloseOpened
<1>5. ASSUME Fail PROVE FieldsRemember'
  BY <1>5, <1>a DEF Fail
<1>6. ASSUME Disconnect PROVE FieldsRemember'
  BY <1>6, <1>0 DEF Disconnect, Idle
<1>7. ASSUME IgnoreCallback PROVE FieldsRemember'
  BY <1>7, <1>c DEF IgnoreCallback
<1>8. ASSUME DidOpen PROVE FieldsRemember'
  <2>1. state = "Connecting" /\ state' = "Handshaking"
    BY <1>8 DEF DidOpen, Ignored, Deliver
  <2> QED
    BY <1>8, <1>0, <2>1 DEF DidOpen
<1>9. ASSUME DidReceiveShutdown PROVE FieldsRemember'
  <2>1. state # "Closed" /\ ~receiving
    BY <1>9 DEF DidReceiveShutdown, Ignored, Deliver
  <2> QED
    BY <1>9, <2>1, <1>b DEF DidReceiveShutdown
<1>10. ASSUME DidReceiveData PROVE FieldsRemember'
  <2>1. state # "Closed"
    BY <1>10 DEF DidReceiveData, Ignored, Deliver
  <2> QED
    BY <1>10, <1>0, <2>1 DEF DidReceiveData
<1>11. ASSUME DidFail PROVE FieldsRemember'
  BY <1>11, <1>a DEF DidFail
<1>12. ASSUME ReceiveDone PROVE FieldsRemember'
  BY <1>12, <1>0 DEF ReceiveDone
<1>13. ASSUME ReceiveHandshake PROVE FieldsRemember'
  <2>1. client /\ \A v : Told(v)' <=> Told(v) \/ v = "connect"
    BY <1>13, HandshakeTold
  <2> QED
    BY <1>13, <2>1 DEF ReceiveHandshake
<1>14. ASSUME RejectHandshake PROVE FieldsRemember'
  BY <1>14, <1>a DEF RejectHandshake
<1>15. ASSUME ReceiveMessage PROVE FieldsRemember'
  <2>1. state # "Closed" /\ \A v : v # "message" => (Told(v)' <=> Told(v))
    BY <1>15, MessageTold
  <2>2. UNCHANGED <<state, client, handshakeDone, receivedClose, receiving, receivedFail, discard>>
    BY <1>15 DEF ReceiveMessage
  <2> QED
    BY <2>1, <2>2
<1>16. ASSUME ReceivePing PROVE FieldsRemember'
  BY <1>16, <1>c DEF ReceivePing
<1>17. ASSUME ReceiveClose PROVE FieldsRemember'
  <2>1. client /\ \A v : Told(v)' <=> Told(v) \/ v \in {"closing", "closeClean"}
    BY <1>17, CloseFrameTold
  <2>2. /\ state' = "Closed" /\ receivedClose' = TRUE
        /\ UNCHANGED <<client, handshakeDone, receiving, receivedFail, discard>>
    BY <1>17 DEF ReceiveClose, DidCloseInternal
  <2> QED
    BY <2>1, <2>2
<1>18. ASSUME ReceiveRejected PROVE FieldsRemember'
  BY <1>18, <1>a DEF ReceiveRejected
<1>19. ASSUME PumpMainThread PROVE FieldsRemember'
  BY <1>19, <1>c DEF PumpMainThread
<1>20. ASSUME AnswerConnect \/ SendHandshake \/ SendServerFrame \/ EndConnection
       PROVE  FieldsRemember'
  BY <1>20, <1>c DEF AnswerConnect, SendHandshake, SendServerFrame, EndConnection, EngineUnchanged
<1>21. ASSUME UNCHANGED vars PROVE FieldsRemember'
  BY <1>21, <1>c
<1> QED
  BY <1>1, <1>2, <1>3, <1>4, <1>5, <1>6, <1>7, <1>8, <1>9, <1>10, <1>11, <1>12,
     <1>13, <1>14, <1>15, <1>16, <1>17, <1>18, <1>19, <1>20, <1>21
  DEF Next, Callbacks, Receive

-----------------------------------------------------------------------------
(* The life of the stream *)

\* What a step that leaves the callbacks alone, or takes one away, may rely on.
FewerCallbacks == callbacks = <<>> => callbacks' = <<>>

LEMMA DeliveredFewer ==
  ASSUME NEW type, Deliver(type)
  PROVE  FewerCallbacks /\ callbacks # <<>>
BY DEF Deliver, FewerCallbacks

\* The channel works on: at most one more frame is queued for its stream.
LEMMA WorkingLife ==
  ASSUME Typed, StreamLife, streamID, state' \notin {"Connecting", "Closed"},
         NEW x \in Written, tasks' \in {tasks, Append(tasks, x)},
         FewerCallbacks, UNCHANGED <<streamID, stream>>
  PROVE  StreamLife'
<1>1. tasks \in Seq(Task) /\ x \in Task /\ x \notin {"create", "destroy"}
  BY Goodness DEF Typed, QueuesTyped, Written
<1>2. ASSUME NEW i \in DOMAIN tasks'
      PROVE  /\ tasks'[i] = "create" => i = 1 /\ callbacks' = <<>>
             /\ tasks'[i] # "destroy"
  <2>1. CASE tasks' = tasks
    BY <1>2, <2>1 DEF StreamLife, FewerCallbacks
  <2>2. CASE tasks' = Append(tasks, x)
    <3>1. /\ Len(tasks) \in Nat /\ DOMAIN tasks = 1..Len(tasks)
          /\ DOMAIN tasks' = 1..(Len(tasks) + 1)
          /\ \A k \in 1..Len(tasks) : tasks'[k] = tasks[k]
          /\ tasks'[Len(tasks) + 1] = x
      BY <1>1, <2>2, OneMore
    <3>2. CASE i = Len(tasks) + 1
      BY <1>1, <3>1, <3>2
    <3>3. CASE i \in 1..Len(tasks)
      BY <3>1, <3>3 DEF StreamLife, FewerCallbacks
    <3> QED
      BY <1>2, <3>1, <3>2, <3>3
  <2> QED
    BY <2>1, <2>2
<1> QED
  BY <1>2 DEF StreamLife, Queued

\* The channel lets go of its stream.
LEMMA DestructLife ==
  ASSUME Typed, StreamLife, NEW queued, DestructStream(queued),
         queued = <<>> \/ (streamID /\ queued = SendFrame("close")),
         state' = "Closed", FewerCallbacks, stream' = stream
  PROVE  StreamLife'
<1> DEFINE base == tasks \o queued
<1>1. tasks \in Seq(Task) /\ "close" \in Written /\ <<>> \in Seq(Task) /\ "destroy" \in Task
      /\ "close" \in Task
  BY EmptySeq DEF Typed, QueuesTyped, Written, Task
<1>2. /\ queued \in Seq(Task) /\ base \in Seq(Task)
      /\ base = tasks \/ (streamID /\ base = Append(tasks, "close"))
  BY <1>1, FrameSent, ConcatEmptySeq DEF Typed, FlagsTyped
<1>3. streamID' = FALSE /\ (streamID => tasks' = Append(base, "destroy"))
      /\ (~streamID => tasks' = base)
  BY <1>2, DestructTasks
<1> HIDE DEF base
<1>4. CASE ~streamID
  <2>1. tasks' = tasks
    BY <1>2, <1>3, <1>4
  <2> QED
    BY <1>3, <1>4, <2>1 DEF StreamLife, Queued, FewerCallbacks
<1>5. CASE streamID
  <2>1. \A i \in DOMAIN base : /\ base[i] = "create" => i = 1 /\ callbacks' = <<>>
                               /\ base[i] # "destroy"
    <3>1. CASE base = tasks
      BY <1>5, <3>1 DEF StreamLife, FewerCallbacks
    <3>2. CASE base = Append(tasks, "close")
      <4>1. /\ Len(tasks) \in Nat /\ DOMAIN tasks = 1..Len(tasks)
            /\ DOMAIN base = 1..(Len(tasks) + 1)
            /\ \A k \in 1..Len(tasks) : base[k] = tasks[k]
            /\ base[Len(tasks) + 1] = "close"
        BY <1>1, <3>2, OneMore
      <4>2. ASSUME NEW i \in 1..Len(tasks)
            PROVE  (tasks[i] = "create" => i = 1 /\ callbacks' = <<>>) /\ tasks[i] # "destroy"
        BY <1>5, <4>1, <4>2 DEF StreamLife, FewerCallbacks
      <4>3. ASSUME NEW i \in DOMAIN base
            PROVE  (base[i] = "create" => i = 1 /\ callbacks' = <<>>) /\ base[i] # "destroy"
        <5>1. i = Len(tasks) + 1 \/ i \in 1..Len(tasks)
          BY <4>1, <4>3
        <5> QED
          BY <4>1, <4>2, <5>1
      <4> QED
        BY <4>3
    <3> QED
      BY <1>2, <3>1, <3>2
  <2>2. /\ Len(base) \in Nat /\ DOMAIN base = 1..Len(base)
        /\ Len(tasks') = Len(base) + 1 /\ DOMAIN tasks' = 1..(Len(base) + 1)
        /\ \A k \in 1..Len(base) : tasks'[k] = base[k]
        /\ tasks'[Len(base) + 1] = "destroy"
    BY <1>1, <1>2, <1>3, <1>5, OneMore
  <2>3. Queued("destroy")'
    BY <2>2 DEF Queued
  <2>4. \A i \in DOMAIN tasks' : /\ tasks'[i] = "create" => i = 1 /\ callbacks' = <<>>
                                 /\ tasks'[i] = "destroy" => i = Len(tasks')
    <3>1. ASSUME NEW i \in DOMAIN tasks'
          PROVE  /\ tasks'[i] = "create" => i = 1 /\ callbacks' = <<>>
                 /\ tasks'[i] = "destroy" => i = Len(tasks')
      <4>1. i = Len(base) + 1 \/ i \in DOMAIN base
        BY <2>2, <3>1
      <4> QED
        BY <2>1, <2>2, <4>1
    <3> QED
      BY <3>1
  <2> QED
    BY <1>3, <2>3, <2>4 DEF StreamLife
<1> QED
  BY <1>4, <1>5 DEF Typed, FlagsTyped

\* The step leaves the stream and its tasks alone.
LEMMA SameLife ==
  ASSUME Typed, StreamLife, FewerCallbacks,
         UNCHANGED <<state, streamID, tasks, stream, outbound, sendBuffers>>
  PROVE  StreamLife'
BY DEF StreamLife, FewerCallbacks, Queued

LEMMA PumpLife ==
  ASSUME Typed, StreamLife, PumpMainThread
  PROVE  StreamLife'
<1>1. /\ tasks' = <<>> /\ DOMAIN tasks' = {}
      /\ UNCHANGED <<state, streamID>> /\ (tasks # <<>> \/ stream # "none")
  BY DEF PumpMainThread
<1>2. streamID \/ state = "Closed"
  BY <1>1 DEF StreamLife
<1>3. ASSUME state = "Connecting" PROVE outbound' = <<>> /\ sendBuffers' = <<>>
  <2>1. tasks \in {<<>>, <<"create">>} /\ outbound = <<>> /\ sendBuffers = <<>>
    BY <1>3 DEF StreamLife
  <2>2. TasksOfStream = <<>>
    <3>1. "create" \in Task
      BY DEF Task
    <3>2. Tail(<<"create">>) = <<>> /\ Head(<<"create">>) = "create" /\ <<"create">> # <<>>
      BY <3>1, SingletonSeq
    <3> QED
      BY <2>1, <3>2 DEF TasksOfStream
  <2>3. BuffersAfterTasks = <<>>
    <3>1. <<>> \o <<>> = <<>>
      BY EmptySeq, ConcatEmptySeq
    <3> QED
      BY <2>1, <2>2, <3>1 DEF BuffersAfterTasks
  <2> QED
    BY <2>1, <2>3 DEF PumpMainThread, TryToSend
<1>4. ASSUME ~streamID PROVE stream' = "none"
  <2>1. StreamAfterTasks = "none"
    BY <1>4 DEF StreamLife, Queued, StreamAfterTasks, ToSet
  <2> QED
    BY <2>1 DEF PumpMainThread, TryToConnect, TryToReceive, NothingToTransfer
<1> QED
  BY <1>1, <1>2, <1>3, <1>4 DEF StreamLife, Queued

LEMMA StepLife ==
  ASSUME Typed, StreamLife, FieldsRemember
  PROVE  [Next]_vars => StreamLife'
<1>a. state \notin {"Connecting", "Closed"} => streamID
  BY DEF StreamLife
<1>b. ASSUME NEW opcode \in Written
      PROVE  tasks \o SendFrame(opcode) \in {tasks, Append(tasks, opcode)}
  BY FrameSent DEF Typed, FlagsTyped
<1>c. ASSUME DidFailInternal, FewerCallbacks, stream' = stream PROVE StreamLife'
  BY <1>c, FailFacts, DestructLife
<1>d. /\ "request" \in Written /\ "message" \in Written /\ "pong" \in Written
      /\ "close" \in Written
  BY DEF Written
<1>1. ASSUME Connect PROVE StreamLife'
  <2>1. /\ tasks = <<>> /\ stream = "none" /\ callbacks = <<>> /\ outbound = <<>>
        /\ sendBuffers = <<>>
    BY <1>1 DEF Connect, StreamLife
  <2>2. "create" \in Task
    BY DEF Task
  <2>3. tasks' = <<"create">> /\ DOMAIN tasks' = {1} /\ tasks'[1] = "create"
    BY <1>1, <2>1, <2>2, SingletonSeq, LenProperties DEF Connect
  <2> QED
    BY <1>1, <2>1, <2>3 DEF Connect, StreamLife, Queued
<1>2. ASSUME Send PROVE StreamLife'
  <2>1. /\ FewerCallbacks /\ stream' = stream /\ streamID
        /\ state = "Opened"
    BY <1>2, <1>a DEF Send, FewerCallbacks
  <2>2. CASE /\ tasks' = tasks \o SendFrame("message")
             /\ UNCHANGED <<state, streamID, receiveVars, receivedFail, listed, log>>
    BY <2>1, <2>2, <1>b, <1>d, WorkingLife
  <2>3. CASE DidFailInternal
    BY <2>1, <2>3, <1>c
  <2> QED
    BY <1>2, <2>2, <2>3 DEF Send
<1>3. ASSUME CloseEarly PROVE StreamLife'
  <2>1. /\ state # "Closed" /\ DidCloseInternal(<<>>, <<>>, Contract!CloseUnclean)
        /\ FewerCallbacks /\ stream' = stream
    BY <1>3 DEF CloseEarly, FewerCallbacks
  <2>2. DestructStream(<<>>) /\ state' = "Closed"
    BY <2>1, CloseFacts
  <2> QED
    BY <2>1, <2>2, DestructLife
<1>4. ASSUME CloseOpened PROVE StreamLife'
  <2>1. /\ streamID /\ state' = "Closing" /\ tasks' = tasks \o SendFrame("close")
        /\ FewerCallbacks /\ UNCHANGED <<streamID, stream>>
    BY <1>4, <1>a DEF CloseOpened, FewerCallbacks
  <2> QED
    BY <2>1, <1>b, <1>d, WorkingLife
<1>5. ASSUME Fail PROVE StreamLife'
  BY <1>5, <1>c DEF Fail, FewerCallbacks
<1>6. ASSUME Disconnect PROVE StreamLife'
  <2>1. DestructStream(<<>>) /\ state' = "Closed" /\ FewerCallbacks /\ stream' = stream
    BY <1>6 DEF Disconnect, FewerCallbacks
  <2> QED
    BY <2>1, DestructLife
<1>7. ASSUME IgnoreCallback PROVE StreamLife'
  BY <1>7, DeliveredFewer, SameLife DEF IgnoreCallback
<1>8. ASSUME DidOpen PROVE StreamLife'
  <2>1. FewerCallbacks /\ callbacks # <<>>
    BY <1>8, DeliveredFewer DEF DidOpen
  <2>2. /\ state' = "Handshaking" /\ tasks' = Append(tasks, "request")
        /\ UNCHANGED <<streamID, stream>> /\ state = "Connecting"
    BY <1>8 DEF DidOpen, Ignored, Deliver
  <2>3. streamID
    BY <2>1, <2>2 DEF StreamLife
  <2> QED
    BY <2>1, <2>2, <2>3, <1>d, WorkingLife
<1>9. ASSUME DidReceiveShutdown PROVE StreamLife'
  <2>1. /\ FewerCallbacks /\ stream' = stream
        /\ DidCloseInternal(<<>>, <<>>, Contract!CloseUnclean)
    BY <1>9, DeliveredFewer DEF DidReceiveShutdown
  <2>2. DestructStream(<<>>) /\ state' = "Closed"
    BY <2>1 DEF DidCloseInternal
  <2> QED
    BY <2>1, <2>2, DestructLife
<1>10. ASSUME DidReceiveData PROVE StreamLife'
  BY <1>10, DeliveredFewer, SameLife DEF DidReceiveData
<1>11. ASSUME DidFail PROVE StreamLife'
  BY <1>11, <1>c, DeliveredFewer DEF DidFail
<1>12. ASSUME ReceiveDone PROVE StreamLife'
  BY <1>12, SameLife DEF ReceiveDone, FewerCallbacks
<1>13. ASSUME ReceiveHandshake PROVE StreamLife'
  BY <1>13, <1>a, <1>d, WorkingLife DEF ReceiveHandshake, FewerCallbacks
<1>14. ASSUME RejectHandshake PROVE StreamLife'
  BY <1>14, <1>c DEF RejectHandshake, FewerCallbacks
<1>15. ASSUME ReceiveMessage PROVE StreamLife'
  <2>1. FewerCallbacks /\ UNCHANGED <<state, streamID, tasks, stream, outbound, sendBuffers>>
    BY <1>15 DEF ReceiveMessage, FewerCallbacks
  <2> QED
    BY <2>1, SameLife
<1>16. ASSUME ReceivePing PROVE StreamLife'
  <2>1. /\ tasks' = tasks \o SendFrame("pong") /\ FewerCallbacks
        /\ UNCHANGED <<state, streamID, stream>>
    BY <1>16 DEF ReceivePing, FewerCallbacks
  <2>2. state \notin {"Connecting", "Closed"}
    BY <1>16 DEF ReceivePing, NextFrame, FieldsRemember
  <2> QED
    BY <2>1, <2>2, <1>a, <1>b, <1>d, WorkingLife
<1>17. ASSUME ReceiveClose PROVE StreamLife'
  <2>1. state \notin {"Connecting", "Closed"}
    BY <1>17 DEF ReceiveClose, NextFrame, FieldsRemember
  <2>2. /\ DestructStream(SendFrame("close")) /\ state' = "Closed" /\ FewerCallbacks
        /\ stream' = stream
    BY <1>17 DEF ReceiveClose, DidCloseInternal, FewerCallbacks
  <2> QED
    BY <2>1, <2>2, <1>a, DestructLife
<1>18. ASSUME ReceiveRejected PROVE StreamLife'
  BY <1>18, <1>c DEF ReceiveRejected, FewerCallbacks
<1>19. ASSUME PumpMainThread PROVE StreamLife'
  BY <1>19, PumpLife
<1>20. ASSUME AnswerConnect \/ SendHandshake \/ SendServerFrame \/ EndConnection \/ UNCHANGED vars
       PROVE  StreamLife'
  <2>1. FewerCallbacks /\ UNCHANGED <<state, streamID, tasks, stream, outbound, sendBuffers>>
    BY <1>20 DEF AnswerConnect, SendHandshake, SendServerFrame, EndConnection, EngineUnchanged,
                 FewerCallbacks
  <2> QED
    BY <2>1, SameLife
<1> QED
  BY <1>1, <1>2, <1>3, <1>4, <1>5, <1>6, <1>7, <1>8, <1>9, <1>10, <1>11, <1>12,
     <1>13, <1>14, <1>15, <1>16, <1>17, <1>18, <1>19, <1>20
  DEF Next, Callbacks, Receive

-----------------------------------------------------------------------------
(* Nothing before the server's answer *)

OldCallbacks ==
  \A i \in DOMAIN callbacks' : \E k \in DOMAIN callbacks : callbacks'[i] = callbacks[k]

LEMMA DeliveredOld ==
  ASSUME Typed, NEW type, Deliver(type)
  PROVE  OldCallbacks
BY DeliverFacts DEF OldCallbacks

\* The engine's steps that have to do with neither the handshake nor our Close.
LEMMA SameAnswer ==
  ASSUME AnswerFirst, OldCallbacks, answered = "none" => buffer' = <<>>,
         UNCHANGED <<answered, handshakeDone, sentClose, inbound, outbound>>
  PROVE  AnswerFirst'
BY DEF AnswerFirst, OldCallbacks

LEMMA PumpAnswer ==
  ASSUME Typed, StreamLife, AnswerFirst, PumpMainThread
  PROVE  AnswerFirst'
<1>1. UNCHANGED <<answered, handshakeDone, sentClose, buffer>>
  BY DEF PumpMainThread
<1>2. ASSUME answered = "none"
      PROVE  inbound' = <<>> /\ \A i \in DOMAIN callbacks' : callbacks'[i].units = <<>>
  <2>1. inbound = <<>> /\ \A i \in DOMAIN callbacks : callbacks[i].units = <<>>
    BY <1>2 DEF AnswerFirst
  <2> DEFINE event(t) == [type |-> t, units |-> <<>>]
  <2>2. /\ inbound' = <<>>
        /\ callbacks' = callbacks
           \/ \E t \in {"open", "data", "fail"} : callbacks' = Append(callbacks, event(t))
    <3>1. CASE TryToConnect
      BY <3>1, <2>1 DEF TryToConnect, NotifyFailure, Call
    <3>2. CASE TryToReceive
      <4>1. CASE peer = "reset"
        <5>1. inbound' = <<>> /\ callbacks' = Call("fail", <<>>)
          BY <3>2, <4>1, Zenon DEF TryToReceive, NotifyFailure
        <5> QED
          BY <5>1 DEF Call
      <4>2. CASE peer = "fin"
        <5>1. inbound' = inbound /\ callbacks' = Call("data", <<>>)
          BY <3>2, <4>2, <2>1, Zenon DEF TryToReceive
        <5> QED
          BY <5>1, <2>1 DEF Call
      <4>3. CASE peer \notin {"reset", "fin"}
        <5>1. inbound' = inbound /\ callbacks' = callbacks
          BY <3>2, <4>3, <2>1, Zenon DEF TryToReceive
        <5> QED
          BY <5>1, <2>1
      <4> QED
        BY <4>1, <4>2, <4>3
    <3>3. CASE NothingToTransfer
      BY <3>3, <2>1 DEF NothingToTransfer
    <3> QED
      BY <3>1, <3>2, <3>3 DEF PumpMainThread
  <2>3. CASE callbacks' = callbacks
    BY <2>1, <2>2, <2>3
  <2>4. ASSUME NEW t \in {"open", "data", "fail"}, callbacks' = Append(callbacks, event(t))
        PROVE  \A i \in DOMAIN callbacks' : callbacks'[i].units = <<>>
    <3>1. event(t) \in GoodCallback /\ event(t).units = <<>>
      BY EmptySeq DEF GoodCallback
    <3> HIDE DEF event
    <3>2. /\ Len(callbacks) \in Nat /\ DOMAIN callbacks = 1..Len(callbacks)
          /\ DOMAIN callbacks' = 1..(Len(callbacks) + 1)
          /\ \A i \in 1..Len(callbacks) : callbacks'[i] = callbacks[i]
          /\ callbacks'[Len(callbacks) + 1] = event(t)
      BY <2>4, <3>1, OneMore DEF Typed, QueuesTyped
    <3>3. ASSUME NEW i \in DOMAIN callbacks' PROVE callbacks'[i].units = <<>>
      <4>1. i = Len(callbacks) + 1 \/ i \in DOMAIN callbacks
        BY <3>2, <3>3
      <4> QED
        BY <2>1, <3>1, <3>2, <4>1
    <3> QED
      BY <3>3
  <2> QED
    BY <2>2, <2>3, <2>4
<1>3. outbound # <<>> => outbound' # <<>>
  <2>1. BuffersAfterTasks \in Seq(Written) /\ outbound \in Seq(Written)
    BY BuffersTyped DEF Typed, QueuesTyped
  <2>2. BuffersAfterTasks # <<>> => Head(BuffersAfterTasks) \in Written
    BY <2>1, TailFacts
  <2>3. outbound' = outbound \/ (BuffersAfterTasks # <<>>
                                 /\ outbound' = Append(outbound, Head(BuffersAfterTasks)))
    BY DEF PumpMainThread, TryToSend
  <2> QED
    BY <2>1, <2>2, <2>3, AppendProperties
<1> QED
  BY <1>1, <1>2, <1>3 DEF AnswerFirst

LEMMA StepAnswer ==
  ASSUME Typed, StreamLife, FieldsRemember, AnswerFirst
  PROVE  [Next]_vars => AnswerFirst'
<1>a. callbacks' = callbacks => OldCallbacks
  BY DEF OldCallbacks
<1>b. answered = "none" => buffer = <<>>
  BY DEF AnswerFirst
<1>c. ~Incomplete => answered # "none"
  BY <1>b, EmptySeq DEF Incomplete
<1>d. ASSUME DidFailInternal, OldCallbacks,
             UNCHANGED <<answered, handshakeDone, sentClose, inbound, outbound>>
      PROVE  AnswerFirst'
  BY <1>d, FailFacts, SameAnswer
<1>1. ASSUME Connect \/ CloseEarly \/ Disconnect \/ ReceiveDone
      PROVE  AnswerFirst'
  <2>1. UNCHANGED <<answered, handshakeDone, sentClose, inbound, outbound, callbacks, buffer>>
    BY <1>1 DEF Connect, CloseEarly, Disconnect, ReceiveDone
  <2> QED
    BY <2>1, <1>a, <1>b, SameAnswer
<1>2. ASSUME Send PROVE AnswerFirst'
  <2>1. UNCHANGED <<answered, handshakeDone, sentClose, inbound, outbound, callbacks>>
    BY <1>2 DEF Send
  <2>2. buffer' = buffer \/ DidFailInternal
    BY <1>2 DEF Send
  <2> QED
    BY <2>1, <2>2, <1>a, <1>b, <1>d, SameAnswer
<1>3. ASSUME CloseOpened PROVE AnswerFirst'
  BY <1>3 DEF CloseOpened, AnswerFirst, FieldsRemember
<1>4. ASSUME Fail \/ RejectHandshake \/ ReceiveRejected PROVE AnswerFirst'
  <2>1. DidFailInternal
        /\ UNCHANGED <<answered, handshakeDone, sentClose, inbound, outbound, callbacks>>
    BY <1>4 DEF Fail, RejectHandshake, ReceiveRejected
  <2> QED
    BY <2>1, <1>a, <1>d
<1>5. ASSUME IgnoreCallback \/ DidOpen \/ DidReceiveShutdown PROVE AnswerFirst'
  <2>1. OldCallbacks
    BY <1>5, DeliveredOld DEF IgnoreCallback, DidOpen, DidReceiveShutdown
  <2>2. UNCHANGED <<answered, handshakeDone, sentClose, inbound, outbound, buffer>>
    BY <1>5 DEF IgnoreCallback, DidOpen, DidReceiveShutdown
  <2> QED
    BY <2>1, <2>2, <1>b, SameAnswer
<1>6. ASSUME DidReceiveData PROVE AnswerFirst'
  <2>1. OldCallbacks
    BY <1>6, DeliveredOld DEF DidReceiveData
  <2>2. /\ UNCHANGED <<answered, handshakeDone, sentClose, inbound, outbound>>
        /\ Head(callbacks).units # <<>> /\ Deliver("data")
    BY <1>6 DEF DidReceiveData
  <2>3. 1 \in DOMAIN callbacks /\ Head(callbacks) = callbacks[1]
    BY <2>2, DeliverFacts
  <2>4. answered # "none"
    BY <2>2, <2>3 DEF AnswerFirst
  <2> QED
    BY <2>1, <2>2, <2>4, SameAnswer
<1>7. ASSUME DidFail PROVE AnswerFirst'
  <2>1. OldCallbacks
    BY <1>7, DeliveredOld DEF DidFail
  <2> QED
    BY <1>7, <2>1, <1>d DEF DidFail
<1>8. ASSUME ReceiveHandshake PROVE AnswerFirst'
  BY <1>8, <1>c DEF ReceiveHandshake, AnswerFirst
<1>9. ASSUME ReceiveMessage PROVE AnswerFirst'
  <2>1. /\ UNCHANGED <<answered, handshakeDone, sentClose, inbound, outbound, callbacks>>
        /\ ~Incomplete
    BY <1>9 DEF ReceiveMessage, NextFrame
  <2> QED
    BY <2>1, <1>a, <1>c, SameAnswer
<1>10. ASSUME ReceivePing PROVE AnswerFirst'
  BY <1>10, <1>a, <1>c, SameAnswer DEF ReceivePing, NextFrame
<1>11. ASSUME ReceiveClose PROVE AnswerFirst'
  BY <1>11, <1>c DEF ReceiveClose, NextFrame, AnswerFirst
<1>12. ASSUME PumpMainThread PROVE AnswerFirst'
  BY <1>12, PumpAnswer
<1>13. ASSUME AnswerConnect \/ EndConnection \/ UNCHANGED vars PROVE AnswerFirst'
  <2>1. UNCHANGED <<answered, handshakeDone, sentClose, inbound, outbound, callbacks, buffer>>
    BY <1>13 DEF AnswerConnect, EndConnection, EngineUnchanged
  <2> QED
    BY <2>1, <1>a, <1>b, SameAnswer
<1>14. ASSUME SendHandshake PROVE AnswerFirst'
  <2>1. answered' # "none" /\ outbound # <<>> /\ UNCHANGED <<outbound, handshakeDone, sentClose>>
    BY <1>14 DEF SendHandshake, EngineUnchanged
  <2> QED
    BY <2>1 DEF AnswerFirst
<1>15. ASSUME SendServerFrame PROVE AnswerFirst'
  <2>1. answered = "accepted" /\ UNCHANGED <<answered, outbound, handshakeDone, sentClose>>
    BY <1>15 DEF SendServerFrame, EngineUnchanged
  <2> QED
    BY <2>1 DEF AnswerFirst
<1> QED
  BY <1>1, <1>2, <1>3, <1>4, <1>5, <1>6, <1>7, <1>8, <1>9, <1>10, <1>11, <1>12,
     <1>13, <1>14, <1>15
  DEF Next, Callbacks, Receive

-----------------------------------------------------------------------------
(* What is written *)

\* The form of what is written when our Close may have been (closed) or cannot.
WellFormed(w, closed) ==
  \A i \in DOMAIN w : /\ w[i] = "request" <=> i = 1
                      /\ w[i] = "close" => i = Len(w) /\ closed

LEMMA WritesForm ==
  ASSUME sentClose \in BOOLEAN
  PROVE  CloseIsLast /\ WritesWellFormed <=> WellFormed(Writes, sentClose)
BY DEF CloseIsLast, WritesWellFormed, WellFormed

LEMMA PrefixForm ==
  ASSUME NEW s \in Seq(Written), NEW t \in Seq(Written), NEW c \in BOOLEAN,
         WellFormed(s \o t, c)
  PROVE  WellFormed(s, c)
<1> DEFINE st == s \o t
<1>1. /\ Len(s) \in Nat /\ Len(t) \in Nat /\ DOMAIN s = 1..Len(s)
      /\ DOMAIN st = 1..(Len(s) + Len(t)) /\ Len(st) = Len(s) + Len(t)
      /\ \A i \in 1..Len(s) : st[i] = s[i]
  BY ConcatElements, LenProperties
<1> HIDE DEF st
<1>2. WellFormed(st, c)
  BY DEF st
<1>3. ASSUME NEW i \in DOMAIN s
      PROVE  /\ s[i] = "request" <=> i = 1
             /\ s[i] = "close" => i = Len(s) /\ c
  <2>1. i \in DOMAIN st /\ st[i] = s[i] /\ i <= Len(s)
    BY <1>1, <1>3
  <2> QED
    BY <2>1, <1>1, <1>2, <1>3 DEF WellFormed
<1> QED
  BY <1>3 DEF WellFormed

LEMMA LongerForm ==
  ASSUME NEW w \in Seq(Written), w # <<>>, NEW x \in Written \ {"request"},
         NEW c \in BOOLEAN, x = "close" => c, WellFormed(w, FALSE)
  PROVE  WellFormed(Append(w, x), c)
<1>1. /\ Len(w) \in Nat /\ DOMAIN w = 1..Len(w) /\ Len(Append(w, x)) = Len(w) + 1
      /\ DOMAIN Append(w, x) = 1..(Len(w) + 1)
      /\ \A i \in 1..Len(w) : Append(w, x)[i] = w[i]
      /\ Append(w, x)[Len(w) + 1] = x
  BY OneMore
<1>2. Len(w) # 0
  BY EmptySeq
<1> DEFINE wx == Append(w, x)
<1> HIDE DEF wx
<1>3. ASSUME NEW i \in DOMAIN wx
      PROVE  /\ wx[i] = "request" <=> i = 1
             /\ wx[i] = "close" => i = Len(wx) /\ c
  <2>1. CASE i = Len(w) + 1
    BY <1>1, <1>2, <2>1 DEF wx
  <2>2. CASE i \in 1..Len(w)
    BY <1>1, <2>2 DEF WellFormed, wx
  <2> QED
    BY <1>1, <1>3, <2>1, <2>2 DEF wx
<1> QED
  BY <1>3 DEF WellFormed, wx

LEMMA WritesTyped ==
  ASSUME Typed, StreamLife
  PROVE  /\ Writes \in Seq(Written) /\ outbound \in Seq(Written)
         /\ BuffersAfterTasks \in Seq(Written)
         /\ outbound # <<>> => Writes # <<>>
<1>1. outbound \in Seq(Written) /\ BuffersAfterTasks \in Seq(Written)
  BY BuffersTyped DEF Typed, QueuesTyped
<1> QED
  BY <1>1, ConcatProperties, ConcatEqualIffEmpty DEF Writes

\* A further task is a further write, if there is a stream for it.
LEMMA TaskWrites ==
  ASSUME Typed, StreamLife, streamID, NEW x \in Written, tasks' = Append(tasks, x),
         UNCHANGED <<stream, sendBuffers, outbound>>
  PROVE  Writes' \in {Writes, Append(Writes, x)}
<1>1. /\ tasks \in Seq(Task) /\ x \in Task /\ x \notin {"create", "destroy"}
      /\ sendBuffers \in Seq(Written) /\ ~Queued("destroy")
  BY Goodness DEF Typed, QueuesTyped, Written, StreamLife, Queued
<1>2. /\ Len(tasks) \in Nat /\ DOMAIN tasks = 1..Len(tasks)
      /\ DOMAIN tasks' = 1..(Len(tasks) + 1)
      /\ \A i \in 1..Len(tasks) : tasks'[i] = tasks[i]
      /\ tasks'[Len(tasks) + 1] = x
  BY <1>1, OneMore
<1>3. \A t : t # x => (Queued(t)' <=> Queued(t))
  <2>1. ASSUME NEW t, t # x, NEW i \in DOMAIN tasks', tasks'[i] = t PROVE Queued(t)
    <3>1. i \in DOMAIN tasks /\ tasks[i] = t
      BY <1>2, <2>1
    <3> QED
      BY <3>1 DEF Queued
  <2>2. ASSUME NEW t, NEW i \in DOMAIN tasks, tasks[i] = t PROVE Queued(t)'
    <3>1. i \in DOMAIN tasks' /\ tasks'[i] = t
      BY <1>2, <2>2
    <3> QED
      BY <3>1 DEF Queued
  <2> QED
    BY <2>1, <2>2 DEF Queued
<1>4. \A t : t \in ToSet(tasks) <=> Queued(t)
  BY DEF ToSet, Queued
<1>5. \A t : t \in ToSet(tasks)' <=> Queued(t)'
  BY DEF ToSet, Queued
<1>6. StreamAfterTasks' = StreamAfterTasks
  <2>1. /\ "destroy" \notin ToSet(tasks) /\ "destroy" \notin ToSet(tasks)'
        /\ ("create" \in ToSet(tasks)' <=> "create" \in ToSet(tasks))
    BY <1>1, <1>3, <1>4, <1>5
  <2> QED
    BY <2>1 DEF StreamAfterTasks
<1>7. CASE StreamAfterTasks \in {"none", "dead"}
  BY <1>6, <1>7 DEF Writes, BuffersAfterTasks
<1>8. CASE StreamAfterTasks \notin {"none", "dead"}
  <2>1. /\ TasksOfStream \in Seq(Written) /\ BuffersAfterTasks = sendBuffers \o TasksOfStream
        /\ BuffersAfterTasks' = sendBuffers \o TasksOfStream'
    BY <1>1, <1>6, <1>8, TasksTyped DEF BuffersAfterTasks
  <2>2. TasksOfStream' = Append(TasksOfStream, x)
    <3>1. /\ Head(tasks') = IF tasks = <<>> THEN x ELSE Head(tasks)
          /\ Tail(tasks') = IF tasks = <<>> THEN <<>> ELSE Append(Tail(tasks), x)
          /\ tasks' # <<>>
      BY <1>1, HeadTailAppend, AppendProperties
    <3> QED
      BY <1>1, <3>1 DEF TasksOfStream
  <2>3. BuffersAfterTasks' = Append(BuffersAfterTasks, x)
    <3>1. /\ Append(TasksOfStream, x) = TasksOfStream \o <<x>>
          /\ Append(BuffersAfterTasks, x) = BuffersAfterTasks \o <<x>>
          /\ <<x>> \in Seq(Written)
      BY <2>1, <1>1, AppendIsConcat, ConcatProperties, SingletonSeq
    <3>2. sendBuffers \o (TasksOfStream \o <<x>>) = (sendBuffers \o TasksOfStream) \o <<x>>
      BY <1>1, <2>1, <3>1, ConcatAssociative
    <3> QED
      BY <2>1, <2>2, <3>1, <3>2
  <2>4. Writes' = Append(Writes, x)
    <3>1. Writes \in Seq(Written) /\ outbound \in Seq(Written) /\ BuffersAfterTasks \in Seq(Written)
      BY WritesTyped
    <3>2. /\ Append(BuffersAfterTasks, x) = BuffersAfterTasks \o <<x>>
          /\ Append(Writes, x) = Writes \o <<x>> /\ <<x>> \in Seq(Written)
      BY <3>1, AppendIsConcat, SingletonSeq
    <3>3. outbound \o (BuffersAfterTasks \o <<x>>) = (outbound \o BuffersAfterTasks) \o <<x>>
      BY <3>1, <3>2, ConcatAssociative
    <3> QED
      BY <2>3, <3>2, <3>3 DEF Writes
  <2> QED
    BY <2>4
<1> QED
  BY <1>7, <1>8

\* A channel that lets go of its stream writes nothing more.
LEMMA DestructWrites ==
  ASSUME Typed, StreamLife, NEW queued, DestructStream(queued),
         queued = <<>> \/ (streamID /\ queued = SendFrame("close")),
         UNCHANGED <<stream, sendBuffers, outbound>>
  PROVE  Writes' = Writes \/ (streamID /\ Writes' = outbound)
<1>1. tasks \in Seq(Task) /\ "close" \in Written /\ <<>> \in Seq(Task) /\ "destroy" \in Task
  BY EmptySeq DEF Typed, QueuesTyped, Written, Task
<1>2. queued \in Seq(Task) /\ tasks \o queued \in Seq(Task) /\ (~streamID => tasks \o queued = tasks)
  BY <1>1, FrameSent, ConcatEmptySeq DEF Typed, FlagsTyped
<1>3. /\ ~streamID => tasks' = tasks
      /\ streamID => tasks' = Append(tasks \o queued, "destroy")
  BY <1>2, DestructTasks
<1>4. CASE ~streamID
  BY <1>3, <1>4 DEF Writes, BuffersAfterTasks, TasksOfStream, StreamAfterTasks
<1>5. CASE streamID
  <2> DEFINE base == tasks \o queued
  <2>1. tasks' = Append(base, "destroy") /\ base \in Seq(Task)
    BY <1>2, <1>3, <1>5
  <2> HIDE DEF base
  <2>2. /\ Len(base) \in Nat /\ DOMAIN tasks' = 1..(Len(base) + 1)
        /\ tasks'[Len(base) + 1] = "destroy"
    BY <1>1, <2>1, OneMore
  <2>3. "destroy" \in ToSet(tasks)'
    BY <2>2 DEF ToSet
  <2>4. StreamAfterTasks' = "none"
    BY <2>3 DEF StreamAfterTasks
  <2>5. BuffersAfterTasks' = <<>>
    BY <2>4 DEF BuffersAfterTasks
  <2>6. Writes' = outbound
    BY <2>5, WritesTyped, ConcatEmptySeq DEF Writes
  <2> QED
    BY <1>5, <2>6
<1> QED
  BY <1>4, <1>5 DEF Typed, FlagsTyped

\* The pump moves what is to be written along, or drops it with its stream.
LEMMA PumpWrites ==
  ASSUME Typed, StreamLife, PumpMainThread
  PROVE  Writes' \in {Writes, outbound}
<1>1. /\ outbound \in Seq(Written) /\ BuffersAfterTasks \in Seq(Written)
      /\ outbound' \in Seq(Written) /\ sendBuffers' \in Seq(Written) /\ tasks' = <<>>
      /\ stream' \in {"none", "connecting", "up", "dead"}
  BY WritesTyped, PumpTyped
<1>2. StreamAfterTasks' = stream' /\ TasksOfStream' = <<>>
  BY <1>1 DEF StreamAfterTasks, TasksOfStream, ToSet
<1>3. BuffersAfterTasks' = IF stream' \in {"none", "dead"} THEN <<>> ELSE sendBuffers'
  BY <1>1, <1>2, ConcatEmptySeq DEF BuffersAfterTasks
<1>4. CASE StreamAfterTasks = "up" /\ stream' = "up" /\ BuffersAfterTasks # <<>>
  <2> DEFINE b == BuffersAfterTasks
  <2> DEFINE h == Head(b)
  <2>1. outbound' = Append(outbound, h) /\ BuffersAfterTasks' = Tail(b)
    BY <1>3, <1>4 DEF PumpMainThread, TryToSend
  <2>2. b \in Seq(Written) /\ b # <<>>
    BY <1>1, <1>4
  <2> HIDE DEF b
  <2>3. h \in Written /\ Tail(b) \in Seq(Written) /\ b = <<h>> \o Tail(b) /\ <<h>> \in Seq(Written)
    BY <2>2, HeadAndTail
  <2>4. outbound' = outbound \o <<h>>
    BY <1>1, <2>1, <2>3, AppendIsConcat
  <2> HIDE DEF h
  <2>5. (outbound \o <<h>>) \o Tail(b) = outbound \o (<<h>> \o Tail(b))
    <3>1. outbound \in Seq(Written) /\ <<h>> \in Seq(Written) /\ Tail(b) \in Seq(Written)
      BY <1>1, <2>3
    <3> HIDE DEF b
    <3> QED
      BY <3>1, ConcatAssociative
  <2>6. Writes' = outbound \o b
    BY <2>1, <2>3, <2>4, <2>5 DEF Writes
  <2> QED
    BY <2>6 DEF Writes, b
<1>5. CASE ~(StreamAfterTasks = "up" /\ stream' = "up" /\ BuffersAfterTasks # <<>>)
  <2>1. outbound' = outbound /\ sendBuffers' = IF stream' = "dead" THEN <<>> ELSE BuffersAfterTasks
    BY <1>5 DEF PumpMainThread, TryToSend
  <2> QED
    BY <1>1, <1>3, <2>1, ConcatEmptySeq DEF Writes
<1> QED
  BY <1>4, <1>5

LEMMA StepWrites ==
  ASSUME Typed, StreamLife, FieldsRemember, AnswerFirst, WellFormed(Writes, sentClose)
  PROVE  [Next]_vars => WellFormed(Writes, sentClose)'
<1>a. /\ sentClose \in BOOLEAN /\ outbound \in Seq(Written) /\ BuffersAfterTasks \in Seq(Written)
      /\ Writes \in Seq(Written)
  BY WritesTyped DEF Typed, FlagsTyped
<1>b. WellFormed(outbound, sentClose)
  BY <1>a, PrefixForm DEF Writes
<1>c. /\ WellFormed(Writes, sentClose) => WellFormed(Writes, TRUE)
      /\ WellFormed(outbound, sentClose) => WellFormed(outbound, TRUE)
  BY DEF WellFormed
<1>d. ASSUME Writes' \in {Writes, outbound}, sentClose' \in {sentClose, TRUE}
      PROVE  WellFormed(Writes, sentClose)'
  <2>1. WellFormed(Writes', sentClose')
    BY <1>b, <1>c, <1>d
  <2> QED
    BY <2>1 DEF WellFormed
<1>e. ASSUME UNCHANGED <<tasks, stream, sendBuffers, outbound, sentClose>>
      PROVE  WellFormed(Writes, sentClose)'
  <2>1. Writes' = Writes
    BY <1>e DEF Writes, BuffersAfterTasks, TasksOfStream, StreamAfterTasks
  <2> QED
    BY <2>1, <1>d, <1>e
<1>f. ASSUME NEW x \in Written \ {"request"}, tasks' = tasks \o SendFrame(x),
             handshakeDone, streamID, sentClose' \in BOOLEAN,
             sentClose => sentClose', x = "close" => sentClose',
             UNCHANGED <<stream, sendBuffers, outbound>>
      PROVE  WellFormed(Writes, sentClose)'
  <2>1. CASE sentClose
    <3>1. tasks' = tasks
      BY <1>f, <2>1, FrameSent
    <3>2. Writes' = Writes
      BY <1>f, <3>1 DEF Writes, BuffersAfterTasks, TasksOfStream, StreamAfterTasks
    <3> QED
      BY <1>d, <1>f, <2>1, <3>2
  <2>2. CASE ~sentClose
    <3>1. Writes' \in {Writes, Append(Writes, x)}
      BY <1>f, <2>2, FrameSent, TaskWrites
    <3>2. outbound # <<>>
      BY <1>f DEF AnswerFirst
    <3>3. Writes # <<>>
      BY <3>2, WritesTyped
    <3>4. CASE Writes' = Writes
      BY <1>f, <1>d, <1>a, <2>2, <3>4
    <3>5. CASE Writes' = Append(Writes, x)
      <4>1. WellFormed(Writes, FALSE)
        BY <2>2 DEF WellFormed
      <4>2. WellFormed(Append(Writes, x), sentClose')
        BY <1>a, <1>f, <3>3, <4>1, LongerForm
      <4> QED
        BY <3>5, <4>2 DEF WellFormed
    <3> QED
      BY <3>1, <3>4, <3>5
  <2> QED
    BY <1>a, <2>1, <2>2
<1>g. ASSUME DestructStream(<<>>), UNCHANGED <<stream, sendBuffers, outbound, sentClose>>
      PROVE  WellFormed(Writes, sentClose)'
  <2>1. Writes' \in {Writes, outbound}
    BY <1>g, DestructWrites
  <2> QED
    BY <1>d, <1>g, <2>1
<1>h. /\ "message" \in Written \ {"request"} /\ "pong" \in Written \ {"request"}
      /\ "close" \in Written \ {"request"} /\ "request" \in Written
  BY DEF Written
<1>i. state \in {"Opened", "Closing"} => streamID /\ handshakeDone
  BY DEF StreamLife, FieldsRemember
<1>1. ASSUME Connect PROVE WellFormed(Writes, sentClose)'
  <2>1. /\ tasks = <<>> /\ outbound = <<>> /\ sendBuffers = <<>> /\ tasks' = <<"create">>
        /\ outbound' = <<>> /\ sendBuffers' = <<>>
    <3>1. "create" \in Task
      BY DEF Task
    <3>2. tasks = <<>> /\ outbound = <<>> /\ sendBuffers = <<>>
      BY <1>1 DEF Connect, StreamLife
    <3> QED
      BY <1>1, <3>1, <3>2, SingletonSeq DEF Connect
  <2>2. <<>> \o <<>> = <<>> /\ Tail(<<"create">>) = <<>>
    BY EmptySeq, ConcatEmptySeq, SingletonSeq
  <2>3. TasksOfStream' = <<>>
    <3>1. "create" \in Task
      BY DEF Task
    <3>2. Head(<<"create">>) = "create" /\ <<"create">> # <<>> /\ Tail(<<"create">>) = <<>>
      BY <3>1, SingletonSeq
    <3> QED
      BY <2>1, <3>2 DEF TasksOfStream
  <2>4. Writes' = <<>>
    BY <2>1, <2>2, <2>3 DEF Writes, BuffersAfterTasks
  <2>5. sentClose' = sentClose /\ Writes' = outbound
    BY <1>1, <2>1, <2>4 DEF Connect
  <2> QED
    BY <2>5, <1>d
<1>2. ASSUME Send PROVE WellFormed(Writes, sentClose)'
  <2>1. UNCHANGED <<stream, sendBuffers, outbound, sentClose>> /\ state = "Opened"
    BY <1>2 DEF Send
  <2>2. CASE tasks' = tasks \o SendFrame("message")
    BY <2>1, <2>2, <1>a, <1>f, <1>h, <1>i
  <2>3. CASE DidFailInternal
    BY <2>1, <2>3, FailFacts, <1>g
  <2> QED
    BY <1>2, <2>2, <2>3 DEF Send
<1>3. ASSUME CloseEarly \/ Disconnect \/ DidReceiveShutdown PROVE WellFormed(Writes, sentClose)'
  <2>1. DestructStream(<<>>) /\ UNCHANGED <<stream, sendBuffers, outbound, sentClose>>
    BY <1>3 DEF CloseEarly, Disconnect, DidReceiveShutdown, DidCloseInternal
  <2> QED
    BY <2>1, <1>g
<1>4. ASSUME CloseOpened PROVE WellFormed(Writes, sentClose)'
  <2>1. /\ UNCHANGED <<stream, sendBuffers, outbound>> /\ state = "Opened" /\ sentClose' = TRUE
        /\ tasks' = tasks \o SendFrame("close")
    BY <1>4 DEF CloseOpened
  <2> QED
    BY <2>1, <1>f, <1>h, <1>i
<1>5. ASSUME Fail \/ DidFail \/ RejectHandshake \/ ReceiveRejected
      PROVE  WellFormed(Writes, sentClose)'
  <2>1. DidFailInternal /\ UNCHANGED <<stream, sendBuffers, outbound, sentClose>>
    BY <1>5 DEF Fail, DidFail, RejectHandshake, ReceiveRejected
  <2> QED
    BY <2>1, FailFacts, <1>g
<1>6. ASSUME IgnoreCallback \/ DidReceiveData \/ ReceiveDone \/ ReceiveHandshake
             \/ AnswerConnect \/ SendHandshake \/ SendServerFrame \/ EndConnection
             \/ UNCHANGED vars
      PROVE  WellFormed(Writes, sentClose)'
  <2>1. UNCHANGED <<tasks, stream, sendBuffers, outbound, sentClose>>
    BY <1>6 DEF IgnoreCallback, DidReceiveData, ReceiveDone, ReceiveHandshake,
                AnswerConnect, SendHandshake, SendServerFrame, EndConnection, EngineUnchanged
  <2> QED
    BY <2>1, <1>e
<1>7. ASSUME ReceiveMessage PROVE WellFormed(Writes, sentClose)'
  <2>1. UNCHANGED <<tasks, stream, sendBuffers, outbound, sentClose>>
    BY <1>7 DEF ReceiveMessage
  <2> QED
    BY <2>1, <1>e
<1>8. ASSUME DidOpen PROVE WellFormed(Writes, sentClose)'
  <2>1. /\ state = "Connecting" /\ tasks' = Append(tasks, "request") /\ callbacks # <<>>
        /\ UNCHANGED <<stream, sendBuffers, outbound, sentClose>>
    BY <1>8 DEF DidOpen, Ignored, Deliver
  <2>2. streamID /\ tasks = <<>> /\ outbound = <<>> /\ sendBuffers = <<>>
    <3>1. tasks \in {<<>>, <<"create">>}
      BY <2>1 DEF StreamLife
    <3>2. "create" \in Task
      BY DEF Task
    <3>3. tasks = <<"create">> => 1 \in DOMAIN tasks /\ tasks[1] = "create"
      BY <3>2, SingletonSeq, LenProperties
    <3> QED
      BY <2>1, <3>1, <3>3 DEF StreamLife
  <2>3. Writes = <<>>
    <3>1. <<>> \o <<>> = <<>>
      BY EmptySeq, ConcatEmptySeq
    <3> QED
      BY <2>2, <3>1 DEF Writes, BuffersAfterTasks, TasksOfStream
  <2>4. Writes' \in {Writes, <<"request">>}
    <3>1. Append(<<>>, "request") = <<"request">>
      BY <1>h, SingletonSeq
    <3> QED
      BY <2>1, <2>2, <2>3, <3>1, <1>h, TaskWrites
  <2>5. WellFormed(<<"request">>, sentClose)
    BY <1>h, SingletonSeq, LenProperties DEF WellFormed
  <2> QED
    BY <2>1, <2>4, <2>5 DEF WellFormed
<1>9. ASSUME ReceivePing PROVE WellFormed(Writes, sentClose)'
  <2>1. /\ UNCHANGED <<stream, sendBuffers, outbound, sentClose>>
        /\ tasks' = tasks \o SendFrame("pong")
    BY <1>9 DEF ReceivePing
  <2>2. state \in {"Opened", "Closing"}
    BY <1>9 DEF ReceivePing, NextFrame, FieldsRemember, Typed, StatesTyped
  <2> QED
    BY <2>1, <2>2, <1>a, <1>f, <1>h, <1>i
<1>10. ASSUME ReceiveClose PROVE WellFormed(Writes, sentClose)'
  <2>1. /\ UNCHANGED <<stream, sendBuffers, outbound>> /\ sentClose' = TRUE
        /\ DestructStream(SendFrame("close"))
    BY <1>10 DEF ReceiveClose, DidCloseInternal
  <2>2. state \in {"Opened", "Closing"}
    BY <1>10 DEF ReceiveClose, NextFrame, FieldsRemember, Typed, StatesTyped
  <2>3. Writes' \in {Writes, outbound}
    BY <2>1, <2>2, <1>i, DestructWrites
  <2> QED
    BY <2>1, <2>3, <1>d
<1>11. ASSUME PumpMainThread PROVE WellFormed(Writes, sentClose)'
  <2>1. sentClose' = sentClose
    BY <1>11 DEF PumpMainThread
  <2> QED
    BY <1>11, <2>1, <1>d, PumpWrites
<1> QED
  BY <1>1, <1>2, <1>3, <1>4, <1>5, <1>6, <1>7, <1>8, <1>9, <1>10, <1>11
  DEF Next, Callbacks, Receive

-----------------------------------------------------------------------------
(* The invariant and the theorems *)

LEMMA InitIInv ==
  ASSUME Init
  PROVE  IInv
<1> USE DEF Init
<1>1. Typed
  <2>1. /\ <<>> \in Seq(GoodUnit) /\ <<>> \in Seq(1..MaxFrames) /\ <<>> \in Seq(Task)
        /\ <<>> \in Seq(Written) /\ <<>> \in Seq(GoodCallback) /\ <<>> \in Seq(FrameKind)
        /\ <<>> \in Seq(ClientEvent)
    BY EmptySeq
  <2> QED
    <3>1. StatesTyped
      BY DEF StatesTyped
    <3>2. FlagsTyped
      BY DEF FlagsTyped
    <3>3. sends \in 0..MaxSends
      BY BoundAssumption
    <3>4. QueuesTyped
      BY <2>1, <3>3 DEF QueuesTyped
    <3> QED
      BY <3>1, <3>2, <3>4 DEF Typed
<1>2. StreamLife
  BY DEF StreamLife, Queued
<1>3. FieldsRemember
  BY DEF FieldsRemember, Told
<1>4. AnswerFirst
  BY DEF AnswerFirst
<1>5. WellFormed(Writes, sentClose)
  <2>1. <<>> \o <<>> = <<>>
    BY EmptySeq, ConcatEmptySeq
  <2>2. Writes = <<>>
    BY <2>1 DEF Writes, BuffersAfterTasks, TasksOfStream
  <2> QED
    BY <2>2 DEF WellFormed
<1> QED
  BY <1>1, <1>2, <1>3, <1>4, <1>5, WritesForm DEF IInv

LEMMA StepIInv ==
  ASSUME IInv
  PROVE  [Next]_vars => IInv'
<1>1. WellFormed(Writes, sentClose)
  BY WritesForm DEF IInv, Typed, FlagsTyped
<1>2. [Next]_vars => WellFormed(Writes, sentClose)'
  BY <1>1, StepWrites DEF IInv
<1>3. Typed' => (WellFormed(Writes, sentClose)' => (CloseIsLast /\ WritesWellFormed)')
  BY DEF Typed, FlagsTyped, WellFormed, CloseIsLast, WritesWellFormed
<1> QED
  BY <1>2, <1>3, StepTyped, StepLife, StepRemember, StepAnswer DEF IInv

LEMMA Invariance == Spec => []IInv
<1>1. Init => IInv
  BY InitIInv
<1>2. IInv /\ [Next]_vars => IInv'
  BY StepIInv
<1> QED
  BY <1>1, <1>2, PTL DEF Spec

\* Every variable keeps its type, for every bound: in particular a message is only ever
\* put together from numbered data frames.
THEOREM TypeCorrect == Spec => []TypeOK
<1>1. IInv => TypeOK
  BY TypedIsTypeOK DEF IInv
<1> QED
  BY <1>1, Invariance, PTL

\* What the channel writes begins with the opening request and ends with its Close frame,
\* through the task queue and the stream's buffers; and it destroys each stream it lets
\* go of, with the last task it ever queues (destructStream, executeTasks, sendFrame).
THEOREM SocketUsed == Spec => []SocketUse
<1>1. ASSUME StreamLife PROVE NoStreamLeak
  <2>1. \A t : t \in ToSet(tasks) <=> Queued(t)
    BY DEF ToSet, Queued
  <2> QED
    BY <1>1, <2>1 DEF StreamLife, NoStreamLeak
<1>2. IInv => SocketUse
  BY <1>1 DEF IInv, SocketUse
<1> QED
  BY <1>2, Invariance, PTL

\* The channel implements the contract of a WebSocketChannelClient: connected at most
\* once and before any message, closed once and last, but for an error that comes late
\* (didFailInternal, didCloseInternal and every callback that reaches them).
THEOREM KeepsContract == Spec => ClientContract
<1>1. Init => Contract!Init
  BY DEF Init, Contract!Init
<1>2. IInv /\ [Next]_vars => [Contract!Next]_log
  BY StepContract DEF IInv
<1> QED
  BY <1>1, <1>2, Invariance, PTL DEF Spec, ClientContract, Contract!Spec

-----------------------------------------------------------------------------
(* The messages: what the server says, on its way to the client *)

\* What the server has said, its opening response and then frame after frame.
Wire ==
  [k \in 1..(IF answered = "none" THEN 0 ELSE Len(sent) + 1) |->
     IF k = 1 THEN [kind |-> answered, id |-> 0] ELSE [kind |-> sent[k - 1], id |-> k - 1]]

\* The units stand as they were sent, from the given position on: the k-th thing said
\* is told by the unit at 2k.
Stand(units, from, wire) ==
  /\ from + Len(units) <= 2 * Len(wire)
  /\ \A i \in 1..Len(units), k \in 1..Len(wire) : from + i = 2 * k => units[i] = wire[k]

\* The client has parsed h things; what follows is in the receive buffer, in the
\* callbacks from the positions pos on and, while the stream lives, in the network.
Placed(pos, h, buf, cbs, inb, str, wire) ==
  /\ pos \in [1..(Len(cbs) + 1) -> Nat]
  /\ pos[1] = 2 * h + Len(buf) /\ Stand(buf, 2 * h, wire)
  /\ \A i \in 1..Len(cbs) : /\ Stand(cbs[i].units, pos[i], wire)
                            /\ pos[i + 1] = pos[i] + Len(cbs[i].units)
  /\ pos[Len(cbs) + 1] <= 2 * Len(wire)
  /\ str # "dead" => /\ Stand(inb, pos[Len(cbs) + 1], wire)
                     /\ pos[Len(cbs) + 1] + Len(inb) = 2 * Len(wire)

OnTheWay(h, buf, cbs, inb, str, wire) ==
  \E pos : Placed(pos, h, buf, cbs, inb, str, wire)

Units == Seq(GoodUnit)

\* A callback is delivered: its units are buffered.
LEMMA Taken ==
  ASSUME NEW h \in Nat, NEW buf \in Units, NEW cbs \in Seq(GoodCallback), cbs # <<>>,
         NEW inb \in Units, NEW str, NEW wire \in Units,
         OnTheWay(h, buf, cbs, inb, str, wire)
  PROVE  OnTheWay(h, buf \o Head(cbs).units, Tail(cbs), inb, str, wire)
<1> DEFINE u == Head(cbs).units
           t == Tail(cbs)
           b == buf \o u
<1>1. PICK pos : Placed(pos, h, buf, cbs, inb, str, wire)
  BY DEF OnTheWay
<1>2. /\ Len(cbs) \in Nat \ {0} /\ t \in Seq(GoodCallback) /\ Len(t) = Len(cbs) - 1
      /\ \A i \in 1..(Len(cbs) - 1) : t[i] = cbs[i + 1]
      /\ Head(cbs) = cbs[1] /\ Head(cbs) \in GoodCallback
  BY OneLess
<1>3. u = cbs[1].units /\ u \in Units
  BY <1>2 DEF GoodCallback, Units
<1>4. /\ Len(buf) \in Nat /\ Len(u) \in Nat /\ Len(b) = Len(buf) + Len(u) /\ Len(wire) \in Nat
      /\ \A i \in 1..Len(buf) : b[i] = buf[i]
      /\ \A i \in 1..Len(u) : b[Len(buf) + i] = u[i]
  BY <1>3, ConcatElements, LenProperties DEF Units
<1> HIDE DEF u, t, b
<1>5. /\ pos \in [1..(Len(cbs) + 1) -> Nat] /\ pos[1] = 2 * h + Len(buf)
      /\ Stand(buf, 2 * h, wire) /\ Stand(u, pos[1], wire) /\ pos[2] = pos[1] + Len(u)
  <2>1. 1 \in 1..Len(cbs) /\ 1 + 1 = 2
    BY <1>2
  <2> QED
    BY <1>1, <1>3, <2>1 DEF Placed
<1>6. Stand(b, 2 * h, wire)
  <2>1. ASSUME NEW i \in 1..Len(b), NEW k \in 1..Len(wire), 2 * h + i = 2 * k
        PROVE  b[i] = wire[k]
    <3>1. CASE i \in 1..Len(buf)
      BY <1>4, <1>5, <2>1, <3>1 DEF Stand
    <3>2. CASE i \notin 1..Len(buf)
      <4>1. PICK j \in 1..Len(u) : i = Len(buf) + j
        <5>1. i - Len(buf) \in 1..Len(u) /\ i = Len(buf) + (i - Len(buf))
          BY <1>4, <3>2
        <5> QED
          BY <5>1
      <4>2. pos[1] + j = 2 * k
        BY <1>4, <1>5, <2>1, <4>1
      <4> QED
        BY <1>4, <1>5, <4>1, <4>2 DEF Stand
    <3> QED
      BY <3>1, <3>2
  <2>2. 2 * h + Len(b) <= 2 * Len(wire)
    BY <1>4, <1>5 DEF Stand
  <2> QED
    BY <2>1, <2>2 DEF Stand
<1> DEFINE q == [i \in 1..(Len(t) + 1) |-> pos[i + 1]]
<1>7. /\ q \in [1..(Len(t) + 1) -> Nat] /\ q[1] = 2 * h + Len(b)
      /\ \A i \in 1..Len(t) : q[i] = pos[i + 1] /\ q[i + 1] = pos[(i + 1) + 1]
      /\ q[Len(t) + 1] = pos[Len(cbs) + 1]
  <2>1. \A i \in 1..(Len(t) + 1) : i + 1 \in 1..(Len(cbs) + 1) /\ q[i] = pos[i + 1]
    BY <1>2
  <2>2. Len(t) + 1 \in 1..(Len(t) + 1) /\ 1 \in 1..(Len(t) + 1) /\ (Len(t) + 1) + 1 = Len(cbs) + 1
    BY <1>2
  <2>3. q \in [1..(Len(t) + 1) -> Nat]
    BY <1>5, <2>1
  <2>4. q[1] = 2 * h + Len(b)
    BY <1>4, <1>5, <2>1, <2>2
  <2>5. \A i \in 1..Len(t) : i \in 1..(Len(t) + 1) /\ i + 1 \in 1..(Len(t) + 1)
    BY <1>2
  <2> HIDE DEF q
  <2> QED
    BY <2>1, <2>2, <2>3, <2>4, <2>5
<1> HIDE DEF q
<1>8. ASSUME NEW i \in 1..Len(t)
      PROVE  Stand(t[i].units, q[i], wire) /\ q[i + 1] = q[i] + Len(t[i].units)
  <2>1. i + 1 \in 1..Len(cbs) /\ t[i] = cbs[i + 1]
    BY <1>2
  <2> QED
    BY <1>1, <1>7, <2>1 DEF Placed
<1>9. Placed(q, h, b, t, inb, str, wire)
  BY <1>1, <1>6, <1>7, <1>8 DEF Placed
<1> QED
  BY <1>9 DEF OnTheWay, b, t, u

\* The pump queues a callback with the next of what has arrived, or with nothing.
LEMMA Called ==
  ASSUME NEW h \in Nat, NEW buf \in Units, NEW cbs \in Seq(GoodCallback),
         NEW inb \in Units, NEW str, NEW wire \in Units,
         OnTheWay(h, buf, cbs, inb, str, wire), NEW c \in GoodCallback,
         NEW rest \in Units, NEW after,
         \/ c.units = <<>> /\ (after # "dead" => str # "dead" /\ rest = inb)
         \/ /\ str # "dead" /\ Len(inb) = Len(c.units) + Len(rest)
            /\ \A i \in 1..Len(c.units) : c.units[i] = inb[i]
            /\ \A i \in 1..Len(rest) : rest[i] = inb[Len(c.units) + i]
  PROVE  OnTheWay(h, buf, Append(cbs, c), rest, after, wire)
<1> DEFINE cs == Append(cbs, c)
           n == Len(cbs)
           u == c.units
<1>1. PICK pos : Placed(pos, h, buf, cbs, inb, str, wire)
  BY DEF OnTheWay
<1>2. /\ n \in Nat /\ Len(cs) = n + 1 /\ cs[n + 1] = c
      /\ \A i \in 1..n : cs[i] = cbs[i]
  BY OneMore
<1>3. u \in Units /\ Len(u) \in Nat /\ Len(inb) \in Nat /\ Len(rest) \in Nat /\ Len(wire) \in Nat
  BY LenProperties DEF GoodCallback, Units
<1> HIDE DEF cs, n, u
<1> DEFINE p == pos[n + 1]
<1>4. /\ pos \in [1..(n + 1) -> Nat] /\ p \in Nat /\ p <= 2 * Len(wire)
      /\ pos[1] = 2 * h + Len(buf) /\ Stand(buf, 2 * h, wire)
      /\ str # "dead" => Stand(inb, p, wire) /\ p + Len(inb) = 2 * Len(wire)
      /\ \A i \in 1..n : Stand(cbs[i].units, pos[i], wire) /\ pos[i + 1] = pos[i] + Len(cbs[i].units)
  <2>1. n + 1 \in 1..(n + 1)
    BY <1>2
  <2> QED
    BY <1>1, <2>1 DEF Placed, n
<1> HIDE DEF p
<1>5. /\ Stand(u, p, wire) /\ p + Len(u) <= 2 * Len(wire)
      /\ after # "dead" => Stand(rest, p + Len(u), wire) /\ p + Len(u) + Len(rest) = 2 * Len(wire)
  <2>1. CASE u = <<>> /\ (after # "dead" => str # "dead" /\ rest = inb)
    <3>1. Len(u) = 0
      BY <2>1
    <3> QED
      BY <1>3, <1>4, <2>1, <3>1 DEF Stand
  <2>2. CASE /\ str # "dead" /\ Len(inb) = Len(u) + Len(rest)
             /\ \A i \in 1..Len(u) : u[i] = inb[i]
             /\ \A i \in 1..Len(rest) : rest[i] = inb[Len(u) + i]
    <3>1. Stand(inb, p, wire) /\ p + Len(inb) = 2 * Len(wire)
      BY <1>4, <2>2
    <3>2. ASSUME NEW i \in 1..Len(u), NEW k \in 1..Len(wire), p + i = 2 * k
          PROVE  u[i] = wire[k]
      <4>1. i \in 1..Len(inb)
        BY <1>3, <2>2
      <4> QED
        BY <2>2, <3>1, <3>2, <4>1 DEF Stand
    <3>3. ASSUME NEW i \in 1..Len(rest), NEW k \in 1..Len(wire), (p + Len(u)) + i = 2 * k
          PROVE  rest[i] = wire[k]
      <4>1. Len(u) + i \in 1..Len(inb) /\ p + (Len(u) + i) = 2 * k
        BY <1>3, <1>4, <2>2, <3>3
      <4> QED
        BY <2>2, <3>1, <4>1 DEF Stand
    <3>4. p + Len(u) <= 2 * Len(wire) /\ (p + Len(u)) + Len(rest) = 2 * Len(wire)
      BY <1>3, <1>4, <2>2, <3>1
    <3> QED
      BY <1>3, <3>2, <3>3, <3>4 DEF Stand
  <2> QED
    BY <2>1, <2>2 DEF u
<1> DEFINE q == [i \in 1..(Len(cs) + 1) |-> IF i \in 1..(n + 1) THEN pos[i] ELSE p + Len(u)]
<1>6. /\ q \in [1..(Len(cs) + 1) -> Nat] /\ q[Len(cs) + 1] = p + Len(u)
      /\ q[1] = 2 * h + Len(buf)
      /\ \A i \in 1..(n + 1) : q[i] = pos[i]
  BY <1>2, <1>3, <1>4
<1> HIDE DEF q
<1>7. ASSUME NEW i \in 1..Len(cs)
      PROVE  Stand(cs[i].units, q[i], wire) /\ q[i + 1] = q[i] + Len(cs[i].units)
  <2>1. CASE i \in 1..n
    <3>1. i \in 1..(n + 1) /\ i + 1 \in 1..(n + 1)
      BY <1>2, <2>1
    <3> QED
      BY <1>2, <1>4, <1>6, <2>1, <3>1
  <2>2. CASE i = n + 1
    <3>1. n + 1 \in 1..(n + 1) /\ i + 1 = Len(cs) + 1
      BY <1>2, <2>2
    <3>2. cs[i].units = u /\ q[i] = p /\ q[i + 1] = p + Len(u)
      BY <1>2, <1>6, <2>2, <3>1 DEF u, p
    <3> QED
      BY <1>5, <3>2
  <2> QED
    BY <1>2, <2>1, <2>2
<1>8. Placed(q, h, buf, cs, rest, after, wire)
  BY <1>4, <1>5, <1>6, <1>7 DEF Placed
<1> QED
  BY <1>8 DEF OnTheWay, cs

\* A whole unit pair in the buffer is the next thing said.
LEMMA Read ==
  ASSUME NEW h \in Nat, NEW buf \in Units, Len(buf) >= 2, NEW cbs \in Seq(GoodCallback),
         NEW inb \in Units, NEW str, NEW wire \in Units,
         OnTheWay(h, buf, cbs, inb, str, wire)
  PROVE  /\ h + 1 \in 1..Len(wire) /\ buf[2] = wire[h + 1]
         /\ SubSeq(buf, 3, Len(buf)) \in Units
         /\ OnTheWay(h + 1, SubSeq(buf, 3, Len(buf)), cbs, inb, str, wire)
<1> DEFINE b == SubSeq(buf, 3, Len(buf))
<1>1. PICK pos : Placed(pos, h, buf, cbs, inb, str, wire)
  BY DEF OnTheWay
<1>2. Len(buf) \in Nat /\ Len(wire) \in Nat
  BY LenProperties DEF Units
<1>3. /\ b \in Units /\ Len(b) = Len(buf) - 2
      /\ \A i \in 1..Len(b) : b[i] = buf[i + 2]
  <2>1. /\ b \in Seq(GoodUnit)
        /\ Len(b) = IF 3 <= Len(buf) THEN Len(buf) - 3 + 1 ELSE 0
        /\ \A i \in 1..(Len(buf) - 3 + 1) : b[i] = buf[3 + i - 1]
    BY <1>2, SubSeqProperties, \A i \in 3..Len(buf) : i \in 1..Len(buf) DEF Units
  <2> HIDE DEF b
  <2>2. Len(b) = Len(buf) - 2
    <3>1. Len(b) = IF 3 <= Len(buf) THEN Len(buf) - 3 + 1 ELSE 0
      BY <2>1
    <3>2. ASSUME NEW l \in Nat, l >= 2, NEW m, m = IF 3 <= l THEN l - 3 + 1 ELSE 0
          PROVE  m = l - 2
      BY <3>2
    <3> QED
      BY <1>2, <3>1, <3>2
  <2>3. ASSUME NEW i \in 1..Len(b) PROVE b[i] = buf[i + 2]
    <3>1. i \in 1..(Len(buf) - 3 + 1) /\ 3 + i - 1 = i + 2
      BY <1>2, <2>2
    <3> QED
      BY <2>1, <3>1
  <2> QED
    BY <2>1, <2>2, <2>3 DEF Units
<1> HIDE DEF b
<1>4. Stand(buf, 2 * h, wire) /\ pos[1] = 2 * h + Len(buf)
  BY <1>1 DEF Placed
<1>5. h + 1 \in 1..Len(wire)
  BY <1>2, <1>4 DEF Stand
<1>6. buf[2] = wire[h + 1]
  <2>1. 2 \in 1..Len(buf) /\ 2 * h + 2 = 2 * (h + 1)
    BY <1>2
  <2> QED
    BY <1>4, <1>5, <2>1 DEF Stand
<1>7. Stand(b, 2 * (h + 1), wire)
  <2>1. 2 * (h + 1) + Len(b) <= 2 * Len(wire)
    BY <1>2, <1>3, <1>4 DEF Stand
  <2>2. ASSUME NEW i \in 1..Len(b), NEW k \in 1..Len(wire), 2 * (h + 1) + i = 2 * k
        PROVE  b[i] = wire[k]
    <3>1. i + 2 \in 1..Len(buf) /\ 2 * h + (i + 2) = 2 * k
      BY <1>2, <1>3, <2>2
    <3> QED
      BY <1>3, <1>4, <3>1 DEF Stand
  <2> QED
    BY <2>1, <2>2 DEF Stand
<1>8. pos[1] = 2 * (h + 1) + Len(b)
  BY <1>2, <1>3, <1>4
<1>9. Placed(pos, h + 1, b, cbs, inb, str, wire)
  BY <1>1, <1>7, <1>8 DEF Placed
<1> QED
  BY <1>3, <1>5, <1>6, <1>9 DEF OnTheWay, b

\* The server says one thing more.
LEMMA Said ==
  ASSUME NEW h \in Nat, NEW buf \in Units, NEW cbs \in Seq(GoodCallback),
         NEW inb \in Units, NEW str, NEW wire \in Units,
         OnTheWay(h, buf, cbs, inb, str, wire),
         NEW more \in Units, Len(more) = Len(wire) + 1,
         \A k \in 1..Len(wire) : more[k] = wire[k],
         NEW half \in GoodUnit
  PROVE  OnTheWay(h, buf, cbs, inb \o <<half, more[Len(wire) + 1]>>, str, more)
<1> DEFINE n == Len(wire)
           x == more[n + 1]
           in == inb \o <<half, x>>
<1>1. PICK pos : Placed(pos, h, buf, cbs, inb, str, wire)
  BY DEF OnTheWay
<1>2. /\ n \in Nat /\ Len(inb) \in Nat /\ Len(buf) \in Nat /\ Len(cbs) \in Nat
      /\ \A i \in 1..Len(cbs) : cbs[i].units \in Seq(GoodUnit) /\ Len(cbs[i].units) \in Nat
  <2>1. \A i \in 1..Len(cbs) : cbs[i] \in GoodCallback
    BY ElementOfSeq
  <2>2. \A i \in 1..Len(cbs) : cbs[i].units \in Seq(GoodUnit)
    BY <2>1 DEF GoodCallback
  <2> QED
    BY <2>2, LenProperties DEF Units
<1>3. x \in GoodUnit
  BY <1>2, ElementOfSeq DEF Units
<1>4. /\ Len(in) = Len(inb) + 2
      /\ \A i \in 1..Len(inb) : in[i] = inb[i]
      /\ in[Len(inb) + 2] = x
  <2>1. <<half, x>> \in Seq(GoodUnit) /\ Len(<<half, x>>) = 2 /\ <<half, x>>[2] = x
    BY <1>3, PairSeq
  <2>2. /\ Len(in) = Len(inb) + 2
        /\ \A i \in 1..Len(inb) : in[i] = inb[i]
        /\ \A i \in 1..2 : in[Len(inb) + i] = <<half, x>>[i]
    BY <2>1, ConcatElements DEF Units
  <2>3. 2 \in 1..2
    OBVIOUS
  <2> QED
    BY <2>1, <2>2, <2>3
<1> HIDE DEF in, x
<1>5. ASSUME NEW units, Len(units) \in Nat, NEW from \in Nat, Stand(units, from, wire)
      PROVE  Stand(units, from, more)
  <2>1. from + Len(units) <= 2 * Len(more)
    BY <1>2, <1>5 DEF Stand
  <2>2. ASSUME NEW i \in 1..Len(units), NEW k \in 1..Len(more), from + i = 2 * k
        PROVE  units[i] = more[k]
    <3>1. k \in 1..n
      BY <1>2, <1>5, <2>2 DEF Stand
    <3> QED
      BY <1>5, <2>2, <3>1 DEF Stand
  <2> QED
    BY <2>1, <2>2 DEF Stand
<1>6. /\ pos \in [1..(Len(cbs) + 1) -> Nat] /\ pos[1] = 2 * h + Len(buf)
      /\ pos[Len(cbs) + 1] <= 2 * n /\ pos[Len(cbs) + 1] \in Nat
      /\ \A i \in 1..Len(cbs) : pos[i] \in Nat
  <2>1. Len(cbs) + 1 \in 1..(Len(cbs) + 1) /\ \A i \in 1..Len(cbs) : i \in 1..(Len(cbs) + 1)
    BY <1>2
  <2> QED
    BY <1>1, <2>1 DEF Placed
<1>7. Stand(buf, 2 * h, more)
  BY <1>1, <1>2, <1>5 DEF Placed
<1>8. ASSUME NEW i \in 1..Len(cbs)
      PROVE  Stand(cbs[i].units, pos[i], more) /\ pos[i + 1] = pos[i] + Len(cbs[i].units)
  <2>1. Stand(cbs[i].units, pos[i], wire) /\ pos[i + 1] = pos[i] + Len(cbs[i].units)
    BY <1>1 DEF Placed
  <2> QED
    BY <1>2, <1>5, <1>6, <2>1
<1>9. ASSUME str # "dead"
      PROVE  Stand(in, pos[Len(cbs) + 1], more) /\ pos[Len(cbs) + 1] + Len(in) = 2 * Len(more)
  <2> DEFINE p == pos[Len(cbs) + 1]
  <2>1. p \in Nat /\ Stand(inb, p, wire) /\ p + Len(inb) = 2 * n
    BY <1>1, <1>6, <1>9 DEF Placed
  <2> HIDE DEF p
  <2>2. p + Len(in) = 2 * Len(more)
    <3>1. Len(in) = Len(inb) + 2 /\ Len(more) = n + 1 /\ n \in Nat /\ Len(inb) \in Nat
      BY <1>2, <1>4
    <3> QED
      BY <2>1, <3>1, SMTT(30)
  <2>3. ASSUME NEW i \in 1..Len(in), NEW k \in 1..Len(more), p + i = 2 * k
        PROVE  in[i] = more[k]
    <3>1. CASE k \in 1..n
      <4>1. i \in 1..Len(inb)
        BY <1>2, <1>4, <2>1, <2>3, <3>1
      <4> QED
        BY <1>4, <2>1, <2>3, <3>1, <4>1 DEF Stand
    <3>2. CASE k = n + 1
      <4>1. i = Len(inb) + 2
        BY <1>2, <1>4, <2>1, <2>3, <3>2
      <4> QED
        BY <1>4, <3>2, <4>1 DEF x
    <3> QED
      BY <1>2, <2>3, <3>1, <3>2
  <2>4. Stand(in, p, more)
    BY <1>2, <2>2, <2>3 DEF Stand
  <2> QED
    BY <2>2, <2>4 DEF p
<1>10. pos[Len(cbs) + 1] <= 2 * Len(more)
  BY <1>2, <1>6
<1>11. Placed(pos, h, buf, cbs, in, str, more)
  BY <1>6, <1>7, <1>8, <1>9, <1>10 DEF Placed
<1> QED
  BY <1>11 DEF OnTheWay, in, x, n

\* A stream that is lost brings nothing more.
LEMMA Lost ==
  ASSUME NEW h, NEW buf, NEW cbs, NEW inb, NEW str, NEW wire,
         OnTheWay(h, buf, cbs, inb, str, wire), NEW after, after # "dead" => str # "dead"
  PROVE  OnTheWay(h, buf, cbs, inb, after, wire)
<1>1. PICK pos : Placed(pos, h, buf, cbs, inb, str, wire)
  BY DEF OnTheWay
<1>2. Placed(pos, h, buf, cbs, inb, after, wire)
  BY <1>1 DEF Placed
<1> QED
  BY <1>2 DEF OnTheWay

-----------------------------------------------------------------------------
(* The messages: what has been handed over *)

\* Every message that ends before the h-th frame has been handed over, and no other.
HandedOver(h) ==
  /\ \A i \in DOMAIN log : log[i].type = "message" => \E e \in Ends : e < h /\ HandsOver(i, e)
  /\ \A e \in Ends : e < h => \E i \in DOMAIN log : HandsOver(i, e)

\* What is kept of a message that is begun.
Continued(h) ==
  IF hasContinuous
  THEN Ascending(continuousData) /\ ToSet(continuousData) = Fragments(h - 1)
  ELSE continuousData = <<>>

Received(h) == HandedOver(h) /\ Continued(h) /\ \A j \in 1..(h - 1) : sent[j] # "close"

SentGrows == Len(sent) <= Len(sent') /\ \A k \in 1..Len(sent) : sent'[k] = sent[k]
NoMessage ==
  /\ Len(log) <= Len(log') /\ \A i \in 1..Len(log) : log'[i] = log[i]
  /\ \A i \in DOMAIN log' : i > Len(log) => log'[i].type # "message"

LEMMA Lengths ==
  ASSUME Typed
  PROVE  /\ Len(log) \in Nat /\ DOMAIN log = 1..Len(log)
         /\ Len(sent) \in Nat /\ DOMAIN sent = 1..Len(sent)
         /\ Ends \subseteq 1..Len(sent)
<1>1. /\ Len(log) \in Nat /\ DOMAIN log = 1..Len(log)
      /\ Len(sent) \in Nat /\ DOMAIN sent = 1..Len(sent)
  BY LenProperties DEF Typed, QueuesTyped
<1> QED
  BY <1>1 DEF Ends

\* The frames of a message are those up to the one that ends it, which is one of them.
LEMMA EndIsLast ==
  ASSUME Typed, NEW e \in Ends
  PROVE  e \in Nat /\ e \in Frames(e) /\ \A j \in Frames(e) : j \in 1..e
<1>1. e \in 1..Len(sent) /\ e \in Nat /\ sent[e] \in {"text", "last"} /\ e \in 1..e
  BY Lengths DEF Ends
<1>2. \A j \in Fragments(e) : j \in 1..e
  BY DEF Fragments
<1>3. sent[e] = "last" => e \in Fragments(e)
  BY <1>1 DEF Fragments
<1> QED
  BY <1>1, <1>2, <1>3 DEF Frames

\* So a callback hands over one message.
LEMMA OneMessage ==
  ASSUME Typed, NEW i, NEW e \in Ends, NEW f \in Ends, HandsOver(i, e), HandsOver(i, f)
  PROVE  e = f
<1>1. Frames(e) = Frames(f)
  BY DEF HandsOver
<1>2. e \in Nat /\ f \in Nat /\ e \in 1..f /\ f \in 1..e
  BY <1>1, EndIsLast
<1> QED
  BY <1>2

LEMMA OneMessageNext ==
  ASSUME NEW CONSTANT i, NEW CONSTANT e, NEW CONSTANT f
  PROVE  (Typed /\ e \in Ends /\ f \in Ends /\ HandsOver(i, e) /\ HandsOver(i, f) => e = f)'
<1>1. Typed /\ e \in Ends /\ f \in Ends /\ HandsOver(i, e) /\ HandsOver(i, f) => e = f
  BY OneMessage
<1> QED
  BY <1>1, PTL

\* What is sent later changes nothing of the messages so far.
LEMMA SameEnds ==
  ASSUME Typed, Typed', SentGrows, NEW e \in 1..Len(sent)
  PROVE  /\ e \in Ends' <=> e \in Ends
         /\ Fragments(e)' = Fragments(e)
         /\ Frames(e)' = Frames(e)
<1>1. /\ Len(sent) \in Nat /\ DOMAIN sent = 1..Len(sent)
      /\ Len(sent') \in Nat /\ DOMAIN sent' = 1..Len(sent')
  BY LenProperties DEF Typed, QueuesTyped
<1>2. \A j \in 1..e : sent'[j] = sent[j]
  BY <1>1 DEF SentGrows
<1>3. e \in 1..Len(sent') /\ sent'[e] = sent[e]
  BY <1>1 DEF SentGrows
<1>4. Fragments(e)' = Fragments(e)
  BY <1>2 DEF Fragments
<1> QED
  BY <1>1, <1>3, <1>4 DEF Ends, Frames

LEMMA SameHands ==
  ASSUME Typed, Typed', SentGrows, NEW e \in 1..Len(sent), NEW i, log'[i] = log[i]
  PROVE  HandsOver(i, e)' <=> HandsOver(i, e)
<1>1. Frames(e)' = Frames(e)
  BY SameEnds
<1> QED
  BY <1>1 DEF HandsOver, Ascending

\* Nothing but callbacks of other kinds: what has been handed over is what was.
LEMMA SameHanded ==
  ASSUME Typed, Typed', SentGrows, NoMessage, MessagesInOrder,
         NEW i \in DOMAIN log', NEW f \in Ends'
  PROVE  HandsOver(i, f)' <=> i \in DOMAIN log /\ f \in Ends /\ HandsOver(i, f)
<1>1. /\ Len(log) \in Nat /\ DOMAIN log = 1..Len(log)
      /\ Len(sent) \in Nat /\ Ends \subseteq 1..Len(sent)
  BY Lengths
<1>2. /\ Len(log') \in Nat /\ DOMAIN log' = 1..Len(log') /\ Ends' \subseteq 1..Len(sent')
  BY LenProperties DEF Typed, QueuesTyped, Ends
<1>3. ASSUME HandsOver(i, f)'
      PROVE  i \in DOMAIN log /\ f \in Ends /\ HandsOver(i, f)
  <2>1. log'[i].type = "message"
    BY <1>3 DEF HandsOver
  <2>2. i \in DOMAIN log /\ log'[i] = log[i]
    BY <1>1, <1>2, <2>1 DEF NoMessage
  <2>3. PICK e \in Ends : HandsOver(i, e)
    BY <2>1, <2>2 DEF MessagesInOrder
  <2>4. e \in 1..Len(sent) /\ e \in Ends' /\ HandsOver(i, e)'
    BY <1>1, <2>2, <2>3, SameEnds, SameHands
  <2>5. e = f
    BY <1>3, <2>4, OneMessageNext
  <2> QED
    BY <2>2, <2>3, <2>5
<1>4. ASSUME i \in DOMAIN log, f \in Ends, HandsOver(i, f) PROVE HandsOver(i, f)'
  <2>1. f \in 1..Len(sent) /\ log'[i] = log[i]
    BY <1>1, <1>4 DEF NoMessage
  <2> QED
    BY <1>4, <2>1, SameHands
<1> QED
  BY <1>3, <1>4

LEMMA KeepsOrder ==
  ASSUME Typed, Typed', SentGrows, NoMessage, MessagesInOrder
  PROVE  MessagesInOrder'
<1>1. /\ Len(log) \in Nat /\ DOMAIN log = 1..Len(log)
      /\ Len(sent) \in Nat /\ Ends \subseteq 1..Len(sent)
      /\ Len(log') \in Nat /\ DOMAIN log' = 1..Len(log')
  BY Lengths, LenProperties DEF Typed, QueuesTyped
<1>2. ASSUME NEW i \in DOMAIN log', log'[i].type = "message"
      PROVE  \E e \in Ends' : /\ HandsOver(i, e)'
                              /\ \A f \in Ends' : f < e <=> \E j \in 1..(i - 1) : HandsOver(j, f)'
  <2>1. i \in DOMAIN log /\ log'[i] = log[i]
    BY <1>1, <1>2 DEF NoMessage
  <2>2. PICK e \in Ends :
          HandsOver(i, e) /\ \A f \in Ends : f < e <=> \E j \in 1..(i - 1) : HandsOver(j, f)
    BY <1>2, <2>1 DEF MessagesInOrder
  <2>3. e \in 1..Len(sent) /\ e \in Ends'
    BY <1>1, <2>2, SameEnds
  <2>4. HandsOver(i, e)'
    BY <1>2, <2>1, <2>2, <2>3, SameHanded
  <2>5. ASSUME NEW f \in Ends'
        PROVE  f < e <=> \E j \in 1..(i - 1) : HandsOver(j, f)'
    <3>1. \A j \in 1..(i - 1) : j \in DOMAIN log' /\ j \in DOMAIN log
      BY <1>1, <2>1
    <3>2. \A j \in 1..(i - 1) : HandsOver(j, f)' <=> f \in Ends /\ HandsOver(j, f)
      BY <3>1, SameHanded
    <3>3. f < e => f \in Ends
      <4>1. f \in 1..Len(sent')
        BY LenProperties DEF Typed, QueuesTyped, Ends
      <4>2. ASSUME f < e PROVE f \in 1..Len(sent)
        BY <1>1, <2>3, <4>1, <4>2 DEF SentGrows
      <4> QED
        BY <4>2, SameEnds
    <3> QED
      BY <2>2, <3>2, <3>3
  <2> QED
    BY <2>3, <2>4, <2>5
<1> QED
  BY <1>2 DEF MessagesInOrder

LEMMA KeepsHanded ==
  ASSUME Typed, Typed', SentGrows, NoMessage, MessagesInOrder,
         NEW h \in Nat, h <= Len(sent) + 1, HandedOver(h)
  PROVE  HandedOver(h)'
<1>1. /\ Len(log) \in Nat /\ DOMAIN log = 1..Len(log)
      /\ Len(sent) \in Nat /\ Ends \subseteq 1..Len(sent)
      /\ Len(log') \in Nat /\ DOMAIN log' = 1..Len(log')
  BY Lengths, LenProperties DEF Typed, QueuesTyped
<1>2. \A e \in 1..Len(sent) : e \in Ends' <=> e \in Ends
  BY SameEnds
<1>3. ASSUME NEW i \in DOMAIN log', log'[i].type = "message"
      PROVE  \E e \in Ends' : e < h /\ HandsOver(i, e)'
  <2>1. i \in DOMAIN log /\ log'[i] = log[i]
    BY <1>1, <1>3 DEF NoMessage
  <2>2. PICK e \in Ends : e < h /\ HandsOver(i, e)
    BY <1>3, <2>1 DEF HandedOver
  <2>3. e \in Ends' /\ HandsOver(i, e)'
    BY <1>1, <1>2, <1>3, <2>1, <2>2, SameHanded
  <2> QED
    BY <2>2, <2>3
<1>4. ASSUME NEW e \in Ends', e < h
      PROVE  \E i \in DOMAIN log' : HandsOver(i, e)'
  <2>1. e \in 1..Len(sent')
    BY LenProperties DEF Typed, QueuesTyped, Ends
  <2>2. e \in Ends
    BY <1>1, <1>2, <1>4, <2>1 DEF SentGrows
  <2>3. PICK i \in DOMAIN log : HandsOver(i, e)
    BY <1>4, <2>2 DEF HandedOver
  <2>4. i \in DOMAIN log'
    BY <1>1 DEF NoMessage
  <2> QED
    BY <2>2, <2>3, <2>4, SameHanded
<1> QED
  BY <1>3, <1>4 DEF HandedOver

LEMMA KeepsClean ==
  ASSUME Typed, Typed', SentGrows, NoMessage, MessagesInOrder, CleanCloseIsComplete,
         Told("closeClean")' => Told("closeClean")
  PROVE  CleanCloseIsComplete'
<1>1. /\ Len(log) \in Nat /\ DOMAIN log = 1..Len(log)
      /\ Len(sent) \in Nat /\ Ends \subseteq 1..Len(sent) /\ DOMAIN sent = 1..Len(sent)
      /\ Len(log') \in Nat /\ DOMAIN log' = 1..Len(log')
      /\ Len(sent') \in Nat /\ DOMAIN sent' = 1..Len(sent')
  BY Lengths, LenProperties DEF Typed, QueuesTyped
<1>2. SUFFICES ASSUME Told("closeClean")
      PROVE  \E i \in DOMAIN sent' :
               /\ sent'[i] = "close"
               /\ \A j \in 1..(i - 1) : sent'[j] # "close"
               /\ \A e \in Ends' : e < i <=> \E j \in DOMAIN log' : HandsOver(j, e)'
  BY DEF CleanCloseIsComplete, Told, Contract!Happened
<1>3. PICK i \in DOMAIN sent :
        /\ sent[i] = "close"
        /\ \A j \in 1..(i - 1) : sent[j] # "close"
        /\ \A e \in Ends : e < i <=> \E j \in DOMAIN log : HandsOver(j, e)
  BY <1>2 DEF CleanCloseIsComplete, Told, Contract!Happened
<1>4. /\ i \in DOMAIN sent' /\ sent'[i] = "close"
      /\ \A j \in 1..(i - 1) : sent'[j] # "close"
  BY <1>1, <1>3 DEF SentGrows
<1>5. ASSUME NEW e \in Ends'
      PROVE  e < i <=> \E j \in DOMAIN log' : HandsOver(j, e)'
  <2>1. \A j \in DOMAIN log' : HandsOver(j, e)' <=> j \in DOMAIN log /\ e \in Ends /\ HandsOver(j, e)
    BY SameHanded
  <2>2. DOMAIN log \subseteq DOMAIN log'
    BY <1>1 DEF NoMessage
  <2>3. e < i => e \in Ends
    <3>1. e \in 1..Len(sent')
      BY LenProperties DEF Typed, QueuesTyped, Ends
    <3>2. ASSUME e < i PROVE e \in 1..Len(sent)
      BY <1>1, <3>1, <3>2
    <3> QED
      BY <3>2, SameEnds
  <2> QED
    BY <1>3, <2>1, <2>2, <2>3
<1> QED
  BY <1>4, <1>5

LEMMA KeepsContinued ==
  ASSUME Typed, Typed', SentGrows, NEW h \in Nat, h <= Len(sent) + 1, Continued(h),
         UNCHANGED <<hasContinuous, continuousData>>
  PROVE  Continued(h)'
<1>1. Len(sent) \in Nat /\ DOMAIN sent = 1..Len(sent)
  BY Lengths
<1>2. Fragments(h - 1)' = Fragments(h - 1)
  <2>1. \A j \in 1..(h - 1) : sent'[j] = sent[j]
    BY <1>1 DEF SentGrows
  <2> QED
    BY <2>1 DEF Fragments
<1> QED
  BY <1>2 DEF Continued, Ascending

LEMMA KeepsReceived ==
  ASSUME Typed, Typed', SentGrows, NoMessage, MessagesInOrder,
         NEW h \in Nat, h <= Len(sent) + 1, Received(h),
         UNCHANGED <<hasContinuous, continuousData>>
  PROVE  Received(h)'
<1>1. Len(sent) \in Nat
  BY Lengths
<1>2. \A j \in 1..(h - 1) : sent'[j] # "close"
  BY <1>1 DEF SentGrows, Received
<1> QED
  BY <1>2, KeepsHanded, KeepsContinued DEF Received

\* The opening response hands over nothing, a ping neither.
LEMMA HandshakeReceived ==
  ASSUME Typed, Received(0)
  PROVE  Received(1)
<1>1. Ends \subseteq 1..Len(sent) /\ Len(sent) \in Nat
  BY Lengths
<1>2. HandedOver(1)
  BY <1>1 DEF Received, HandedOver
<1>3. Fragments(0 - 1) = {} /\ Fragments(1 - 1) = {}
  BY DEF Fragments
<1>4. Continued(1)
  BY <1>3 DEF Received, Continued
<1> QED
  BY <1>2, <1>4 DEF Received

LEMMA NotAnEnd ==
  ASSUME Typed, NEW h \in Nat \ {0}, h \in 1..Len(sent), HandedOver(h),
         sent[h] \notin {"text", "last"}
  PROVE  HandedOver(h + 1)
<1>1. Ends \subseteq 1..Len(sent) /\ Len(sent) \in Nat
  BY Lengths
<1>2. h \notin Ends
  BY DEF Ends
<1>3. \A e \in Ends : e < h + 1 <=> e < h
  BY <1>1, <1>2
<1> QED
  BY <1>3 DEF HandedOver

LEMMA PingReceived ==
  ASSUME Typed, NEW h \in Nat \ {0}, h \in 1..Len(sent), Received(h), sent[h] = "ping"
  PROVE  Received(h + 1)
<1>1. HandedOver(h + 1)
  BY NotAnEnd DEF Received
<1>2. Fragments(h) = Fragments(h - 1)
  <2>1. \A j \in 1..h : j = h \/ j \in 1..(h - 1)
    OBVIOUS
  <2>2. \A j \in 1..(h - 1) : j \in 1..h
    OBVIOUS
  <2> QED
    BY <2>1, <2>2 DEF Fragments
<1>3. Continued(h + 1)
  <2>1. (h + 1) - 1 = h
    OBVIOUS
  <2> QED
    BY <1>2, <2>1 DEF Received, Continued
<1>4. \A j \in 1..((h + 1) - 1) : sent[j] # "close"
  <2>1. \A j \in 1..((h + 1) - 1) : j = h \/ j \in 1..(h - 1)
    OBVIOUS
  <2> QED
    BY <2>1 DEF Received
<1> QED
  BY <1>1, <1>3, <1>4 DEF Received

\* A fragment joins the ones that are kept.
LEMMA FragmentJoins ==
  ASSUME Typed, NEW h \in Nat \ {0}, h \in 1..Len(sent), Continued(h),
         sent[h] \in {"first", "middle", "last"}, ~RejectedFrame(sent[h])
  PROVE  /\ Ascending(Append(continuousData, h))
         /\ ToSet(Append(continuousData, h)) = Fragments(h)
<1> DEFINE c == continuousData
           d == Append(c, h)
<1>1. /\ Len(c) \in Nat /\ DOMAIN c = 1..Len(c) /\ DOMAIN d = 1..(Len(c) + 1)
      /\ \A i \in 1..Len(c) : d[i] = c[i] /\ c[i] \in Nat
      /\ d[Len(c) + 1] = h
  <2>1. c \in Seq(Nat)
    BY SeqMonotonic, 1..MaxFrames \subseteq Nat DEF Typed, QueuesTyped
  <2> QED
    BY <2>1, OneMore, ElementOfSeq
<1> HIDE DEF c, d
<1>2. \A j \in 1..h : j = h \/ j \in 1..(h - 1)
  OBVIOUS
<1>3. \A j \in 1..(h - 1) : j \in 1..h
  OBVIOUS
<1>4. CASE sent[h] = "first"
  <2>1. c = <<>> /\ Len(c) = 0
    BY <1>4 DEF RejectedFrame, Continued, c
  <2>2. DOMAIN d = {1} /\ d[1] = h
    BY <1>1, <2>1
  <2>3. Fragments(h) = {h}
    BY <1>4 DEF Fragments
  <2>4. Ascending(d)
    BY <2>2 DEF Ascending
  <2>5. ToSet(d) = {h}
    BY <2>2 DEF ToSet
  <2> QED
    BY <2>3, <2>4, <2>5 DEF d, c
<1>5. CASE sent[h] \in {"middle", "last"}
  <2>1. Ascending(c) /\ ToSet(c) = Fragments(h - 1)
    BY <1>5 DEF RejectedFrame, Continued, c
  <2>2. ASSUME NEW i \in 1..Len(c) PROVE c[i] \in 1..(h - 1)
    <3>1. c[i] \in ToSet(c)
      BY <1>1 DEF ToSet
    <3> QED
      BY <2>1, <3>1 DEF Fragments
  <2>3. ASSUME NEW j \in 1..(Len(c) + 1), NEW k \in 1..(Len(c) + 1), j < k
        PROVE  d[j] < d[k]
    <3>1. j \in 1..Len(c)
      BY <1>1, <2>3
    <3>2. CASE k = Len(c) + 1
      BY <1>1, <2>2, <3>1, <3>2
    <3>3. CASE k # Len(c) + 1
      <4>1. k \in 1..Len(c)
        BY <1>1, <3>3
      <4> QED
        BY <1>1, <2>1, <2>3, <3>1, <4>1 DEF Ascending
    <3> QED
      BY <3>2, <3>3
  <2>4. Ascending(d)
    BY <1>1, <2>3 DEF Ascending
  <2>5. ToSet(d) = ToSet(c) \cup {h}
    <3>1. \A i \in 1..(Len(c) + 1) : i \in 1..Len(c) \/ i = Len(c) + 1
      BY <1>1
    <3>2. Len(c) + 1 \in 1..(Len(c) + 1) /\ 1..Len(c) \subseteq 1..(Len(c) + 1)
      BY <1>1
    <3>3. ASSUME NEW x \in ToSet(d) PROVE x \in ToSet(c) \cup {h}
      BY <1>1, <3>1, <3>3 DEF ToSet
    <3>4. ASSUME NEW x \in ToSet(c) PROVE x \in ToSet(d)
      BY <1>1, <3>2, <3>4 DEF ToSet
    <3>5. h \in ToSet(d)
      BY <1>1, <3>2 DEF ToSet
    <3> QED
      BY <3>3, <3>4, <3>5
  <2>6. Fragments(h) = Fragments(h - 1) \cup {h}
    <3>1. \A k \in 1..h : sent[k] = "first" => k \in 1..(h - 1) /\ k <= h
      BY <1>2, <1>5
    <3> QED
      BY <1>2, <1>3, <1>5, <3>1 DEF Fragments
  <2> QED
    BY <2>1, <2>4, <2>5, <2>6 DEF d, c
<1> QED
  BY <1>4, <1>5

\* The message that ends with the h-th frame is handed over.
LEMMA Handover ==
  ASSUME Typed, Typed', sent' = sent, MessagesInOrder,
         NEW h \in Ends, HandedOver(h),
         NEW m \in ClientEvent, m.type = "message",
         Ascending(m.frames), ToSet(m.frames) = Frames(h), log' = Append(log, m)
  PROVE  MessagesInOrder' /\ HandedOver(h + 1)'
<1>0. PICK n \in Nat : n = Len(log)
  BY LenProperties DEF Typed, QueuesTyped
<1>1. /\ n \in Nat /\ DOMAIN log = 1..n /\ DOMAIN log' = 1..(n + 1)
      /\ \A i \in 1..n : log'[i] = log[i]
      /\ log'[n + 1] = m
  BY <1>0, OneMore DEF Typed, QueuesTyped
<1>2. /\ Len(sent) \in Nat /\ Ends \subseteq 1..Len(sent) /\ Ends' = Ends /\ h \in Nat
      /\ \A e \in Ends : e \in Nat
  BY Lengths DEF Ends
<1>3. SentGrows
  BY <1>2 DEF SentGrows
<1>4. \A i \in 1..n, e \in Ends : HandsOver(i, e)' <=> HandsOver(i, e)
  BY <1>1, <1>2, <1>3, SameHands
<1>5. HandsOver(n + 1, h)'
  <2>1. Frames(h)' = Frames(h)
    BY <1>2, <1>3, SameEnds
  <2> QED
    BY <1>1, <2>1 DEF HandsOver, Ascending
<1>6. \A i \in 1..(n + 1) : i \in 1..n \/ i = n + 1
  BY <1>1
<1>7. n + 1 \in 1..(n + 1) /\ 1..n \subseteq 1..(n + 1) /\ (n + 1) - 1 = n
  BY <1>1
<1>8. ASSUME NEW i \in 1..n, log[i].type = "message"
      PROVE  \E e \in Ends : /\ HandsOver(i, e)'
                             /\ \A f \in Ends : f < e <=> \E j \in 1..(i - 1) : HandsOver(j, f)'
  <2>1. PICK e \in Ends :
          HandsOver(i, e) /\ \A f \in Ends : f < e <=> \E j \in 1..(i - 1) : HandsOver(j, f)
    BY <1>1, <1>8 DEF MessagesInOrder
  <2>2. 1..(i - 1) \subseteq 1..n
    BY <1>1
  <2>3. ASSUME NEW f \in Ends
        PROVE  f < e <=> \E j \in 1..(i - 1) : HandsOver(j, f)'
    <3>1. \A j \in 1..(i - 1) : HandsOver(j, f)' <=> HandsOver(j, f)
      BY <1>4, <2>2
    <3> QED
      BY <2>1, <3>1
  <2> QED
    BY <1>4, <2>1, <2>3
<1>9. ASSUME NEW f \in Ends
      PROVE  f < h <=> \E j \in 1..n : HandsOver(j, f)'
  <2>1. f < h => \E j \in 1..n : HandsOver(j, f)
    BY <1>1 DEF HandedOver
  <2>2. ASSUME NEW j \in 1..n, HandsOver(j, f) PROVE f < h
    <3>1. PICK e \in Ends : e < h /\ HandsOver(j, e)
      BY <1>1, <2>2 DEF HandedOver, HandsOver
    <3> QED
      BY <2>2, <3>1, OneMessage
  <2> QED
    BY <1>4, <2>1, <2>2
<1>10. MessagesInOrder'
  <2>1. ASSUME NEW i \in 1..(n + 1), log'[i].type = "message"
        PROVE  \E e \in Ends : /\ HandsOver(i, e)'
                               /\ \A f \in Ends : f < e <=> \E j \in 1..(i - 1) : HandsOver(j, f)'
    <3>1. CASE i \in 1..n
      BY <1>1, <1>8, <2>1, <3>1
    <3>2. CASE i = n + 1
      BY <1>5, <1>7, <1>9, <3>2
    <3> QED
      BY <1>6, <3>1, <3>2
  <2> QED
    BY <1>1, <1>2, <2>1 DEF MessagesInOrder
<1>11. HandedOver(h + 1)'
  <2>1. ASSUME NEW i \in 1..(n + 1), log'[i].type = "message"
        PROVE  \E e \in Ends : e < h + 1 /\ HandsOver(i, e)'
    <3>1. CASE i \in 1..n
      <4>1. PICK e \in Ends : e < h /\ HandsOver(i, e)
        BY <1>1, <2>1, <3>1 DEF HandedOver
      <4>2. e < h + 1
        BY <1>2, <4>1
      <4> QED
        BY <1>4, <3>1, <4>1, <4>2
    <3>2. CASE i = n + 1
      BY <1>2, <1>5, <3>2
    <3> QED
      BY <1>6, <3>1, <3>2
  <2>2. ASSUME NEW e \in Ends, e < h + 1
        PROVE  \E i \in 1..(n + 1) : HandsOver(i, e)'
    <3>1. CASE e < h
      BY <1>7, <1>9, <3>1
    <3>2. CASE e = h
      BY <1>5, <1>7, <3>2
    <3> QED
      BY <1>2, <2>2, <3>1, <3>2
  <2> QED
    BY <1>1, <1>2, <2>1, <2>2 DEF HandedOver
<1> QED
  BY <1>10, <1>11

\* The server's Close frame comes after all that it has sent.
LEMMA CloseComplete ==
  ASSUME Typed, Typed', sent' = sent, NoMessage, MessagesInOrder,
         NEW h \in Nat \ {0}, h \in 1..Len(sent), sent[h] = "close", Received(h)
  PROVE  CleanCloseIsComplete'
<1>1. Len(sent) \in Nat /\ DOMAIN sent = 1..Len(sent)
  BY Lengths
<1>2. SentGrows
  BY <1>1 DEF SentGrows
<1>3. HandedOver(h)'
  BY <1>1, <1>2, KeepsHanded DEF Received
<1>4. MessagesInOrder'
  BY <1>2, KeepsOrder
<1>5. ASSUME NEW e \in Ends'
      PROVE  e < h <=> \E j \in DOMAIN log' : HandsOver(j, e)'
  <2>1. e < h => \E j \in DOMAIN log' : HandsOver(j, e)'
    BY <1>3 DEF HandedOver
  <2>2. ASSUME NEW j \in DOMAIN log', HandsOver(j, e)' PROVE e < h
    <3>1. PICK f \in Ends' : f < h /\ HandsOver(j, f)'
      BY <1>3, <2>2 DEF HandedOver, HandsOver
    <3> QED
      BY <2>2, <3>1, OneMessageNext
  <2> QED
    BY <2>1, <2>2
<1>6. h \in DOMAIN sent' /\ sent'[h] = "close" /\ \A j \in 1..(h - 1) : sent'[j] # "close"
  BY <1>1 DEF Received
<1> QED
  BY <1>5, <1>6 DEF CleanCloseIsComplete

LEMMA NoNews ==
  ASSUME Typed, NEW e \in ClientEvent, NEW f \in ClientEvent,
         e.type # "message", f.type # "message",
         log' = log \/ log' = Report(<<e>>) \/ log' = Report(<<e, f>>)
  PROVE  NoMessage
<1>1. log \in Seq(ClientEvent) /\ Len(log) \in Nat /\ DOMAIN log = 1..Len(log)
  BY LenProperties DEF Typed, QueuesTyped
<1>2. CASE log' = log
  BY <1>1, <1>2 DEF NoMessage
<1>3. ASSUME NEW t \in Seq(ClientEvent), \A i \in DOMAIN t : t[i].type # "message",
             log' = log \o t
      PROVE  NoMessage
  <2>1. /\ Len(t) \in Nat /\ Len(log') = Len(log) + Len(t) /\ DOMAIN t = 1..Len(t)
        /\ DOMAIN log' = 1..(Len(log) + Len(t))
        /\ \A i \in 1..Len(log) : log'[i] = log[i]
        /\ \A i \in 1..Len(t) : log'[Len(log) + i] = t[i]
    <3>1. DOMAIN t = 1..Len(t)
      BY <1>3, LenProperties
    <3>2. log' = log \o t /\ log \in Seq(ClientEvent)
      BY <1>1, <1>3
    <3>3. /\ Len(t) \in Nat /\ DOMAIN log' = 1..(Len(log) + Len(t))
          /\ Len(log') = Len(log) + Len(t)
          /\ \A i \in 1..Len(log) : log'[i] = log[i]
          /\ \A i \in 1..Len(t) : log'[Len(log) + i] = t[i]
      BY <3>2, ConcatElements
    <3> QED
      BY <3>1, <3>3
  <2>2. ASSUME NEW i \in DOMAIN log', i > Len(log) PROVE log'[i].type # "message"
    <3>1. PICK k \in 1..Len(t) : i = Len(log) + k
      <4>1. i - Len(log) \in 1..Len(t) /\ i = Len(log) + (i - Len(log))
        <5>1. Len(log) \in Nat /\ Len(t) \in Nat /\ i \in 1..(Len(log) + Len(t)) /\ i > Len(log)
          BY <1>1, <2>1, <2>2
        <5> QED
          BY <5>1
      <4> QED
        BY <4>1
    <3> QED
      BY <1>3, <2>1, <3>1
  <2> QED
    BY <1>1, <2>1, <2>2 DEF NoMessage
<1>4. /\ <<e>> \in Seq(ClientEvent) /\ DOMAIN <<e>> = {1} /\ <<e>>[1] = e
      /\ <<e, f>> \in Seq(ClientEvent) /\ DOMAIN <<e, f>> = {1, 2}
      /\ <<e, f>>[1] = e /\ <<e, f>>[2] = f
  BY SingletonSeq, PairSeq, LenProperties
<1> QED
  BY <1>2, <1>3, <1>4 DEF Report

LEMMA FailNews ==
  ASSUME Typed, FieldsRemember, DidFailInternal
  PROVE  NoMessage /\ (Told("closeClean")' => Told("closeClean"))
<1>1. NoMessage
  BY FailFacts, NoNews, Events, "error" # "message", "closeUnclean" # "message"
<1>2. Told("closeClean")' => Told("closeClean")
  BY FailTold
<1> QED
  BY <1>1, <1>2

LEMMA CloseNews ==
  ASSUME Typed, FieldsRemember, state # "Closed",
         DidCloseInternal(<<>>, <<>>, Contract!CloseUnclean)
  PROVE  NoMessage /\ (Told("closeClean")' => Told("closeClean"))
<1>1. NoMessage
  BY CloseFacts, NoNews, Events, "closeUnclean" # "message"
<1>2. Told("closeClean")' => Told("closeClean")
  BY CloseTold
<1> QED
  BY <1>1, <1>2

LEMMA SameNews ==
  ASSUME Typed, log' = log
  PROVE  NoMessage /\ (Told("closeClean")' => Told("closeClean"))
BY Lengths DEF NoMessage, Told

\* What the server has said.
LEMMA WireTyped ==
  ASSUME Typed, Len(sent) <= MaxFrames
  PROVE  /\ Wire \in Units
         /\ Len(Wire) = (IF answered = "none" THEN 0 ELSE Len(sent) + 1)
         /\ answered # "none" => Wire[1] = [kind |-> answered, id |-> 0]
         /\ answered # "none" => \A k \in 1..Len(sent) :
              Wire[k + 1] = [kind |-> sent[k], id |-> k]
<1>1. /\ Len(sent) \in Nat /\ \A k \in 1..Len(sent) : sent[k] \in FrameKind
      /\ answered \in {"none", "accepted", "rejected"}
  BY LenProperties, ElementOfSeq DEF Typed, QueuesTyped, StatesTyped
<1>2. PICK n \in Nat : n = IF answered = "none" THEN 0 ELSE Len(sent) + 1
  BY <1>1
<1>3. /\ DOMAIN Wire = 1..n
      /\ \A k \in 1..n : Wire[k] = IF k = 1 THEN [kind |-> answered, id |-> 0]
                                   ELSE [kind |-> sent[k - 1], id |-> k - 1]
  BY <1>2 DEF Wire
<1>4. ASSUME NEW k \in 1..n PROVE Wire[k] \in GoodUnit
  <2>1. CASE k = 1
    <3>1. [kind |-> answered, id |-> 0] \in GoodUnit
      BY <1>1, <1>2, <1>4 DEF GoodUnit
    <3> QED
      BY <1>3, <2>1, <3>1
  <2>2. CASE k # 1
    <3>1. k - 1 \in 1..Len(sent) /\ k - 1 \in 1..MaxFrames
      BY <1>1, <1>2, <1>4, <2>2, BoundAssumption
    <3>2. [kind |-> sent[k - 1], id |-> k - 1] \in GoodUnit
      BY <1>1, <3>1 DEF GoodUnit
    <3> QED
      BY <1>3, <2>2, <3>2
  <2> QED
    BY <2>1, <2>2
<1>5. Wire \in [1..n -> GoodUnit]
  BY <1>3, <1>4 DEF Wire
<1>6. Wire \in Units /\ Len(Wire) = n
  BY <1>2, <1>5, SeqDef, LenProperties DEF Units
<1>7. ASSUME answered # "none"
      PROVE  /\ Wire[1] = [kind |-> answered, id |-> 0]
             /\ \A k \in 1..Len(sent) : Wire[k + 1] = [kind |-> sent[k], id |-> k]
  <2>1. n = Len(sent) + 1 /\ 1 \in 1..n
    BY <1>1, <1>2, <1>7
  <2>2. \A k \in 1..Len(sent) : k + 1 \in 1..n /\ k + 1 # 1 /\ (k + 1) - 1 = k
    BY <1>1, <2>1
  <2> QED
    BY <1>3, <2>1, <2>2
<1> QED
  BY <1>2, <1>6, <1>7

-----------------------------------------------------------------------------
(* The messages: the way of the bytes *)

LEMMA WireTypedNext ==
  (Typed /\ Len(sent) <= MaxFrames =>
     /\ Wire \in Units
     /\ Len(Wire) = (IF answered = "none" THEN 0 ELSE Len(sent) + 1)
     /\ answered # "none" => Wire[1] = [kind |-> answered, id |-> 0]
     /\ answered # "none" => \A k \in 1..Len(sent) :
          Wire[k + 1] = [kind |-> sent[k], id |-> k])'
<1>1. Typed /\ Len(sent) <= MaxFrames =>
        /\ Wire \in Units
        /\ Len(Wire) = (IF answered = "none" THEN 0 ELSE Len(sent) + 1)
        /\ answered # "none" => Wire[1] = [kind |-> answered, id |-> 0]
        /\ answered # "none" => \A k \in 1..Len(sent) :
             Wire[k + 1] = [kind |-> sent[k], id |-> k]
  BY WireTyped
<1> QED
  BY <1>1, PTL

\* What the way of the bytes rests on: the scheduler lists the channel while it has its
\* stream, no stream is there before it is created, only data carries bytes, and frames
\* follow an accepting response.
Plumbing ==
  /\ listed <=> streamID
  /\ Queued("create") => stream = "none"
  /\ \A i \in DOMAIN callbacks : callbacks[i].type # "data" => callbacks[i].units = <<>>
  /\ answered # "accepted" => sent = <<>>
  /\ Len(sent) <= MaxFrames

LEMMA NoCreate ==
  ASSUME NEW s \in Seq(Task), NEW x \in Task, x # "create",
         NEW i \in DOMAIN Append(s, x), Append(s, x)[i] = "create"
  PROVE  \E k \in DOMAIN s : s[k] = "create"
<1>1. /\ Len(s) \in Nat /\ DOMAIN s = 1..Len(s) /\ DOMAIN Append(s, x) = 1..(Len(s) + 1)
      /\ \A k \in 1..Len(s) : Append(s, x)[k] = s[k]
      /\ Append(s, x)[Len(s) + 1] = x
  BY OneMore
<1>2. i \in 1..Len(s)
  BY <1>1
<1> QED
  BY <1>1, <1>2

\* Steps that queue at most one more task, none of them the first.
LEMMA WorkPlumbing ==
  ASSUME Typed, Plumbing, OldCallbacks, NEW x \in Written,
         tasks' \in {tasks, Append(tasks, x)},
         UNCHANGED <<listed, streamID, stream, answered, sent>>
  PROVE  Plumbing'
<1>1. Queued("create")' => Queued("create")
  <2>1. tasks \in Seq(Task) /\ x \in Task /\ x # "create"
    BY Goodness DEF Typed, QueuesTyped, Written
  <2>2. CASE tasks' = tasks
    BY <2>2 DEF Queued
  <2>3. CASE tasks' = Append(tasks, x)
    BY <2>1, <2>3, NoCreate DEF Queued
  <2> QED
    BY <2>2, <2>3
<1> QED
  BY <1>1 DEF Plumbing, OldCallbacks

LEMMA DestructPlumbing ==
  ASSUME Typed, Plumbing, OldCallbacks, NEW queued, DestructStream(queued),
         queued = <<>> \/ queued = SendFrame("close"),
         UNCHANGED <<stream, answered, sent>>
  PROVE  Plumbing'
<1> DEFINE base == tasks \o queued
<1>1. tasks \in Seq(Task) /\ "close" \in Written /\ <<>> \in Seq(Task) /\ "destroy" \in Task
      /\ "close" \in Task
  BY EmptySeq DEF Typed, QueuesTyped, Written, Task
<1>2. queued \in Seq(Task) /\ base \in Seq(Task) /\ (base = tasks \/ base = Append(tasks, "close"))
  BY <1>1, FrameSent, ConcatEmptySeq DEF Typed, FlagsTyped
<1>3. tasks' = Append(base, "destroy") \/ tasks' = base
  BY <1>2, DestructTasks DEF Typed, FlagsTyped
<1>4. streamID' = FALSE /\ listed' = FALSE
  BY DEF DestructStream, Plumbing
<1> HIDE DEF base
<1>5. (\E i \in DOMAIN base : base[i] = "create") => Queued("create")
  BY <1>1, <1>2, NoCreate DEF Queued
<1>6. Queued("create")' => \E i \in DOMAIN base : base[i] = "create"
  BY <1>1, <1>2, <1>3, NoCreate DEF Queued
<1> QED
  BY <1>4, <1>5, <1>6 DEF Plumbing, OldCallbacks

\* One pass of the pump over a stream: nothing new, or one more callback.
Passes ==
  \/ /\ callbacks' = callbacks /\ inbound' = inbound
     /\ stream' # "dead" => stream # "dead" \/ Queued("destroy")
  \/ \E c \in GoodCallback :
       /\ callbacks' = Append(callbacks, c) /\ c.units = <<>>
       /\ stream' # "dead" => stream # "dead" /\ inbound' = inbound
  \/ \E c \in GoodCallback, n \in 1..Len(inbound) :
       /\ stream # "dead" /\ callbacks' = Append(callbacks, c) /\ c.type = "data"
       /\ c.units = SubSeq(inbound, 1, n) /\ inbound' = SubSeq(inbound, n + 1, Len(inbound))

LEMMA PumpPasses ==
  ASSUME Typed, Plumbing, PumpMainThread
  PROVE  Passes
<1>1. stream = "dead" =>
        StreamAfterTasks = "dead" \/ (StreamAfterTasks = "none" /\ Queued("destroy"))
  BY DEF StreamAfterTasks, Plumbing, Queued, ToSet
<1>2. <<>> \in Seq(GoodUnit) /\ Len(inbound) \in Nat /\ inbound \in Seq(GoodUnit)
  BY EmptySeq, LenProperties DEF Typed, QueuesTyped
<1>3. ASSUME NEW type \in {"open", "data", "fail"}, NEW units \in Seq(GoodUnit),
             callbacks' = Call(type, units)
      PROVE  \E c \in GoodCallback :
               c.type = type /\ c.units = units /\ callbacks' = Append(callbacks, c)
  <2>1. [type |-> type, units |-> units] \in GoodCallback
    BY DEF GoodCallback
  <2> QED
    BY <1>3, <2>1 DEF Call
<1>a. ASSUME NEW type \in {"open", "data", "fail"}, callbacks' = Call(type, <<>>)
      PROVE  \E c \in GoodCallback : c.units = <<>> /\ callbacks' = Append(callbacks, c)
  <2>1. [type |-> type, units |-> <<>>] \in GoodCallback
    BY <1>2 DEF GoodCallback
  <2>2. callbacks' = Append(callbacks, [type |-> type, units |-> <<>>])
    BY <1>a DEF Call
  <2> QED
    BY <2>1, <2>2
<1>b. /\ callbacks' = Call("open", <<>>) \/ callbacks' = Call("data", <<>>)
         \/ callbacks' = Call("fail", <<>>) =>
           \E c \in GoodCallback : c.units = <<>> /\ callbacks' = Append(callbacks, c)
      /\ \A units \in Seq(GoodUnit) : callbacks' = Call("data", units) =>
           \E c \in GoodCallback :
             c.type = "data" /\ c.units = units /\ callbacks' = Append(callbacks, c)
  BY <1>3, <1>a
<1>4. CASE TryToConnect
  <2>1. StreamAfterTasks = "connecting" /\ inbound' = inbound /\ stream # "dead"
    BY <1>1, <1>4 DEF TryToConnect
  <2>2. CASE peer = "pending"
    <3>1. callbacks' = callbacks
      BY <1>4, <2>2, Zenon DEF TryToConnect
    <3> QED
      BY <2>1, <3>1 DEF Passes
  <2>3. CASE peer # "pending"
    <3>1. callbacks' = Call("fail", <<>>) \/ callbacks' = Call("open", <<>>)
      BY <1>4, <2>3 DEF TryToConnect, NotifyFailure
    <3>2. PICK c \in GoodCallback : c.units = <<>> /\ callbacks' = Append(callbacks, c)
      BY <1>b, <3>1
    <3> QED
      BY <2>1, <3>2 DEF Passes
  <2> QED
    BY <2>2, <2>3
<1>5. CASE TryToReceive
  <2>1. StreamAfterTasks = "up" /\ stream # "dead"
    BY <1>1, <1>5 DEF TryToReceive
  <2>2. CASE peer = "reset"
    <3>1. stream' = "dead" /\ callbacks' = Call("fail", <<>>)
      BY <1>5, <2>2, Zenon DEF TryToReceive, NotifyFailure
    <3>2. PICK c \in GoodCallback : c.units = <<>> /\ callbacks' = Append(callbacks, c)
      BY <1>b, <3>1
    <3> QED
      BY <3>1, <3>2 DEF Passes
  <2>3. CASE peer # "reset" /\ inbound # <<>>
    <3>1. PICK n \in 1..Len(inbound) :
            /\ callbacks' = Call("data", SubSeq(inbound, 1, n))
            /\ inbound' = SubSeq(inbound, n + 1, Len(inbound))
            /\ stream' = "up"
      BY <1>5, <2>3 DEF TryToReceive
    <3>2. SubSeq(inbound, 1, n) \in Seq(GoodUnit)
      BY <1>2, SubSeqProperties
    <3>3. PICK c \in GoodCallback : /\ c.type = "data" /\ c.units = SubSeq(inbound, 1, n)
                                    /\ callbacks' = Append(callbacks, c)
      BY <1>b, <3>1, <3>2
    <3> QED
      BY <2>1, <3>1, <3>3 DEF Passes
  <2>4. CASE peer = "fin" /\ inbound = <<>>
    <3>1. stream' = "dead" /\ callbacks' = Call("data", <<>>)
      BY <1>5, <2>4, Zenon DEF TryToReceive
    <3>2. PICK c \in GoodCallback : c.units = <<>> /\ callbacks' = Append(callbacks, c)
      BY <1>b, <3>1
    <3> QED
      BY <3>1, <3>2 DEF Passes
  <2>5. CASE peer # "reset" /\ inbound = <<>> /\ peer # "fin"
    <3>1. callbacks' = callbacks /\ inbound' = inbound
      BY <1>5, <2>5, Zenon DEF TryToReceive
    <3> QED
      BY <2>1, <3>1 DEF Passes
  <2> QED
    BY <2>2, <2>3, <2>4, <2>5
<1>6. CASE NothingToTransfer
  <2>1. callbacks' = callbacks /\ inbound' = inbound /\ stream' = StreamAfterTasks
    BY <1>6 DEF NothingToTransfer
  <2> QED
    BY <1>1, <2>1 DEF Passes
<1> QED
  BY <1>4, <1>5, <1>6 DEF PumpMainThread

LEMMA PumpPlumbing ==
  ASSUME Typed, Plumbing, PumpMainThread
  PROVE  Plumbing'
<1>1. /\ Passes /\ tasks' = <<>> /\ DOMAIN tasks' = {}
      /\ UNCHANGED <<listed, streamID, answered, sent>>
  BY PumpPasses DEF PumpMainThread
<1>2. ASSUME NEW c \in GoodCallback, callbacks' = Append(callbacks, c),
             c.type # "data" => c.units = <<>>, NEW i \in DOMAIN callbacks'
      PROVE  callbacks'[i].type # "data" => callbacks'[i].units = <<>>
  <2>1. /\ Len(callbacks) \in Nat /\ DOMAIN callbacks = 1..Len(callbacks)
        /\ DOMAIN callbacks' = 1..(Len(callbacks) + 1)
        /\ \A k \in 1..Len(callbacks) : callbacks'[k] = callbacks[k]
        /\ callbacks'[Len(callbacks) + 1] = c
    BY <1>2, OneMore DEF Typed, QueuesTyped
  <2>2. i \in 1..Len(callbacks) \/ i = Len(callbacks) + 1
    BY <1>2, <2>1
  <2> QED
    BY <1>2, <2>1, <2>2 DEF Plumbing
<1>3. \A i \in DOMAIN callbacks' : callbacks'[i].type # "data" => callbacks'[i].units = <<>>
  BY <1>1, <1>2 DEF Passes, Plumbing
<1> QED
  BY <1>1, <1>3 DEF Plumbing, Queued

LEMMA StepPlumbing ==
  ASSUME Typed, StreamLife, Plumbing
  PROVE  [Next]_vars => Plumbing'
<1>a. callbacks' = callbacks => OldCallbacks
  BY DEF OldCallbacks
<1>b. ASSUME NEW opcode \in Written
      PROVE  tasks \o SendFrame(opcode) \in {tasks, Append(tasks, opcode)}
  BY FrameSent DEF Typed, FlagsTyped
<1>c. /\ "request" \in Written /\ "message" \in Written /\ "pong" \in Written
      /\ "close" \in Written
  BY DEF Written
<1>d. ASSUME DidFailInternal, OldCallbacks, UNCHANGED <<stream, answered, sent>>
      PROVE  Plumbing'
  BY <1>d, FailFacts, DestructPlumbing
<1>e. ASSUME DidCloseInternal(<<>>, <<>>, Contract!CloseUnclean), OldCallbacks,
             UNCHANGED <<stream, answered, sent>>
      PROVE  Plumbing'
  BY <1>e, DestructPlumbing DEF DidCloseInternal
<1>f. ASSUME OldCallbacks, UNCHANGED <<tasks, listed, streamID, stream, answered, sent>>
      PROVE  Plumbing'
  BY <1>c, <1>f, WorkPlumbing
<1>1. ASSUME Connect PROVE Plumbing'
  <2>1. stream = "none"
    BY <1>1 DEF Connect, StreamLife
  <2> QED
    BY <1>1, <2>1 DEF Connect, Plumbing
<1>2. ASSUME Send PROVE Plumbing'
  <2>1. OldCallbacks /\ UNCHANGED <<stream, answered, sent>>
    BY <1>2, <1>a DEF Send
  <2>2. CASE /\ tasks' = tasks \o SendFrame("message")
             /\ UNCHANGED <<state, streamID, receiveVars, receivedFail, listed, log>>
    BY <2>1, <2>2, <1>b, <1>c, WorkPlumbing
  <2>3. CASE DidFailInternal
    BY <2>1, <2>3, <1>d
  <2> QED
    BY <1>2, <2>2, <2>3 DEF Send
<1>3. ASSUME CloseEarly PROVE Plumbing'
  BY <1>3, <1>a, <1>e DEF CloseEarly
<1>4. ASSUME CloseOpened PROVE Plumbing'
  <2>1. /\ tasks' = tasks \o SendFrame("close") /\ OldCallbacks
        /\ UNCHANGED <<listed, streamID, stream, answered, sent>>
    BY <1>4, <1>a DEF CloseOpened
  <2> QED
    BY <2>1, <1>b, <1>c, WorkPlumbing
<1>5. ASSUME Fail PROVE Plumbing'
  BY <1>5, <1>a, <1>d DEF Fail
<1>6. ASSUME Disconnect PROVE Plumbing'
  <2>1. DestructStream(<<>>) /\ OldCallbacks /\ UNCHANGED <<stream, answered, sent>>
    BY <1>6, <1>a DEF Disconnect
  <2> QED
    BY <2>1, DestructPlumbing
<1>7. ASSUME IgnoreCallback PROVE Plumbing'
  BY <1>7, <1>f, DeliveredOld DEF IgnoreCallback
<1>8. ASSUME DidOpen PROVE Plumbing'
  <2>1. /\ tasks' = Append(tasks, "request") /\ OldCallbacks
        /\ UNCHANGED <<listed, streamID, stream, answered, sent>>
    BY <1>8, DeliveredOld DEF DidOpen
  <2> QED
    BY <2>1, <1>c, WorkPlumbing
<1>9. ASSUME DidReceiveShutdown PROVE Plumbing'
  BY <1>9, <1>e, DeliveredOld DEF DidReceiveShutdown
<1>10. ASSUME DidReceiveData PROVE Plumbing'
  BY <1>10, <1>f, DeliveredOld DEF DidReceiveData
<1>11. ASSUME DidFail PROVE Plumbing'
  BY <1>11, <1>d, DeliveredOld DEF DidFail
<1>12. ASSUME ReceiveDone \/ ReceiveHandshake \/ ReceiveMessage PROVE Plumbing'
  BY <1>12, <1>a, <1>f DEF ReceiveDone, ReceiveHandshake, ReceiveMessage
<1>13. ASSUME RejectHandshake \/ ReceiveRejected PROVE Plumbing'
  BY <1>13, <1>a, <1>d DEF RejectHandshake, ReceiveRejected
<1>14. ASSUME ReceivePing PROVE Plumbing'
  <2>1. /\ tasks' = tasks \o SendFrame("pong") /\ OldCallbacks
        /\ UNCHANGED <<listed, streamID, stream, answered, sent>>
    BY <1>14, <1>a DEF ReceivePing
  <2> QED
    BY <2>1, <1>b, <1>c, WorkPlumbing
<1>15. ASSUME ReceiveClose PROVE Plumbing'
  <2>1. DestructStream(SendFrame("close")) /\ OldCallbacks /\ UNCHANGED <<stream, answered, sent>>
    BY <1>15, <1>a DEF ReceiveClose, DidCloseInternal
  <2> QED
    BY <2>1, DestructPlumbing
<1>16. ASSUME PumpMainThread PROVE Plumbing'
  BY <1>16, PumpPlumbing
<1>17. ASSUME AnswerConnect \/ EndConnection \/ UNCHANGED vars PROVE Plumbing'
  BY <1>17, <1>a, <1>f DEF AnswerConnect, EndConnection, EngineUnchanged
<1>18. ASSUME SendHandshake PROVE Plumbing'
  BY <1>18 DEF SendHandshake, EngineUnchanged, Plumbing, Queued
<1>19. ASSUME SendServerFrame PROVE Plumbing'
  <2>1. PICK kind \in Kinds : sent' = Append(sent, kind)
    BY <1>19 DEF SendServerFrame
  <2>2. Len(sent') = Len(sent) + 1 /\ Len(sent) \in Nat /\ Len(sent) < MaxFrames
    <3>1. kind \in FrameKind
      BY KindAssumption
    <3> QED
      BY <1>19, <2>1, <3>1, AppendFacts, LenProperties DEF Typed, QueuesTyped, SendServerFrame
  <2>3. Len(sent') <= MaxFrames
    BY <2>2, BoundAssumption
  <2>4. answered' = "accepted" /\ UNCHANGED <<listed, streamID, tasks, stream, callbacks>>
    BY <1>19 DEF SendServerFrame, EngineUnchanged
  <2> QED
    BY <2>3, <2>4 DEF Plumbing, Queued
<1> QED
  BY <1>1, <1>2, <1>3, <1>4, <1>5, <1>6, <1>7, <1>8, <1>9, <1>10, <1>11, <1>12, <1>13,
     <1>14, <1>15, <1>16, <1>17, <1>18, <1>19
  DEF Next, Callbacks, Receive

LEMMA PumpWay ==
  ASSUME Typed, StreamLife, Plumbing, state # "Closed", PumpMainThread,
         NEW h \in Nat, NEW wire \in Units,
         OnTheWay(h, buffer, callbacks, inbound, stream, wire)
  PROVE  OnTheWay(h, buffer, callbacks', inbound', stream', wire)
<1>1. Passes /\ ~Queued("destroy")
  BY PumpPasses DEF StreamLife, Queued
<1>2. buffer \in Units /\ callbacks \in Seq(GoodCallback) /\ inbound \in Units
  BY DEF Typed, QueuesTyped, Units
<1>3. CASE callbacks' = callbacks /\ inbound' = inbound /\ (stream' # "dead" => stream # "dead")
  BY <1>3, Lost
<1>4. ASSUME NEW c \in GoodCallback, callbacks' = Append(callbacks, c), c.units = <<>>,
             stream' # "dead" => stream # "dead" /\ inbound' = inbound
      PROVE  OnTheWay(h, buffer, callbacks', inbound', stream', wire)
  <2>1. inbound' \in Units
    BY PumpTyped DEF Units
  <2> QED
    BY <1>2, <1>4, <2>1, Called
<1>5. ASSUME NEW c \in GoodCallback, NEW n \in 1..Len(inbound), stream # "dead",
             callbacks' = Append(callbacks, c), c.units = SubSeq(inbound, 1, n),
             inbound' = SubSeq(inbound, n + 1, Len(inbound))
      PROVE  OnTheWay(h, buffer, callbacks', inbound', stream', wire)
  <2>1. Len(inbound) \in Nat /\ n \in Nat /\ inbound \in Seq(GoodUnit)
        /\ \A i \in 1..Len(inbound) : inbound[i] \in GoodUnit
    BY <1>2, LenProperties, ElementOfSeq DEF Units
  <2>2. /\ Len(c.units) = n /\ \A i \in 1..n : c.units[i] = inbound[i]
    <3>1. /\ Len(SubSeq(inbound, 1, n)) = IF 1 <= n THEN n - 1 + 1 ELSE 0
          /\ \A i \in 1..(n - 1 + 1) : SubSeq(inbound, 1, n)[i] = inbound[1 + i - 1]
      BY <2>1, SubSeqProperties
    <3>2. n - 1 + 1 = n /\ 1 <= n /\ \A i \in 1..n : 1 + i - 1 = i
      OBVIOUS
    <3>3. Len(SubSeq(inbound, 1, n)) = n
      BY <3>1, <3>2
    <3>4. ASSUME NEW i \in 1..n PROVE SubSeq(inbound, 1, n)[i] = inbound[i]
      BY <3>1, <3>2
    <3> QED
      BY <1>5, <3>3, <3>4
  <2>3. /\ inbound' \in Units /\ Len(inbound') = Len(inbound) - n
        /\ \A i \in 1..Len(inbound') : inbound'[i] = inbound[n + i]
    <3>1. /\ inbound' \in Seq(GoodUnit)
          /\ Len(inbound') = IF n + 1 <= Len(inbound) THEN Len(inbound) - (n + 1) + 1 ELSE 0
          /\ \A i \in 1..(Len(inbound) - (n + 1) + 1) : inbound'[i] = inbound[(n + 1) + i - 1]
      BY <1>5, <2>1, SubSeqProperties
    <3>2. ASSUME NEW l \in Nat, NEW k \in 1..l, NEW m,
                 m = IF k + 1 <= l THEN l - (k + 1) + 1 ELSE 0
          PROVE  m = l - k /\ l - (k + 1) + 1 = l - k
      BY <3>2
    <3>3. Len(inbound') = Len(inbound) - n /\ Len(inbound) - (n + 1) + 1 = Len(inbound) - n
      BY <2>1, <3>1, <3>2
    <3>4. ASSUME NEW i \in 1..Len(inbound') PROVE inbound'[i] = inbound[n + i]
      <4>1. (n + 1) + i - 1 = n + i
        BY <2>1, <3>3
      <4> QED
        BY <3>1, <3>3, <3>4, <4>1
    <3> QED
      BY <3>1, <3>3, <3>4 DEF Units
  <2>4. Len(inbound) = Len(c.units) + Len(inbound')
    BY <2>1, <2>2, <2>3
  <2> DEFINE inb == inbound'
             str == stream'
             cbs == callbacks'
  <2>5. inb \in Units /\ stream # "dead" /\ cbs = Append(callbacks, c)
    BY <1>5, <2>3
  <2>6. /\ Len(inbound) = Len(c.units) + Len(inb)
        /\ \A i \in 1..Len(c.units) : c.units[i] = inbound[i]
        /\ \A i \in 1..Len(inb) : inb[i] = inbound[Len(c.units) + i]
    BY <2>2, <2>3, <2>4
  <2> HIDE DEF inb, str, cbs
  <2>7. OnTheWay(h, buffer, cbs, inb, str, wire)
    BY <1>2, <2>5, <2>6, Called
  <2> QED
    BY <2>7 DEF inb, str, cbs
<1> QED
  BY <1>1, <1>3, <1>4, <1>5 DEF Passes


-----------------------------------------------------------------------------
(* The messages: each of them reaches the client *)

\* The client has parsed h things, and what follows is on its way to it.
Parsed(h) ==
  /\ handshakeDone <=> h # 0
  /\ Received(h)
  /\ OnTheWay(h, buffer, callbacks, inbound, stream, Wire)

InProgress == state # "Closed" => \E h \in Nat : Parsed(h)

Delivering == MessagesInOrder /\ CleanCloseIsComplete /\ InProgress

DInv == Plumbing /\ Delivering

LEMMA ParsedBounds ==
  ASSUME Typed, Plumbing, NEW h \in Nat, OnTheWay(h, buffer, callbacks, inbound, stream, Wire)
  PROVE  h <= Len(Wire) /\ h <= Len(sent) + 1 /\ Wire \in Units
<1>1. /\ Wire \in Units /\ Len(Wire) \in Nat /\ Len(buffer) \in Nat /\ Len(sent) \in Nat
      /\ Len(Wire) = (IF answered = "none" THEN 0 ELSE Len(sent) + 1)
  <2>1. Wire \in Units /\ Len(Wire) = (IF answered = "none" THEN 0 ELSE Len(sent) + 1)
    BY WireTyped DEF Plumbing
  <2>2. Len(Wire) \in Nat /\ Len(buffer) \in Nat /\ Len(sent) \in Nat
    BY <2>1, LenProperties DEF Typed, QueuesTyped, Units
  <2> QED
    BY <2>1, <2>2
<1>2. 2 * h + Len(buffer) <= 2 * Len(Wire)
  <2>1. PICK pos : Placed(pos, h, buffer, callbacks, inbound, stream, Wire)
    BY DEF OnTheWay
  <2> QED
    BY <2>1 DEF Placed, Stand
<1>3. h <= Len(Wire)
  BY <1>1, <1>2
<1> QED
  BY <1>1, <1>3

LEMMA SameWire ==
  ASSUME UNCHANGED <<answered, sent>>
  PROVE  Wire' = Wire
BY DEF Wire

LEMMA SameSent ==
  ASSUME Typed, sent' = sent
  PROVE  SentGrows
BY Lengths DEF SentGrows

\* The step after which the channel is closed, with or without callbacks.
LEMMA Leaves ==
  ASSUME Typed, Typed', Delivering, sent' = sent, state' = "Closed",
         NoMessage, Told("closeClean")' => Told("closeClean")
  PROVE  Delivering'
<1>1. MessagesInOrder' /\ CleanCloseIsComplete'
  BY KeepsOrder, KeepsClean, SameSent DEF Delivering
<1>2. InProgress'
  BY DEF InProgress
<1> QED
  BY <1>1, <1>2 DEF Delivering

\* The client is told nothing, and what is on its way moves along or grows.
LEMMA MovesOn ==
  ASSUME Typed, Typed', Plumbing, Delivering, SentGrows, log' = log,
         state' # "Closed" => state # "Closed",
         UNCHANGED <<handshakeDone, hasContinuous, continuousData>>,
         state # "Closed" => \A h \in Nat :
           OnTheWay(h, buffer, callbacks, inbound, stream, Wire) =>
             OnTheWay(h, buffer', callbacks', inbound', stream', Wire')
  PROVE  Delivering'
<1>1. MessagesInOrder' /\ CleanCloseIsComplete' /\ NoMessage
  BY KeepsOrder, KeepsClean, SameNews DEF Delivering
<1>2. ASSUME state' # "Closed" PROVE \E h \in Nat : Parsed(h)'
  <2>1. PICK h \in Nat : Parsed(h)
    BY <1>2 DEF Delivering, InProgress
  <2>2. h <= Len(sent) + 1 /\ OnTheWay(h, buffer', callbacks', inbound', stream', Wire')
    BY <1>2, <2>1, ParsedBounds DEF Parsed
  <2>3. Received(h)'
    BY <1>1, <2>1, <2>2, KeepsReceived DEF Parsed, Delivering
  <2> QED
    BY <2>1, <2>2, <2>3 DEF Parsed
<1>3. InProgress'
  BY <1>2 DEF InProgress
<1> QED
  BY <1>1, <1>3 DEF Delivering


\* A callback that brings nothing, while the channel lives.
LEMMA EmptyTaken ==
  ASSUME Typed, Head(callbacks).units = <<>>, callbacks # <<>>, NEW h \in Nat,
         NEW wire \in Units,
         OnTheWay(h, buffer, callbacks, inbound, stream, wire)
  PROVE  OnTheWay(h, buffer, Tail(callbacks), inbound, stream, wire)
<1>1. buffer \in Units /\ callbacks \in Seq(GoodCallback) /\ inbound \in Units
  BY DEF Typed, QueuesTyped, Units
<1>2. OnTheWay(h, buffer \o Head(callbacks).units, Tail(callbacks), inbound, stream, wire)
  BY <1>1, Taken
<1>3. buffer \o Head(callbacks).units = buffer
  BY <1>1, ConcatEmptySeq DEF Units
<1> QED
  BY <1>2, <1>3

LEMMA IgnoredEmpty ==
  ASSUME Typed, StreamLife, FieldsRemember, AnswerFirst, Plumbing, state # "Closed",
         IgnoreCallback
  PROVE  Head(callbacks).units = <<>>
<1>1. PICK type \in {"open", "data", "fail"} : Deliver(type)
  BY DEF IgnoreCallback
<1>2. /\ callbacks # <<>> /\ 1 \in DOMAIN callbacks /\ Head(callbacks) = callbacks[1]
      /\ Head(callbacks).type = type
  BY <1>1, DeliverFacts
<1>3. CASE ~listed
  BY <1>2, <1>3 DEF Plumbing, StreamLife
<1>4. CASE type # "data"
  BY <1>2, <1>4 DEF Plumbing
<1>5. CASE type = "data" /\ state = "Connecting"
  <2>1. answered = "none"
    BY <1>5 DEF StreamLife, AnswerFirst, Typed, StatesTyped
  <2> QED
    BY <1>2, <2>1 DEF AnswerFirst
<1>6. CASE type = "data" /\ (discard \/ receivedClose)
  BY <1>6 DEF FieldsRemember
<1>7. Ignored(Head(callbacks))
  BY DEF IgnoreCallback
<1> QED
  BY <1>2, <1>3, <1>4, <1>5, <1>6, <1>7 DEF Ignored

\* The server's opening response, the first thing it says.
LEMMA HandshakeSaid ==
  ASSUME Typed, Typed', Plumbing, Plumbing', SendHandshake, NEW h \in Nat,
         OnTheWay(h, buffer, callbacks, inbound, stream, Wire)
  PROVE  OnTheWay(h, buffer, callbacks, inbound', stream, Wire')
<1>1. /\ answered = "none" /\ answered' # "none" /\ sent' = sent
      /\ inbound' = inbound \o <<[kind |-> "half", id |-> 0], [kind |-> answered', id |-> 0]>>
  BY DEF SendHandshake, ServerSends
<1>2. Wire \in Units /\ Len(Wire) = 0
  BY <1>1, WireTyped DEF Plumbing
<1>3. sent = <<>> /\ Len(sent) = 0
  BY <1>1, EmptySeq DEF Plumbing
<1>4. Wire' \in Units /\ Len(Wire') = 1 /\ Wire'[1] = [kind |-> answered', id |-> 0]
  BY <1>1, <1>3, WireTypedNext DEF Plumbing
<1> DEFINE more == Wire'
           half == [kind |-> "half", id |-> 0]
<1>5. /\ more \in Units /\ Len(more) = Len(Wire) + 1 /\ half \in GoodUnit
      /\ \A k \in 1..Len(Wire) : more[k] = Wire[k]
      /\ inbound' = inbound \o <<half, more[Len(Wire) + 1]>>
  BY <1>1, <1>2, <1>4 DEF GoodUnit
<1>6. buffer \in Units /\ callbacks \in Seq(GoodCallback) /\ inbound \in Units
  BY DEF Typed, QueuesTyped, Units
<1> HIDE DEF more, half
<1>7. OnTheWay(h, buffer, callbacks, inbound \o <<half, more[Len(Wire) + 1]>>, stream, more)
  BY <1>2, <1>5, <1>6, Said
<1> QED
  BY <1>5, <1>7 DEF more

\* Another frame.
LEMMA FrameSaid ==
  ASSUME Typed, Typed', Plumbing, Plumbing', SendServerFrame
  PROVE  /\ SentGrows
         /\ \A h \in Nat : OnTheWay(h, buffer, callbacks, inbound, stream, Wire) =>
              OnTheWay(h, buffer, callbacks, inbound', stream, Wire')
<1>1. PICK kind \in Kinds : sent' = Append(sent, kind) /\ ServerSends(kind, Len(sent) + 1)
  BY DEF SendServerFrame
<1> DEFINE n == Len(sent)
           half == [kind |-> "half", id |-> 0]
           more == Wire'
<1>2. /\ n \in Nat /\ Len(sent') = n + 1 /\ sent'[n + 1] = kind
      /\ \A k \in 1..n : sent'[k] = sent[k]
  <2>1. kind \in FrameKind /\ sent \in Seq(FrameKind)
    BY KindAssumption DEF Typed, QueuesTyped
  <2> QED
    BY <1>1, <2>1, OneMore
<1>3. answered = "accepted" /\ answered' = answered
  BY DEF SendServerFrame
<1>4. inbound' = inbound \o <<half, [kind |-> kind, id |-> n + 1]>>
  BY <1>1 DEF ServerSends
<1>5. /\ Wire \in Units /\ Len(Wire) = n + 1 /\ Wire[1] = [kind |-> answered, id |-> 0]
      /\ \A k \in 1..n : Wire[k + 1] = [kind |-> sent[k], id |-> k]
  BY <1>3, WireTyped DEF Plumbing
<1>6. /\ more \in Units /\ Len(more) = (n + 1) + 1 /\ more[1] = [kind |-> answered, id |-> 0]
      /\ \A k \in 1..(n + 1) : more[k + 1] = [kind |-> sent'[k], id |-> k]
  BY <1>2, <1>3, WireTypedNext DEF Plumbing
<1> HIDE DEF n, half, more
<1>7. \A k \in 1..Len(Wire) : more[k] = Wire[k]
  <2>1. ASSUME NEW k \in 1..Len(Wire), k # 1 PROVE more[k] = Wire[k]
    <3>1. PICK j \in 1..n : k = j + 1
      <4>1. k - 1 \in 1..n /\ k = (k - 1) + 1
        BY <1>2, <1>5, <2>1
      <4> QED
        BY <4>1
    <3>2. j \in 1..(n + 1)
      BY <1>2
    <3>3. Wire[j + 1] = [kind |-> sent[j], id |-> j]
      BY <1>5
    <3>4. more[j + 1] = [kind |-> sent'[j], id |-> j]
      BY <1>6, <3>2
    <3>5. sent'[j] = sent[j]
      BY <1>2
    <3> QED
      BY <3>1, <3>3, <3>4, <3>5
  <2> QED
    BY <1>5, <1>6, <2>1
<1>8. more[Len(Wire) + 1] = [kind |-> kind, id |-> n + 1]
  <2>1. n + 1 \in 1..(n + 1)
    BY <1>2
  <2> QED
    BY <1>2, <1>5, <1>6, <2>1
<1>9. buffer \in Units /\ callbacks \in Seq(GoodCallback) /\ inbound \in Units /\ half \in GoodUnit
  BY DEF Typed, QueuesTyped, Units, GoodUnit, half
<1>10. ASSUME NEW h \in Nat, OnTheWay(h, buffer, callbacks, inbound, stream, Wire)
       PROVE  OnTheWay(h, buffer, callbacks, inbound', stream, Wire')
  <2>1. OnTheWay(h, buffer, callbacks, inbound \o <<half, more[Len(Wire) + 1]>>, stream, more)
    BY <1>5, <1>6, <1>7, <1>9, <1>10, Said
  <2> QED
    BY <1>4, <1>8, <2>1 DEF more
<1>11. SentGrows
  BY <1>2 DEF SentGrows, n
<1> QED
  BY <1>10, <1>11


\* What has been parsed is the next thing the server said.
LEMMA ReadsOn ==
  ASSUME Typed, Plumbing, ~Incomplete, NEW h \in Nat, Parsed(h), buffer' = Skipped,
         UNCHANGED <<callbacks, inbound, stream, answered, sent>>
  PROVE  /\ OnTheWay(h + 1, buffer', callbacks', inbound', stream', Wire')
         /\ h # 0 => /\ h \in Nat \ {0} /\ h \in 1..Len(sent)
                     /\ buffer[2].kind = sent[h] /\ buffer[2].id = h
<1>1. /\ buffer \in Units /\ callbacks \in Seq(GoodCallback) /\ inbound \in Units
      /\ Len(buffer) >= 2 /\ Wire \in Units
  <2>1. Len(buffer) \in Nat
    BY LenProperties DEF Typed, QueuesTyped
  <2> QED
    BY <2>1, ParsedBounds DEF Typed, QueuesTyped, Units, Incomplete, Parsed
<1>2. OnTheWay(h, buffer, callbacks, inbound, stream, Wire)
  BY DEF Parsed
<1>3. /\ h + 1 \in 1..Len(Wire) /\ buffer[2] = Wire[h + 1]
      /\ OnTheWay(h + 1, SubSeq(buffer, 3, Len(buffer)), callbacks, inbound, stream, Wire)
  BY <1>1, <1>2, Read
<1>4. OnTheWay(h + 1, buffer', callbacks', inbound', stream', Wire')
  BY <1>3, SameWire DEF Skipped
<1>5. ASSUME h # 0
      PROVE  /\ h \in 1..Len(sent) /\ buffer[2].kind = sent[h] /\ buffer[2].id = h
  <2>1. /\ Len(Wire) = (IF answered = "none" THEN 0 ELSE Len(sent) + 1)
        /\ answered # "none" => \A k \in 1..Len(sent) :
             Wire[k + 1] = [kind |-> sent[k], id |-> k]
    BY WireTyped DEF Plumbing
  <2>2. answered # "none" /\ h \in 1..Len(sent)
    <3>1. Len(sent) \in Nat
      BY Lengths
    <3> QED
      BY <1>3, <1>5, <2>1, <3>1
  <2>3. buffer[2] = [kind |-> sent[h], id |-> h]
    BY <1>3, <2>1, <2>2
  <2> QED
    BY <2>2, <2>3
<1> QED
  BY <1>4, <1>5

\* The client parses one thing more.
LEMMA ReadOnward ==
  ASSUME handshakeDone' = TRUE, NEW h \in Nat, Received(h + 1)',
         OnTheWay(h + 1, buffer', callbacks', inbound', stream', Wire')
  PROVE  InProgress'
<1>1. h + 1 \in Nat /\ h + 1 # 0
  OBVIOUS
<1> DEFINE k == h + 1
<1> HIDE DEF k
<1>2. Received(k)' /\ OnTheWay(k, buffer', callbacks', inbound', stream', Wire')
  BY DEF k
<1>3. k \in Nat /\ Parsed(k)'
  BY <1>1, <1>2 DEF k, Parsed
<1> QED
  BY <1>3 DEF InProgress

LEMMA HandshakeDelivers ==
  ASSUME IInv, IInv', Plumbing, Delivering, ReceiveHandshake
  PROVE  Delivering'
<1>1. /\ Typed /\ Typed' /\ FieldsRemember /\ state # "Closed" /\ ~handshakeDone
      /\ ~Incomplete /\ buffer' = Skipped /\ handshakeDone' = TRUE
      /\ UNCHANGED <<callbacks, inbound, stream, answered, sent, hasContinuous, continuousData>>
  BY DEF IInv, ReceiveHandshake
<1>2. NoMessage
  BY <1>1, NoNews, Events, "connect" # "message" DEF ReceiveHandshake
<1>3. Told("closeClean")' => Told("closeClean")
  BY <1>1, HandshakeTold
<1>4. MessagesInOrder' /\ CleanCloseIsComplete'
  BY <1>1, <1>2, <1>3, SameSent, KeepsOrder, KeepsClean DEF Delivering
<1>5. PICK h \in Nat : Parsed(h)
  BY <1>1 DEF Delivering, InProgress
<1>6. h = 0
  BY <1>1, <1>5 DEF Parsed
<1>7. OnTheWay(0 + 1, buffer', callbacks', inbound', stream', Wire')
  BY <1>1, <1>5, <1>6, ReadsOn
<1>8. Received(0 + 1)'
  <2>1. Received(1)
    BY <1>1, <1>5, <1>6, HandshakeReceived DEF Parsed
  <2>2. 1 \in Nat /\ 1 <= Len(sent) + 1
    BY <1>1, Lengths
  <2>3. Received(1)'
    BY <1>1, <1>2, <2>1, <2>2, SameSent, KeepsReceived DEF Delivering
  <2> QED
    BY <2>3
<1>9. InProgress'
  BY <1>1, <1>7, <1>8, ReadOnward
<1> QED
  BY <1>4, <1>9 DEF Delivering

LEMMA PingDelivers ==
  ASSUME IInv, IInv', Plumbing, Delivering, ReceivePing
  PROVE  Delivering'
<1>1. /\ Typed /\ Typed' /\ state # "Closed" /\ handshakeDone /\ handshakeDone' = TRUE
      /\ ~Incomplete /\ buffer' = Skipped /\ buffer[2].kind = "ping" /\ log' = log
      /\ UNCHANGED <<callbacks, inbound, stream, answered, sent, hasContinuous, continuousData>>
  BY DEF IInv, ReceivePing, NextFrame, FieldsRemember
<1>2. MessagesInOrder' /\ CleanCloseIsComplete' /\ NoMessage
  BY <1>1, SameSent, SameNews, KeepsOrder, KeepsClean DEF Delivering
<1>3. PICK h \in Nat : Parsed(h)
  BY <1>1 DEF Delivering, InProgress
<1>4. /\ OnTheWay(h + 1, buffer', callbacks', inbound', stream', Wire')
      /\ h \in Nat \ {0} /\ h \in 1..Len(sent) /\ sent[h] = "ping"
  BY <1>1, <1>3, ReadsOn DEF Parsed
<1>5. Received(h + 1)'
  <2>1. Received(h + 1)
    BY <1>1, <1>3, <1>4, PingReceived DEF Parsed
  <2>2. h + 1 \in Nat /\ h + 1 <= Len(sent) + 1
    BY <1>1, <1>4, Lengths
  <2> QED
    BY <1>1, <1>2, <2>1, <2>2, SameSent, KeepsReceived DEF Delivering
<1>6. InProgress'
  BY <1>1, <1>4, <1>5, ReadOnward
<1> QED
  BY <1>2, <1>6 DEF Delivering

\* The server's Close frame: the close is clean, and all of it has arrived.
LEMMA CloseDelivers ==
  ASSUME IInv, IInv', Plumbing, Delivering, ReceiveClose
  PROVE  Delivering'
<1>1. /\ Typed /\ Typed' /\ FieldsRemember /\ state # "Closed" /\ handshakeDone
      /\ ~Incomplete /\ buffer' = Skipped /\ buffer[2].kind = "close" /\ state' = "Closed"
      /\ UNCHANGED <<callbacks, inbound, stream, answered, sent>>
  <2>1. state # "Closed"
    BY CloseFrameTold DEF IInv
  <2> QED
    BY <2>1 DEF IInv, ReceiveClose, NextFrame, DidCloseInternal
<1>2. NoMessage
  <2>1. log' = Report(<<Contract!Closing, Contract!CloseClean>>)
    BY <1>1, EventPairs DEF ReceiveClose, DidCloseInternal
  <2> QED
    BY <1>1, <2>1, NoNews, Events, "closing" # "message", "closeClean" # "message"
<1>3. PICK h \in Nat : Parsed(h)
  BY <1>1 DEF Delivering, InProgress
<1>4. h \in Nat \ {0} /\ h \in 1..Len(sent) /\ sent[h] = "close"
  BY <1>1, <1>3, ReadsOn DEF Parsed
<1>5. MessagesInOrder'
  BY <1>1, <1>2, SameSent, KeepsOrder DEF Delivering
<1>6. CleanCloseIsComplete'
  BY <1>1, <1>2, <1>3, <1>4, CloseComplete DEF Parsed, Delivering
<1> QED
  BY <1>1, <1>5, <1>6 DEF Delivering, InProgress


\* Nothing behind the Close frame is parsed.
LEMMA NoCloseYet ==
  ASSUME NEW h \in Nat \ {0}, Received(h), sent[h] # "close", sent' = sent
  PROVE  \A j \in 1..((h + 1) - 1) : sent'[j] # "close"
<1>1. \A j \in 1..((h + 1) - 1) : j = h \/ j \in 1..(h - 1)
  OBVIOUS
<1> QED
  BY <1>1 DEF Received

\* A fragment that does not end its message is kept.
LEMMA FragmentReceived ==
  ASSUME Typed, Typed', MessagesInOrder, sent' = sent, log' = log,
         NEW h \in Nat \ {0}, h \in 1..Len(sent), Received(h),
         sent[h] \in {"first", "middle"}, ~RejectedFrame(sent[h]),
         hasContinuous' = TRUE, continuousData' = Append(continuousData, h)
  PROVE  Received(h + 1)'
<1>1. SentGrows /\ NoMessage /\ h + 1 \in Nat /\ h + 1 <= Len(sent) + 1
  BY SameSent, SameNews, Lengths
<1>2. HandedOver(h + 1)
  BY NotAnEnd, sent[h] \notin {"text", "last"} DEF Received
<1>3. HandedOver(h + 1)'
  BY <1>1, <1>2, KeepsHanded
<1>4. Ascending(continuousData') /\ ToSet(continuousData') = Fragments(h)
  BY FragmentJoins DEF Received
<1>5. Fragments(h)' = Fragments(h)
  BY <1>1, SameEnds
<1>6. Continued(h + 1)'
  <2>1. (h + 1) - 1 = h
    OBVIOUS
  <2>2. ToSet(continuousData)' = Fragments((h + 1) - 1)' /\ Ascending(continuousData)'
    BY <1>4, <1>5, <2>1
  <2> QED
    BY <2>2 DEF Continued
<1>7. \A j \in 1..((h + 1) - 1) : sent'[j] # "close"
  BY NoCloseYet
<1> QED
  BY <1>3, <1>6, <1>7 DEF Received

\* The frame ends a message, which is handed over.
LEMMA MessageReceived ==
  ASSUME Typed, Typed', MessagesInOrder, sent' = sent,
         NEW h \in Nat \ {0}, h \in 1..Len(sent), Received(h), sent[h] \in {"text", "last"},
         NEW frames \in Seq(1..MaxFrames), Ascending(frames), ToSet(frames) = Frames(h),
         log' = Append(log, Contract!Event("message", frames)),
         ~hasContinuous', continuousData' = <<>>
  PROVE  Received(h + 1)' /\ MessagesInOrder'
<1>1. h \in Ends
  BY Lengths DEF Ends
<1>2. HandedOver(h) /\ HandedOver(h + 1)' /\ MessagesInOrder'
  <2> DEFINE m == Contract!Event("message", frames)
  <2>1. m \in ClientEvent /\ m.type = "message" /\ m.frames = frames
    BY Events
  <2> HIDE DEF m
  <2>2. log' = Append(log, m) /\ HandedOver(h)
    BY DEF m, Received
  <2> QED
    BY <1>1, <2>1, <2>2, Handover
<1>3. Continued(h + 1)'
  BY DEF Continued
<1>4. \A j \in 1..((h + 1) - 1) : sent'[j] # "close"
  BY NoCloseYet
<1> QED
  BY <1>2, <1>3, <1>4 DEF Received

LEMMA MessageDelivers ==
  ASSUME IInv, IInv', Plumbing, Delivering, ReceiveMessage
  PROVE  Delivering'
<1> DEFINE kind == buffer[2].kind
           id == buffer[2].id
<1>1. /\ Typed /\ Typed' /\ FieldsRemember /\ handshakeDone /\ handshakeDone' = TRUE
      /\ ~Incomplete /\ buffer' = Skipped /\ ~RejectedFrame(kind)
      /\ UNCHANGED <<callbacks, inbound, stream, answered, sent>>
      /\ MessagesInOrder
  BY DEF IInv, ReceiveMessage, NextFrame, FieldsRemember, Delivering
<1>2. state # "Closed" /\ client /\ (Told("closeClean")' => Told("closeClean"))
  <2>1. state # "Closed" /\ (Told("closeClean")' => Told("closeClean"))
    BY <1>1, MessageTold, "closeClean" # "message"
  <2> QED
    BY <1>1, <2>1 DEF FieldsRemember
<1>3. PICK h \in Nat : Parsed(h)
  BY <1>2 DEF Delivering, InProgress
<1>4. /\ OnTheWay(h + 1, buffer', callbacks', inbound', stream', Wire')
      /\ h \in Nat \ {0} /\ h \in 1..Len(sent) /\ kind = sent[h] /\ id = h
      /\ Received(h)
  BY <1>1, <1>3, ReadsOn DEF Parsed
<1>5. CleanCloseIsComplete'
  <2>1. ~Told("closeClean")'
    BY <1>1, <1>2 DEF FieldsRemember
  <2> QED
    BY <2>1 DEF CleanCloseIsComplete, Contract!Happened, Told
<1>6. h \in 1..MaxFrames
  <2>1. Len(sent) <= MaxFrames /\ Len(sent) \in Nat
    BY <1>1, Lengths DEF Plumbing
  <2> QED
    BY <1>4, <2>1, BoundAssumption
<1>7. \/ /\ kind \in {"first", "middle"} /\ hasContinuous' = TRUE
         /\ continuousData' = Append(continuousData, id) /\ log' = log
      \/ /\ kind = "last" /\ hasContinuous' = FALSE /\ continuousData' = <<>>
         /\ log' = Report(<<Contract!Event("message", Append(continuousData, id))>>)
      \/ /\ kind = "text" /\ UNCHANGED <<hasContinuous, continuousData>>
         /\ log' = Report(<<Contract!Event("message", <<id>>)>>)
  BY DEF ReceiveMessage
<1> HIDE DEF kind, id
<1>8. ASSUME NEW frames \in Seq(1..MaxFrames),
             log' = Report(<<Contract!Event("message", frames)>>)
      PROVE  log' = Append(log, Contract!Event("message", frames))
  <2>1. Contract!Event("message", frames) \in ClientEvent
    BY Events
  <2> QED
    BY <1>1, <1>2, <1>8, <2>1, ReportOne DEF Typed, FlagsTyped, QueuesTyped
<1>9. Received(h + 1)' /\ MessagesInOrder'
  <2>1. CASE kind \in {"first", "middle"}
    <3>1. /\ hasContinuous' = TRUE /\ continuousData' = Append(continuousData, h)
          /\ log' = log /\ sent[h] \in {"first", "middle"} /\ ~RejectedFrame(sent[h])
      BY <1>1, <1>4, <1>7, <2>1
    <3>2. MessagesInOrder'
      BY <1>1, <3>1, SameSent, SameNews, KeepsOrder
    <3> QED
      BY <1>1, <1>4, <3>1, <3>2, FragmentReceived
  <2>2. CASE kind = "last"
    <3> DEFINE data == Append(continuousData, h)
    <3>1. /\ hasContinuous' = FALSE /\ continuousData' = <<>>
          /\ log' = Report(<<Contract!Event("message", data)>>)
          /\ sent[h] = "last" /\ ~RejectedFrame(sent[h])
      BY <1>1, <1>4, <1>7, <2>2
    <3>2. data \in Seq(1..MaxFrames)
      BY <1>1, <1>6, AppendFacts DEF Typed, QueuesTyped
    <3>3. Ascending(data) /\ ToSet(data) = Fragments(h)
      BY <1>1, <1>4, <3>1, FragmentJoins DEF Received
    <3>4. ToSet(data) = Frames(h)
      BY <3>1, <3>3 DEF Frames
    <3> HIDE DEF data
    <3>5. log' = Append(log, Contract!Event("message", data))
      BY <1>8, <3>1, <3>2
    <3> QED
      BY <1>1, <1>4, <3>1, <3>2, <3>3, <3>4, <3>5, MessageReceived
  <2>3. CASE kind = "text"
    <3> DEFINE data == <<h>>
    <3>1. /\ UNCHANGED <<hasContinuous, continuousData>>
          /\ log' = Report(<<Contract!Event("message", data)>>)
          /\ sent[h] = "text" /\ ~RejectedFrame(sent[h])
      BY <1>1, <1>4, <1>7, <2>3
    <3>2. ~hasContinuous /\ continuousData = <<>>
      BY <1>4, <3>1 DEF RejectedFrame, Received, Continued
    <3>3. data \in Seq(1..MaxFrames) /\ DOMAIN data = {1} /\ data[1] = h
      BY <1>6, SingletonSeq, LenProperties
    <3> HIDE DEF data
    <3>4. Ascending(data) /\ ToSet(data) = Frames(h)
      BY <3>1, <3>3 DEF Ascending, ToSet, Frames
    <3>5. log' = Append(log, Contract!Event("message", data))
      BY <1>8, <3>1, <3>3
    <3> QED
      BY <1>1, <1>4, <3>1, <3>2, <3>3, <3>4, <3>5, MessageReceived
  <2> QED
    BY <1>7, <2>1, <2>2, <2>3
<1>10. InProgress'
  BY <1>1, <1>4, <1>9, ReadOnward
<1> QED
  BY <1>5, <1>9, <1>10 DEF Delivering


LEMMA StepDelivering ==
  ASSUME IInv, IInv', Plumbing, Plumbing', Delivering
  PROVE  [Next]_vars => Delivering'
<1>a. Typed /\ Typed' /\ StreamLife /\ FieldsRemember /\ AnswerFirst
  BY DEF IInv
<1>b. ASSUME DidFailInternal, sent' = sent PROVE Delivering'
  BY <1>a, <1>b, FailNews, FailFacts, Leaves
<1>c. ASSUME state # "Closed", DidCloseInternal(<<>>, <<>>, Contract!CloseUnclean), sent' = sent
      PROVE  Delivering'
  BY <1>a, <1>c, CloseNews, CloseFacts, Leaves
<1>d. ASSUME UNCHANGED <<buffer, callbacks, inbound, stream, answered, sent, log, handshakeDone,
                         hasContinuous, continuousData>>,
             state' # "Closed" => state # "Closed"
      PROVE  Delivering'
  BY <1>a, <1>d, SameSent, SameWire, MovesOn
<1>1. ASSUME Connect PROVE Delivering'
  BY <1>1, <1>d DEF Connect
<1>2. ASSUME Send PROVE Delivering'
  <2>1. CASE DidFailInternal
    BY <1>2, <2>1, <1>b DEF Send
  <2>2. CASE ~DidFailInternal
    BY <1>2, <2>2, <1>d DEF Send
  <2> QED
    BY <2>1, <2>2
<1>3. ASSUME CloseEarly PROVE Delivering'
  BY <1>3, <1>c DEF CloseEarly
<1>4. ASSUME CloseOpened PROVE Delivering'
  BY <1>4, <1>d DEF CloseOpened
<1>5. ASSUME Fail PROVE Delivering'
  BY <1>5, <1>b DEF Fail
<1>6. ASSUME Disconnect PROVE Delivering'
  BY <1>6, <1>a, SameNews, Leaves DEF Disconnect
<1>7. ASSUME NEW type, Deliver(type),
             state # "Closed" => Head(callbacks).units = <<>>,
             UNCHANGED <<buffer, inbound, stream, answered, sent, log, handshakeDone,
                         hasContinuous, continuousData>>,
             state' # "Closed" => state # "Closed"
      PROVE  Delivering'
  <2>1. callbacks # <<>> /\ callbacks' = Tail(callbacks) /\ Wire' = Wire /\ SentGrows
    BY <1>7, <1>a, SameWire, SameSent DEF Deliver
  <2>2. ASSUME state # "Closed", NEW h \in Nat,
               OnTheWay(h, buffer, callbacks, inbound, stream, Wire)
        PROVE  OnTheWay(h, buffer', callbacks', inbound', stream', Wire')
    <3>1. Wire \in Units
      BY <1>a, WireTyped DEF Plumbing
    <3>2. OnTheWay(h, buffer, Tail(callbacks), inbound, stream, Wire)
      BY <1>7, <1>a, <2>1, <2>2, <3>1, EmptyTaken
    <3> QED
      BY <1>7, <2>1, <3>2
  <2> QED
    BY <1>7, <1>a, <2>1, <2>2, MovesOn
<1>8. ASSUME IgnoreCallback PROVE Delivering'
  <2>1. PICK type \in {"open", "data", "fail"} : Deliver(type)
    BY <1>8 DEF IgnoreCallback
  <2>2. state # "Closed" => Head(callbacks).units = <<>>
    BY <1>8, <1>a, IgnoredEmpty
  <2> QED
    BY <1>8, <2>1, <2>2, <1>7 DEF IgnoreCallback
<1>9. ASSUME DidOpen PROVE Delivering'
  <2>1. Deliver("open")
    BY <1>9 DEF DidOpen
  <2>2. Head(callbacks).units = <<>>
    BY <1>a, <2>1, DeliverFacts, "open" # "data" DEF Plumbing
  <2>3. state # "Closed"
    BY <1>9, <2>1 DEF DidOpen, Ignored, Deliver
  <2> QED
    BY <1>9, <2>1, <2>2, <2>3, <1>7 DEF DidOpen
<1>10. ASSUME DidReceiveShutdown PROVE Delivering'
  <2>1. state # "Closed"
    BY <1>10 DEF DidReceiveShutdown, Ignored, Deliver
  <2> QED
    BY <1>10, <2>1, <1>c DEF DidReceiveShutdown
<1>11. ASSUME DidReceiveData PROVE Delivering'
  <2>1. /\ callbacks # <<>> /\ callbacks' = Tail(callbacks)
        /\ buffer' = buffer \o Head(callbacks).units
        /\ Wire' = Wire /\ SentGrows
        /\ UNCHANGED <<inbound, stream, log, handshakeDone, hasContinuous, continuousData, state>>
    BY <1>11, <1>a, SameWire, SameSent DEF DidReceiveData, Deliver
  <2>2. ASSUME NEW h \in Nat, OnTheWay(h, buffer, callbacks, inbound, stream, Wire)
        PROVE  OnTheWay(h, buffer', callbacks', inbound', stream', Wire')
    <3>1. /\ Wire \in Units /\ buffer \in Units /\ callbacks \in Seq(GoodCallback)
          /\ inbound \in Units
      BY <1>a, WireTyped DEF Plumbing, Typed, QueuesTyped, Units
    <3>2. OnTheWay(h, buffer \o Head(callbacks).units, Tail(callbacks), inbound, stream, Wire)
      BY <2>1, <2>2, <3>1, Taken
    <3> QED
      BY <2>1, <3>2
  <2> QED
    BY <1>a, <2>1, <2>2, MovesOn
<1>12. ASSUME DidFail PROVE Delivering'
  BY <1>12, <1>b DEF DidFail
<1>13. ASSUME ReceiveDone PROVE Delivering'
  BY <1>13, <1>d DEF ReceiveDone
<1>14. ASSUME RejectHandshake \/ ReceiveRejected PROVE Delivering'
  BY <1>14, <1>b DEF RejectHandshake, ReceiveRejected
<1>15. ASSUME ReceiveHandshake \/ ReceiveMessage \/ ReceivePing \/ ReceiveClose PROVE Delivering'
  BY <1>15, HandshakeDelivers, MessageDelivers, PingDelivers, CloseDelivers
<1>16. ASSUME PumpMainThread PROVE Delivering'
  <2>1. /\ Wire' = Wire /\ SentGrows
        /\ UNCHANGED <<buffer, log, handshakeDone, hasContinuous, continuousData, state>>
    BY <1>16, <1>a, SameWire, SameSent DEF PumpMainThread
  <2>2. ASSUME state # "Closed", NEW h \in Nat,
               OnTheWay(h, buffer, callbacks, inbound, stream, Wire)
        PROVE  OnTheWay(h, buffer', callbacks', inbound', stream', Wire')
    <3>1. Wire \in Units
      BY <1>a, WireTyped DEF Plumbing
    <3>2. OnTheWay(h, buffer, callbacks', inbound', stream', Wire)
      BY <1>16, <1>a, <2>2, <3>1, PumpWay
    <3> QED
      BY <2>1, <3>2
  <2> QED
    BY <1>a, <2>1, <2>2, MovesOn
<1>17. ASSUME AnswerConnect \/ EndConnection \/ UNCHANGED vars PROVE Delivering'
  BY <1>17, <1>d DEF AnswerConnect, EndConnection, EngineUnchanged
<1>18. ASSUME SendHandshake PROVE Delivering'
  <2>1. /\ SentGrows
        /\ UNCHANGED <<buffer, callbacks, stream, log, handshakeDone, hasContinuous,
                       continuousData, state>>
    BY <1>18, <1>a, SameSent DEF SendHandshake, EngineUnchanged
  <2>2. ASSUME NEW h \in Nat, OnTheWay(h, buffer, callbacks, inbound, stream, Wire)
        PROVE  OnTheWay(h, buffer', callbacks', inbound', stream', Wire')
    <3>1. OnTheWay(h, buffer, callbacks, inbound', stream, Wire')
      BY <1>18, <1>a, <2>2, HandshakeSaid
    <3> QED
      BY <2>1, <3>1
  <2> QED
    BY <1>a, <2>1, <2>2, MovesOn
<1>19. ASSUME SendServerFrame PROVE Delivering'
  <2>1. UNCHANGED <<buffer, callbacks, stream, log, handshakeDone, hasContinuous,
                    continuousData, state>>
    BY <1>19 DEF SendServerFrame, EngineUnchanged
  <2>2. /\ SentGrows
        /\ \A h \in Nat : OnTheWay(h, buffer, callbacks, inbound, stream, Wire) =>
             OnTheWay(h, buffer', callbacks', inbound', stream', Wire')
    BY <1>19, <1>a, <2>1, FrameSaid
  <2> QED
    BY <1>a, <2>1, <2>2, MovesOn
<1> QED
  BY <1>1, <1>2, <1>3, <1>4, <1>5, <1>6, <1>8, <1>9, <1>10, <1>11, <1>12, <1>13, <1>14,
     <1>15, <1>16, <1>17, <1>18, <1>19
  DEF Next, Callbacks, Receive

LEMMA InitDInv ==
  ASSUME Init
  PROVE  DInv
<1>1. /\ sent = <<>> /\ log = <<>> /\ DOMAIN sent = {} /\ DOMAIN log = {} /\ Len(sent) = 0
      /\ tasks = <<>> /\ DOMAIN tasks = {} /\ callbacks = <<>> /\ DOMAIN callbacks = {}
      /\ Len(callbacks) = 0 /\ buffer = <<>> /\ Len(buffer) = 0 /\ inbound = <<>>
      /\ Len(inbound) = 0
  BY EmptySeq DEF Init
<1>2. Plumbing
  BY <1>1, BoundAssumption DEF Init, Plumbing, Queued
<1>3. MessagesInOrder /\ CleanCloseIsComplete
  BY <1>1 DEF MessagesInOrder, CleanCloseIsComplete, Contract!Happened
<1>4. Received(0)
  <2>1. HandedOver(0)
    BY <1>1 DEF HandedOver, Ends
  <2>2. Continued(0)
    BY DEF Init, Continued
  <2> QED
    BY <2>1, <2>2 DEF Received
<1>5. OnTheWay(0, buffer, callbacks, inbound, stream, Wire)
  <2>1. Wire \in Units /\ Len(Wire) = 0
    BY <1>2, InitIInv, WireTyped DEF Init, Plumbing, IInv
  <2> DEFINE pos == [i \in 1..(Len(callbacks) + 1) |-> 0]
  <2>2. pos \in [1..(Len(callbacks) + 1) -> Nat] /\ pos[1] = 0 /\ pos[Len(callbacks) + 1] = 0
    BY <1>1
  <2> HIDE DEF pos
  <2>3. Placed(pos, 0, buffer, callbacks, inbound, stream, Wire)
    BY <1>1, <2>1, <2>2 DEF Placed, Stand
  <2> QED
    BY <2>3 DEF OnTheWay
<1>6. Parsed(0)
  BY <1>4, <1>5 DEF Parsed, Init
<1> QED
  BY <1>2, <1>3, <1>6 DEF DInv, Delivering, InProgress

\* The client gets what the server sent, for every number of frames and however reads
\* split them: whole messages in order, none twice and none skipped; and behind a close
\* that is reported as clean nothing is missing (didReceiveData, receiveFrames, the
\* callbacks of the scheduler and tryToReceive).
THEOREM MessagesAreDelivered == Spec => []MessagesDelivered
<1>1. Init => DInv
  BY InitDInv
<1>2. IInv /\ IInv' /\ DInv /\ [Next]_vars => DInv'
  <2>1. ASSUME IInv, IInv', DInv, [Next]_vars PROVE Plumbing'
    BY <2>1, StepPlumbing DEF IInv, DInv
  <2>2. ASSUME IInv, IInv', DInv, [Next]_vars PROVE Delivering'
    BY <2>1, <2>2, StepDelivering DEF DInv
  <2> QED
    BY <2>1, <2>2 DEF DInv
<1>3. DInv => MessagesDelivered
  BY DEF DInv, Delivering, MessagesDelivered
<1> QED
  BY <1>1, <1>2, <1>3, Invariance, PTL DEF Spec
=============================================================================
