------------------------ MODULE BibWebSocketChannel ------------------------
(***************************************************************************)
(* One guest WebSocket: BibWebSocketChannel on top of CurlStreamScheduler. *)
(*                                                                         *)
(* Everything of the engine runs on one thread, but not at one time: a     *)
(* call of the channel only queues a task, the scheduler's pump executes   *)
(* the tasks and talks to the socket, and what the socket says reaches the *)
(* channel through a second queue, later still.  The server and the        *)
(* network run beside all that.                                            *)
(*                                                                         *)
(* Bytes are abstracted to units: the opening response and every frame are *)
(* two units, so that a read may end in the middle of either.              *)
(***************************************************************************)
EXTENDS Integers, Sequences, SequencesExt

CONSTANTS
  Kinds,       \* the kinds of frames the server may send
  MaxFrames,   \* bound: frames the server sends
  MaxInbound,  \* bound: units on their way when the server sends the next frame
  MaxSends,    \* bound: messages the page sends
  MaxBacklog   \* bound: callbacks the pump may leave undelivered

\* What a server frame can be, as far as the channel tells frames apart: a
\* whole message, the fragments of one, the control frames, and everything that
\* parseFrame, validateFrame, the UTF-8 decoder or the close checks reject.
FrameKind == {"text", "first", "middle", "last", "ping", "close", "invalid"}
ASSUME KindAssumption == Kinds \subseteq FrameKind
ASSUME BoundAssumption ==
  MaxFrames \in Nat /\ MaxInbound \in Nat /\ MaxSends \in Nat /\ MaxBacklog \in Nat \ {0}

VARIABLES
  \* BibWebSocketChannel
  state, streamID, client, handshakeDone, discard, buffer, hasContinuous,
  continuousData, receivedClose, sentClose, receivedFail,
  receiving,      \* the engine is inside didReceiveData
  \* CurlStreamScheduler and its CurlStream
  listed,         \* m_clientList has the channel
  tasks,          \* m_taskQueue
  stream,         \* the CurlStream: none, connecting, up or dead
  sendBuffers,
  callbacks,      \* callClientOnMainThread, not delivered yet
  \* the network and the server
  peer,           \* pending, up, refused, fin (orderly shutdown) or reset
  inbound,        \* units on their way to the client
  outbound,       \* what the client has written to the socket
  answered,       \* the server's opening response: none, accepted or rejected
  sent,           \* frames the server has sent, in order
  \* the client and the page
  log,            \* callbacks the WebSocketChannelClient has received
  sends

channelVars == <<state, streamID, client, handshakeDone, discard, buffer,
                 hasContinuous, continuousData, receivedClose, sentClose,
                 receivedFail, receiving>>
receiveVars == <<discard, buffer, hasContinuous, continuousData>>
streamVars == <<stream, sendBuffers, callbacks>>
netVars == <<peer, inbound, outbound, answered, sent>>
vars == <<channelVars, listed, tasks, streamVars, netVars, log, sends>>

Contract == INSTANCE WebSocketContract WITH log <- log

Unit == [kind : FrameKind \cup {"half", "accepted", "rejected"}, id : 0..MaxFrames]
Task == {"create", "request", "message", "pong", "close", "destroy"}
Callback == [type : {"open", "data", "fail"}, units : Seq(Unit)]
EventType == {"connect", "message", "closing", "error", "closeClean", "closeUnclean"}

\* Of what is queued, the stream is created by the first task and destroyed by the last.
TasksInOrder ==
  \A i \in DOMAIN tasks : /\ tasks[i] = "create" => i = 1
                          /\ tasks[i] = "destroy" => i = Len(tasks)

TypeOK ==
  /\ state \in {"Connecting", "Handshaking", "Opened", "Closing", "Closed"}
  /\ stream \in {"none", "connecting", "up", "dead"}
  /\ peer \in {"pending", "up", "refused", "fin", "reset"}
  /\ answered \in {"none", "accepted", "rejected"}
  /\ streamID \in BOOLEAN /\ client \in BOOLEAN /\ handshakeDone \in BOOLEAN
  /\ discard \in BOOLEAN /\ hasContinuous \in BOOLEAN
  /\ receivedClose \in BOOLEAN /\ sentClose \in BOOLEAN
  /\ receivedFail \in BOOLEAN /\ receiving \in BOOLEAN /\ listed \in BOOLEAN
  /\ buffer \in Seq(Unit) /\ inbound \in Seq(Unit)
  /\ continuousData \in Seq(1..MaxFrames)
  /\ tasks \in Seq(Task) /\ TasksInOrder
  /\ sendBuffers \in Seq(Task \ {"create", "destroy"})
  /\ outbound \in Seq(Task \ {"create", "destroy"})
  /\ \A i \in DOMAIN callbacks : callbacks[i] \in Callback
  /\ sent \in Seq(FrameKind)
  /\ \A i \in DOMAIN log : log[i] \in [type : EventType, frames : Seq(1..MaxFrames)]
  /\ sends \in 0..MaxSends

\* A constructed channel on which connect() has not been called.
Init ==
  /\ state = "Connecting" /\ streamID = FALSE /\ client = TRUE
  /\ handshakeDone = FALSE /\ discard = FALSE /\ buffer = <<>>
  /\ hasContinuous = FALSE /\ continuousData = <<>> /\ receivedClose = FALSE
  /\ sentClose = FALSE /\ receivedFail = FALSE /\ receiving = FALSE
  /\ listed = FALSE /\ tasks = <<>>
  /\ stream = "none" /\ sendBuffers = <<>> /\ callbacks = <<>>
  /\ peer = "pending" /\ inbound = <<>> /\ outbound = <<>>
  /\ answered = "none" /\ sent = <<>>
  /\ log = <<>> /\ sends = 0

-----------------------------------------------------------------------------
(* Leaving: destructStream, didCloseInternal, didFailInternal *)

\* The client callbacks of a step; none once disconnect() cleared m_client.
Report(events) == IF client THEN log \o events ELSE log

SendFrameAlways(opcode) == <<opcode>>
\* sendFrame: the task it queues, none after our Close.
SendFrame(opcode) == IF sentClose THEN <<>> ELSE <<opcode>>

\* A wrong form of the next: the ID stays, and with it the next call destroys again.
IDKept(queued) ==
  /\ tasks' = tasks \o queued \o (IF streamID THEN <<"destroy">> ELSE <<>>)
  /\ UNCHANGED streamID
  /\ listed' = (listed /\ ~streamID)
\* destructStream, after the tasks this step queued before it.
DestructStream(queued) ==
  /\ tasks' = tasks \o queued \o (IF streamID THEN <<"destroy">> ELSE <<>>)
  /\ streamID' = FALSE
  /\ listed' = (listed /\ ~streamID)

ClosedTwice(queued, events, close) ==
  /\ DestructStream(queued)
  /\ state' = "Closed"
  /\ log' = Report(Append(events, close))
\* didCloseInternal, after the callbacks this step made before it.
DidCloseInternal(queued, events, close) ==
  /\ DestructStream(queued)
  /\ state' = "Closed"
  /\ log' = Report(IF state = "Closed" THEN events ELSE Append(events, close))

\* didFailInternal on a channel that has not failed yet.
DidFailInternal ==
  /\ ~receivedFail
  /\ receivedFail' = TRUE
  /\ discard' = TRUE /\ buffer' = <<>>
  /\ hasContinuous' = FALSE /\ continuousData' = <<>>
  /\ DidCloseInternal(<<>>, <<Contract!Error>>, Contract!CloseUnclean)

-----------------------------------------------------------------------------
(* Calls of the DOM WebSocket *)

\* Between two engine tasks; the channel object still has its owner.
Idle == ~receiving /\ client

Connect ==
  /\ Idle /\ state = "Connecting" /\ ~streamID
  /\ streamID' = TRUE /\ listed' = TRUE
  /\ tasks' = Append(tasks, "create")
  /\ UNCHANGED <<state, client, handshakeDone, receiveVars, receivedClose,
                 sentClose, receivedFail, receiving, streamVars, netVars, log,
                 sends>>

\* A data frame may fail to deflate, which fails the channel.
Send ==
  /\ Idle /\ state = "Opened" /\ sends < MaxSends
  /\ sends' = sends + 1
  /\ \/ /\ tasks' = tasks \o SendFrame("message")
        /\ UNCHANGED <<state, streamID, receiveVars, receivedFail, listed, log>>
     \/ DidFailInternal
  /\ UNCHANGED <<client, handshakeDone, receivedClose, sentClose, receiving,
                 streamVars, netVars>>

\* close() before the handshake is done.
CloseEarly ==
  /\ Idle /\ streamID /\ state \in {"Connecting", "Handshaking"}
  /\ DidCloseInternal(<<>>, <<>>, Contract!CloseUnclean)
  /\ UNCHANGED <<client, handshakeDone, receiveVars, receivedClose, sentClose,
                 receivedFail, receiving, streamVars, netVars, sends>>

\* close() that starts the closing handshake: sendClosingHandshakeIfNeeded.
CloseOpened ==
  /\ Idle /\ state = "Opened"
  /\ tasks' = tasks \o SendFrame("close")
  /\ state' = "Closing"
  /\ sentClose' = TRUE
  /\ UNCHANGED <<streamID, client, handshakeDone, receiveVars, receivedClose,
                 receivedFail, receiving, listed, streamVars, netVars, log, sends>>

\* fail().  The client's own tasks are queued: it may call this on a channel
\* that has meanwhile been closed.
Fail ==
  /\ Idle /\ (streamID \/ state = "Closed")
  /\ DidFailInternal
  /\ UNCHANGED <<client, handshakeDone, receivedClose, sentClose, receiving,
                 streamVars, netVars, sends>>

\* disconnect(): the WebSocket goes away.
Disconnect ==
  /\ Idle
  /\ client' = FALSE
  /\ state' = "Closed"
  /\ DestructStream(<<>>)
  /\ UNCHANGED <<handshakeDone, receiveVars, receivedClose, sentClose,
                 receivedFail, receiving, streamVars, netVars, log, sends>>

-----------------------------------------------------------------------------
(* CurlStream::Client callbacks, delivered by callOnMainThread in order *)

Deliver(type) ==
  /\ ~receiving
  /\ callbacks # <<>> /\ Head(callbacks).type = type
  /\ callbacks' = Tail(callbacks)

\* A callback the scheduler drops because m_clientList no longer has the
\* channel, or that the channel returns from at once.
Ignored(callback) ==
  \/ ~listed
  \/ callback.type = "open" /\ state # "Connecting"
  \/ callback.type = "data" /\ state \in {"Connecting", "Closed"}
  \/ callback.type = "data" /\ callback.units # <<>> /\ (discard \/ receivedClose)
  \/ callback.type = "fail" /\ receivedFail

IgnoreCallback ==
  /\ \E type \in {"open", "data", "fail"} : Deliver(type)
  /\ Ignored(Head(callbacks))
  /\ UNCHANGED <<channelVars, listed, tasks, stream, sendBuffers, netVars, log,
                 sends>>

DidOpen ==
  /\ Deliver("open") /\ ~Ignored(Head(callbacks))
  /\ state' = "Handshaking"
  /\ tasks' = Append(tasks, "request")
  /\ UNCHANGED <<streamID, client, handshakeDone, receiveVars, receivedClose,
                 sentClose, receivedFail, receiving, listed, stream,
                 sendBuffers, netVars, log, sends>>

\* didReceiveData of an empty buffer: an orderly TCP shutdown.
DidReceiveShutdown ==
  /\ Deliver("data") /\ ~Ignored(Head(callbacks))
  /\ Head(callbacks).units = <<>>
  /\ DidCloseInternal(<<>>, <<>>, Contract!CloseUnclean)
  /\ UNCHANGED <<client, handshakeDone, receiveVars, receivedClose, sentClose,
                 receivedFail, receiving, stream, sendBuffers, netVars, sends>>

\* didReceiveData up to appendReceivedBuffer; what follows are the Receive
\* steps below, during which nothing else runs on the engine.
DidReceiveData ==
  /\ Deliver("data") /\ ~Ignored(Head(callbacks))
  /\ Head(callbacks).units # <<>>
  /\ buffer' = buffer \o Head(callbacks).units
  /\ receiving' = TRUE
  /\ UNCHANGED <<state, streamID, client, handshakeDone, discard, hasContinuous,
                 continuousData, receivedClose, sentClose, receivedFail, listed,
                 tasks, stream, sendBuffers, netVars, log, sends>>

DidFail ==
  /\ Deliver("fail") /\ ~Ignored(Head(callbacks))
  /\ DidFailInternal
  /\ UNCHANGED <<client, handshakeDone, receivedClose, sentClose, receiving,
                 stream, sendBuffers, netVars, sends>>

-----------------------------------------------------------------------------
(* didReceiveData: validateOpeningHandshake, then receiveFrames *)

Incomplete == Len(buffer) < 2
\* skipReceivedBuffer of what has just been parsed.
Skipped == SubSeq(buffer, 3, Len(buffer))

ReceiveDone ==
  /\ receiving
  /\ Incomplete \/ discard \/ receivedClose
  /\ receiving' = FALSE
  /\ UNCHANGED <<state, streamID, client, handshakeDone, receiveVars,
                 receivedClose, sentClose, receivedFail, listed, tasks,
                 streamVars, netVars, log, sends>>

ReceiveHandshake ==
  /\ receiving /\ ~Incomplete
  /\ state = "Handshaking" /\ ~handshakeDone
  /\ buffer[2].kind = "accepted"
  /\ buffer' = Skipped
  /\ state' = "Opened"
  /\ handshakeDone' = TRUE
  /\ log' = Report(<<Contract!Connect>>)
  /\ UNCHANGED <<streamID, client, discard, hasContinuous, continuousData,
                 receivedClose, sentClose, receivedFail, receiving, listed,
                 tasks, streamVars, netVars, sends>>

RejectHandshake ==
  /\ receiving /\ ~Incomplete
  /\ ~handshakeDone
  /\ state # "Handshaking" \/ buffer[2].kind # "accepted"
  /\ DidFailInternal
  /\ UNCHANGED <<client, handshakeDone, receivedClose, sentClose, receiving,
                 streamVars, netVars, sends>>

\* The loop head of receiveFrames with a whole frame in the buffer.
NextFrame ==
  /\ receiving /\ ~Incomplete /\ handshakeDone /\ ~discard /\ ~receivedClose

InterleavedTaken(kind) ==
  kind = "invalid" \/ (kind \in {"middle", "last"} /\ ~hasContinuous)

\* What must not come now.
RejectedFrame(kind) ==
  \/ kind = "invalid"
  \/ kind \in {"text", "first"} /\ hasContinuous
  \/ kind \in {"middle", "last"} /\ ~hasContinuous

ReceiveMessage ==
  /\ NextFrame
  /\ LET kind == buffer[2].kind
         data == Append(continuousData, buffer[2].id) IN
     /\ ~RejectedFrame(kind)
     /\ \/ /\ kind \in {"first", "middle"}
           /\ hasContinuous' = TRUE
           /\ continuousData' = data
           /\ log' = log
        \/ /\ kind = "last"
           /\ hasContinuous' = FALSE
           /\ continuousData' = <<>>
           /\ log' = Report(<<Contract!Event("message", data)>>)
        \/ /\ kind = "text"
           /\ UNCHANGED <<hasContinuous, continuousData>>
           /\ log' = Report(<<Contract!Event("message", <<buffer[2].id>>)>>)
  /\ buffer' = Skipped
  /\ UNCHANGED <<state, streamID, client, handshakeDone, discard, receivedClose,
                 sentClose, receivedFail, receiving, listed, tasks, streamVars,
                 netVars, sends>>

ReceivePing ==
  /\ NextFrame
  /\ buffer[2].kind = "ping"
  /\ tasks' = tasks \o SendFrame("pong")
  /\ buffer' = Skipped
  /\ UNCHANGED <<state, streamID, client, handshakeDone, discard, hasContinuous,
                 continuousData, receivedClose, sentClose, receivedFail,
                 receiving, listed, streamVars, netVars, log, sends>>

\* didStartClosingHandshake, sendClosingHandshakeIfNeeded, didCloseInternal.
ReceiveClose ==
  /\ NextFrame
  /\ buffer[2].kind = "close"
  /\ receivedClose' = TRUE
  /\ sentClose' = TRUE
  /\ DidCloseInternal(SendFrame("close"), <<Contract!Closing>>, Contract!CloseClean)
  /\ buffer' = Skipped
  /\ UNCHANGED <<client, handshakeDone, discard, hasContinuous, continuousData,
                 receivedFail, receiving, streamVars, netVars, sends>>

ReceiveRejected ==
  /\ NextFrame
  /\ RejectedFrame(buffer[2].kind)
  /\ DidFailInternal
  /\ UNCHANGED <<client, handshakeDone, receivedClose, sentClose, receiving,
                 streamVars, netVars, sends>>

-----------------------------------------------------------------------------
(* CurlStreamScheduler::pumpMainThread: executeTasks, then tryToTransfer *)

\* The stream and its send buffers once the queued tasks have been executed.
StreamAfterTasks ==
  CASE "destroy" \in ToSet(tasks) -> "none"
    [] "create" \in ToSet(tasks) /\ "destroy" \notin ToSet(tasks) -> "connecting"
    [] OTHER -> stream
\* The tasks that write: the channel has the ID it writes under from createStream.
TasksOfStream ==
  IF tasks # <<>> /\ Head(tasks) = "create" THEN Tail(tasks) ELSE tasks
BuffersAfterTasks ==
  IF StreamAfterTasks \in {"none", "dead"} THEN <<>> ELSE sendBuffers \o TasksOfStream

Call(type, units) == Append(callbacks, [type |-> type, units |-> units])

FailureStranded == stream' = "dead" /\ callbacks' = callbacks
\* notifyFailure: destroyHandle, then didFail.
NotifyFailure == stream' = "dead" /\ callbacks' = Call("fail", <<>>)

\* tryToConnect
TryToConnect ==
  /\ StreamAfterTasks = "connecting"
  /\ CASE peer = "pending" -> stream' = "connecting" /\ UNCHANGED callbacks
       [] peer = "refused" -> NotifyFailure
       [] OTHER -> stream' = "up" /\ callbacks' = Call("open", <<>>)
  /\ UNCHANGED inbound

\* tryToReceive: some of what has arrived, the shutdown behind it, or an error.
TryToReceive ==
  /\ StreamAfterTasks = "up"
  /\ CASE peer = "reset" -> NotifyFailure /\ inbound' = <<>>
       [] peer # "reset" /\ inbound # <<>> ->
            \E n \in 1..Len(inbound) :
              /\ callbacks' = Call("data", SubSeq(inbound, 1, n))
              /\ inbound' = SubSeq(inbound, n + 1, Len(inbound))
              /\ stream' = "up"
       [] peer = "fin" /\ inbound = <<>> ->
            stream' = "dead" /\ callbacks' = Call("data", <<>>) /\ UNCHANGED inbound
       [] OTHER -> stream' = "up" /\ UNCHANGED <<callbacks, inbound>>

NothingToTransfer ==
  /\ StreamAfterTasks \in {"none", "dead"}
  /\ stream' = StreamAfterTasks
  /\ UNCHANGED <<callbacks, inbound>>

\* tryToSend, after the receive: one buffer per pass.
TryToSend ==
  IF StreamAfterTasks = "up" /\ stream' = "up" /\ BuffersAfterTasks # <<>>
  THEN /\ outbound' = Append(outbound, Head(BuffersAfterTasks))
       /\ sendBuffers' = Tail(BuffersAfterTasks)
  ELSE /\ outbound' = outbound
       /\ sendBuffers' = IF stream' = "dead" THEN <<>> ELSE BuffersAfterTasks

PumpMainThread ==
  /\ ~receiving
  /\ tasks # <<>> \/ stream # "none"
  /\ Len(callbacks) < MaxBacklog
  /\ tasks' = <<>>
  /\ TryToConnect \/ TryToReceive \/ NothingToTransfer
  /\ TryToSend
  /\ UNCHANGED <<channelVars, listed, peer, answered, sent, log, sends>>

-----------------------------------------------------------------------------
(* The server and the network *)

EngineUnchanged == UNCHANGED <<channelVars, listed, tasks, streamVars, log, sends>>

AnswerConnect ==
  /\ peer = "pending" /\ stream = "connecting"
  /\ peer' \in {"up", "refused"}
  /\ UNCHANGED <<inbound, outbound, answered, sent>> /\ EngineUnchanged

ServerSends(kind, id) == inbound' = inbound \o <<[kind |-> "half", id |-> 0],
                                                 [kind |-> kind, id |-> id]>>

SendHandshake ==
  /\ peer = "up" /\ outbound # <<>> /\ answered = "none"
  /\ answered' \in {"accepted", "rejected"}
  /\ ServerSends(answered', 0)
  /\ UNCHANGED <<peer, outbound, sent>> /\ EngineUnchanged

\* Nothing behind a frame that fails the channel is of interest.
SendServerFrame ==
  /\ peer = "up" /\ answered = "accepted"
  /\ Len(sent) < MaxFrames /\ Len(inbound) <= MaxInbound /\ "invalid" \notin ToSet(sent)
  /\ \E kind \in Kinds :
       /\ sent' = Append(sent, kind)
       /\ ServerSends(kind, Len(sent) + 1)
  /\ UNCHANGED <<peer, outbound, answered>> /\ EngineUnchanged

EndConnection ==
  /\ peer = "up"
  /\ peer' \in {"fin", "reset"}
  /\ UNCHANGED <<inbound, outbound, answered, sent>> /\ EngineUnchanged

-----------------------------------------------------------------------------
Receive == \/ ReceiveDone \/ ReceiveHandshake \/ RejectHandshake
           \/ ReceiveMessage \/ ReceivePing \/ ReceiveClose \/ ReceiveRejected
Callbacks == IgnoreCallback \/ DidOpen \/ DidReceiveShutdown \/ DidReceiveData
             \/ DidFail

Next ==
  \/ Connect \/ Send \/ CloseEarly \/ CloseOpened \/ Fail \/ Disconnect
  \/ Callbacks \/ Receive \/ PumpMainThread
  \/ AnswerConnect \/ SendHandshake \/ SendServerFrame \/ EndConnection

Spec == Init /\ [][Next]_vars

\* The engine's run loop runs what is queued on it; the page, the server and
\* the network owe nothing.
Fairness == WF_vars(Callbacks) /\ WF_vars(Receive) /\ WF_vars(PumpMainThread)
FairSpec == Spec /\ Fairness

-----------------------------------------------------------------------------
(* Properties *)

\* Where the messages of what the server sent end, and the frames of the message that
\* ends at i.
Ends == {i \in DOMAIN sent : sent[i] \in {"text", "last"}}
Fragments(i) ==
  {j \in 1..i : /\ sent[j] \in {"first", "middle", "last"}
                /\ \A k \in 1..i : sent[k] = "first" => k <= j}
Frames(i) == IF sent[i] = "text" THEN {i} ELSE Fragments(i)

Ascending(frames) == \A j, k \in DOMAIN frames : j < k => frames[j] < frames[k]
\* The i-th callback hands over the message that ends at e: all its frames, in order.
HandsOver(i, e) ==
  /\ log[i].type = "message"
  /\ Ascending(log[i].frames) /\ ToSet(log[i].frames) = Frames(e)

\* However reads split the bytes, the client gets the server's messages: whole,
\* in order, none twice and none skipped.
MessagesInOrder ==
  \A i \in DOMAIN log : log[i].type = "message" =>
    \E e \in Ends :
      /\ HandsOver(i, e)
      /\ \A f \in Ends : f < e <=> \E j \in 1..(i - 1) : HandsOver(j, f)

\* A close that is reported as clean lost nothing: every message in front of
\* the server's Close frame has been delivered, and no other.
CleanCloseIsComplete ==
  Contract!Happened("closeClean") =>
    \E i \in DOMAIN sent :
      /\ sent[i] = "close"
      /\ \A j \in 1..(i - 1) : sent[j] # "close"
      /\ \A e \in Ends : e < i <=> \E j \in DOMAIN log : HandsOver(j, e)

\* What the server sent is what the client gets, up to a close that says so.
MessagesDelivered == MessagesInOrder /\ CleanCloseIsComplete

\* What is written, and what is buffered or queued for a stream that will be there
\* to write it, in order: the opening request, and nothing behind our Close frame.
Writes == outbound \o BuffersAfterTasks
WritesWellFormed ==
  \A i \in DOMAIN Writes :
    /\ Writes[i] = "request" <=> i = 1
    /\ Writes[i] = "close" => i = Len(Writes)

\* A stream the channel has let go of is about to be destroyed, and nothing is
\* queued for it any more.
NoStreamLeak ==
  /\ (stream # "none" \/ "create" \in ToSet(tasks)) /\ ~streamID
       => "destroy" \in ToSet(tasks)
  /\ \A i \in DOMAIN tasks : tasks[i] = "destroy" => i = Len(tasks)

\* The socket is written as the protocol wants it and given back when the channel
\* is done with it, whoever closes first and from inside whichever callback.
SocketUse == WritesWellFormed /\ NoStreamLeak

\* The detailed channel implements the contract: with its own record of the callbacks
\* for the contract's, each of its steps is a step of the contract or a stutter.
ClientContract == Contract!Spec

\* Once the connection is refused, shut down or reset, or the server's Close
\* frame is on its way, the channel does not stay open.
ServerEndClosesChannel ==
  streamID /\ (peer \in {"refused", "fin", "reset"} \/ "close" \in ToSet(sent))
    ~> state = "Closed"
=============================================================================
