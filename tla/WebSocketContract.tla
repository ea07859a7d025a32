------------------------- MODULE WebSocketContract -------------------------
(***************************************************************************)
(* What a WebSocketChannelClient (the DOM WebSocket) may rely on, whatever *)
(* the network does: the order in which a channel calls it back.           *)
(*                                                                         *)
(* didConnect comes first and once, messages and didStartClosingHandshake  *)
(* only between it and didClose, didClose once; an error is reported       *)
(* together with the didClose it causes.  The one callback that may follow *)
(* didClose is the error of a fail() the client itself called too late.    *)
(***************************************************************************)
EXTENDS Integers, Sequences

VARIABLE log     \* the callbacks so far

Event(type, frames) == [type |-> type, frames |-> frames]
Connect == Event("connect", <<>>)
Closing == Event("closing", <<>>)
Error == Event("error", <<>>)
CloseClean == Event("closeClean", <<>>)
CloseUnclean == Event("closeUnclean", <<>>)

Happened(type) == \E i \in DOMAIN log : log[i].type = type
Closed == Happened("closeClean") \/ Happened("closeUnclean")

Init == log = <<>>

DidConnect ==
  /\ ~Happened("connect") /\ ~Closed
  /\ log' = Append(log, Connect)

DidReceiveMessage ==
  /\ Happened("connect") /\ ~Closed
  /\ Len(log') = Len(log) + 1
  /\ log' = Append(log, Event("message", log'[Len(log')].frames))

\* The server closed: the close is clean exactly when its Close frame came.
DidCloseClean ==
  /\ Happened("connect") /\ ~Closed
  /\ log' = log \o <<Closing, CloseClean>>

DidCloseUnclean ==
  /\ ~Closed
  /\ log' = Append(log, CloseUnclean)

DidFail ==
  /\ ~Closed
  /\ log' = log \o <<Error, CloseUnclean>>

LateError ==
  /\ Closed /\ ~Happened("error")
  /\ log' = Append(log, Error)

Next == \/ DidConnect \/ DidReceiveMessage \/ DidCloseClean \/ DidCloseUnclean
        \/ DidFail \/ LateError

Spec == Init /\ [][Next]_log
=============================================================================
