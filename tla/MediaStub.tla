------------------------------ MODULE MediaStub ------------------------------
(***************************************************************************)
(* web/media-stub.js: the media element that guest pages get when the      *)
(* engine has no media support.  It never plays, and it has to be honest   *)
(* about it: load() fails asynchronously with one error event, play()      *)
(* rejects.                                                                *)
(*                                                                         *)
(* Listeners are the guest's own code: whatever they call (src, load,      *)
(* add, remove, dispatchEvent) runs inside the dispatch that called them.  *)
(* `stack' holds the dispatches in progress, the innermost last.           *)
(***************************************************************************)
EXTENDS Integers, Sequences, FiniteSets, SequencesExt

CONSTANTS
  Listeners,   \* functions the guest may subscribe to "error"
  NoListener,  \* onerror = null
  MaxCalls,    \* bound: calls of the guest
  MaxDepth     \* bound: dispatches inside dispatches

ASSUME StubAssumption ==
  NoListener \notin Listeners /\ MaxCalls \in Nat /\ MaxDepth \in Nat \ {0}

VARIABLES
  defined,     \* the stub defined Audio, HTMLMediaElement, ...
  el,          \* the element's fields: src, currentSrc, token, error, networkState
  listeners,   \* el._listeners["error"]: entries with their identity
  onerror,     \* the handler property
  timers,      \* tokens of the failures queued with setTimeout
  stack,       \* dispatches in progress
  \* bookkeeping of the model
  wanted,      \* what the guest asked for: per listener "no", "always", "once"
  calling,     \* the call of a listener that starts in this step
  nextEntry,
  calls

stubVars == <<defined, el, listeners, onerror, timers, stack, wanted, calling, nextEntry, calls>>

Entries == [id : 0..MaxCalls, listener : Listeners, once : BOOLEAN]
\* A dispatch: the handler has been called, the listeners still to call, and
\* whether the guest's code is running.
Dispatches == [fresh : BOOLEAN, todo : Seq(Entries), inGuest : BOOLEAN]

NETWORK_EMPTY == 0
NETWORK_LOADING == 2
NETWORK_NO_SOURCE == 3
MEDIA_ERR_SRC_NOT_SUPPORTED == 4
NoError == 0

StubTypeOK ==
  /\ defined \in BOOLEAN
  /\ el \in [src : {"", "a", "b"}, currentSrc : {"", "a", "b"}, token : 0..MaxCalls,
             error : {NoError, MEDIA_ERR_SRC_NOT_SUPPORTED},
             networkState : {NETWORK_EMPTY, NETWORK_LOADING, NETWORK_NO_SOURCE}]
  /\ listeners \in Seq(Entries) /\ onerror \in Listeners \cup {NoListener}
  /\ timers \subseteq 1..MaxCalls
  /\ stack \in Seq(Dispatches) /\ Len(stack) <= MaxDepth
  /\ wanted \in [Listeners -> {"no", "always", "once"}]
  /\ calling \in Listeners \cup {NoListener}
  /\ nextEntry \in 0..MaxCalls /\ calls \in 0..MaxCalls

\* The array of listeners has each of them once.
ListedOnce ==
  \A i, j \in DOMAIN listeners : listeners[i].listener = listeners[j].listener => i = j

\* The constructor's fields.
NewElement == [src |-> "", currentSrc |-> "", token |-> 0, error |-> NoError,
               networkState |-> NETWORK_EMPTY]

StubInit ==
  /\ defined = FALSE
  /\ el = NewElement /\ listeners = <<>> /\ onerror = NoListener
  /\ timers = {} /\ stack = <<>>
  /\ wanted = [f \in Listeners |-> "no"] /\ calling = NoListener
  /\ nextEntry = 0 /\ calls = 0

-----------------------------------------------------------------------------
(* Who runs: the guest's script, a listener, or nobody *)

Top == stack[Len(stack)]
SetTop(d) == stack' = [stack EXCEPT ![Len(stack)] = d]
GuestRuns == defined /\ (stack # <<>> => Top.inGuest)
GuestCalls == GuestRuns /\ calls < MaxCalls /\ calls' = calls + 1 /\ calling' = NoListener

\* The stub's script: it leaves at once where real elements exist.
EvaluateStub(realElements) ==
  /\ defined' = (defined \/ ~realElements)
  /\ UNCHANGED <<el, listeners, onerror, timers, stack, wanted, calling, nextEntry, calls>>

-----------------------------------------------------------------------------
(* load and src *)

\* Every load invalidates the failures queued before it.
NextToken(e) == e.token + 1

Loaded(e) ==
  IF e.src = ""
  THEN [e EXCEPT !.token = NextToken(e), !.error = NoError, !.currentSrc = "",
                 !.networkState = NETWORK_EMPTY]
  ELSE [e EXCEPT !.token = NextToken(e), !.error = NoError, !.currentSrc = e.src,
                 !.networkState = NETWORK_LOADING]

Load(e) ==
  /\ el' = Loaded(e)
  /\ timers' = IF e.src = "" THEN timers ELSE timers \cup {NextToken(e)}

\* The setter of src, also run by new Audio(src).
SetSrc(value) ==
  /\ GuestCalls
  /\ Load([el EXCEPT !.src = value])
  /\ UNCHANGED <<defined, listeners, onerror, stack, wanted, nextEntry>>

CallLoad ==
  /\ GuestCalls
  /\ Load(el)
  /\ UNCHANGED <<defined, listeners, onerror, stack, wanted, nextEntry>>

-----------------------------------------------------------------------------
(* Listeners *)

SetOnError(f) ==
  /\ GuestCalls
  /\ onerror' = f
  /\ UNCHANGED <<defined, el, listeners, timers, stack, wanted, nextEntry>>

\* A wrong form of the next: nobody asks whether it is there.
NeverRegistered(f) == FALSE
Registered(f) == \E i \in DOMAIN listeners : listeners[i].listener = f

AddEventListener(f, once) ==
  /\ GuestCalls
  /\ IF Registered(f) THEN UNCHANGED <<listeners, nextEntry, wanted>>
     ELSE /\ listeners' = Append(listeners, [id |-> nextEntry, listener |-> f, once |-> once])
          /\ nextEntry' = nextEntry + 1
          /\ wanted' = [wanted EXCEPT ![f] = IF once THEN "once" ELSE "always"]
  /\ UNCHANGED <<defined, el, onerror, timers, stack>>

\* The first entry of the listener goes.
Without(list, f) ==
  LET at == {i \in DOMAIN list : list[i].listener = f}
  IN IF at = {} THEN list ELSE RemoveAt(list, CHOOSE i \in at : \A j \in at : i <= j)

RemoveEventListener(f) ==
  /\ GuestCalls
  /\ listeners' = Without(listeners, f)
  /\ wanted' = [wanted EXCEPT ![f] = "no"]
  /\ UNCHANGED <<defined, el, onerror, timers, stack, nextEntry>>

-----------------------------------------------------------------------------
(* dispatchEvent *)

\* The handler property first, before the listeners are looked up.
BeginDispatch ==
  /\ stack' = Append(stack, [fresh |-> TRUE, todo |-> <<>>, inGuest |-> onerror # NoListener])

DispatchEvent ==
  /\ GuestCalls
  /\ Len(stack) < MaxDepth
  /\ BeginDispatch
  /\ UNCHANGED <<defined, el, listeners, onerror, timers, wanted, nextEntry>>

\* A handler or a listener returns (or throws, which is swallowed).
GuestReturns ==
  /\ stack # <<>> /\ Top.inGuest
  /\ SetTop([Top EXCEPT !.inGuest = FALSE])
  /\ calling' = NoListener
  /\ UNCHANGED <<defined, el, listeners, onerror, timers, wanted, nextEntry, calls>>

\* The snapshot of the listeners.
TakeListeners ==
  /\ stack # <<>> /\ ~Top.inGuest /\ Top.fresh
  /\ SetTop([Top EXCEPT !.fresh = FALSE, !.todo = listeners])
  /\ calling' = NoListener
  /\ UNCHANGED <<defined, el, listeners, onerror, timers, wanted, nextEntry, calls>>

\* A wrong form of the next: no look at the live list.
AlwaysLive(entry) == entry \in Entries
IsLive(entry) == \E i \in DOMAIN listeners : listeners[i] = entry

\* Next of the snapshot: skipped if it is not in the list any more, removed
\* before the call if it is to be called once.
NextListener ==
  /\ stack # <<>> /\ ~Top.inGuest /\ ~Top.fresh /\ Top.todo # <<>>
  /\ LET entry == Head(Top.todo)
         rest  == [Top EXCEPT !.todo = Tail(@)]
     IN IF IsLive(entry)
        THEN /\ SetTop([rest EXCEPT !.inGuest = TRUE])
             /\ listeners' = IF entry.once THEN Without(listeners, entry.listener) ELSE listeners
             /\ calling' = entry.listener
             /\ wanted' = IF wanted[entry.listener] = "once"
                          THEN [wanted EXCEPT ![entry.listener] = "no"] ELSE wanted
        ELSE SetTop(rest) /\ calling' = NoListener /\ UNCHANGED <<listeners, wanted>>
  /\ UNCHANGED <<defined, el, onerror, timers, nextEntry, calls>>

DispatchEnds ==
  /\ stack # <<>> /\ ~Top.inGuest /\ ~Top.fresh /\ Top.todo = <<>>
  /\ stack' = Front(stack)
  /\ calling' = NoListener
  /\ UNCHANGED <<defined, el, listeners, onerror, timers, wanted, nextEntry, calls>>

-----------------------------------------------------------------------------
(* The queued failure *)

\* A wrong form of the next: every failure queued is reported.
AnyToken(token) == token \in timers
IsCurrent(token) == el.token = token

LoadFails(token) ==
  /\ stack = <<>>
  /\ timers' = timers \ {token}
  /\ calling' = NoListener
  /\ IF IsCurrent(token)
     THEN /\ el' = [el EXCEPT !.error = MEDIA_ERR_SRC_NOT_SUPPORTED,
                              !.networkState = NETWORK_NO_SOURCE]
          /\ BeginDispatch
     ELSE UNCHANGED <<el, stack>>
  /\ UNCHANGED <<defined, listeners, onerror, wanted, nextEntry, calls>>

-----------------------------------------------------------------------------
GuestStep ==
  \/ \E value \in {"", "a", "b"} : SetSrc(value)
  \/ CallLoad \/ DispatchEvent
  \/ \E f \in Listeners : \/ \E once \in BOOLEAN : AddEventListener(f, once)
                          \/ RemoveEventListener(f)
  \/ \E f \in Listeners \cup {NoListener} : SetOnError(f)

StubStep ==
  \/ GuestReturns \/ TakeListeners \/ NextListener \/ DispatchEnds
  \/ \E token \in timers : LoadFails(token)

-----------------------------------------------------------------------------
(* Properties *)

\* A listener is called only while the guest wants it: not after it was removed,
\* not even by a listener earlier in the same dispatch; and a once listener not again
\* from a dispatch inside its own call.
OnlyWantedAreCalled ==
  [][(calling' # NoListener /\ stack' # stack) => wanted[calling'] # "no"]_stubVars

\* The element's state tells what becomes of its source: while it is loading, the
\* failure of its latest load is queued, so an error will come; with the error set,
\* it was the latest load's; and a source that was taken away stays empty although
\* failures of earlier loads are still queued.
LoadStateIsHonest ==
  /\ el.networkState = NETWORK_LOADING <=> (el.token \in timers /\ el.currentSrc # "")
  /\ el.error # NoError <=> el.networkState = NETWORK_NO_SOURCE
  /\ el.networkState = NETWORK_EMPTY <=> el.currentSrc = ""

=============================================================================
