--------------------------- MODULE BibResourceLoad ---------------------------
(***************************************************************************)
(* EmbedderStrategies.cpp: how one ResourceLoader of WebCore is driven     *)
(* through one CurlRequest or, across redirects, several; and the          *)
(* self-owning ping loads.                                                 *)
(*                                                                         *)
(* CurlRequest runs in the engine thread's curl pump and reports by        *)
(* callOnMainThread, so a callback is always late: the load may have been  *)
(* cancelled, or be at another hop, when it runs.  WebCore's answers to    *)
(* willSendRequest and didReceiveResponse are completion handlers and late *)
(* too; until the answer the transfer is parked, and says nothing.         *)
(***************************************************************************)
EXTENDS Naturals, Sequences, FiniteSets

CONSTANTS
  Loads, Pings,   \* ResourceLoaders, ping loads
  MaxRedirects,   \* maxRedirects (20)
  Origins         \* protocol, host and port of a URL

ASSUME LoadAssumption == MaxRedirects \in Nat /\ Loads \cap Pings = {}

VARIABLES
  \* WebCore: the ResourceLoaders and what they were told
  loader, heard,
  decision,         \* the completion handler WebCore still has to call
  \* EmbedderLoaderStrategy and BibResourceLoad
  m_loads, m_loader, m_doneCallback, m_redirectCount,
  \* BibPingLoad
  answered,         \* m_completionHandler has been called
  \* both: the CurlRequest held (its hop; 0 is null)
  m_curlRequest,
  \* CurlRequest
  trail,            \* the request of each hop; the last is the loader's own
  transfer,         \* and how its transfer stands
  callbacks,        \* queued for the main thread
  \* cookies
  jar,              \* the last hop whose cookies are stored
  sent              \* what the jar was when the last CurlRequest was made

webCore == <<loader, heard, decision>>
loadVars == <<m_loads, m_loader, m_doneCallback, m_redirectCount>>
curlVars == <<m_curlRequest, trail, transfer, callbacks>>
cookieVars == <<jar, sent>>
vars == <<webCore, loadVars, answered, curlVars, cookieVars>>

Owners == Loads \cup Pings
Methods == {"GET", "POST", "DELETE"}
Requests == [method : Methods, origin : Origins, body : BOOLEAN, auth : BOOLEAN]

\* 302 stands for 301 too, 307 for 308; "file" is a Location of file:.
Redirects == [status : {302, 303, 307}, to : Origins \cup {"file"}]
NotRedirect == [status |-> 200, to |-> "none"]

Live == {"running", "parked", "body", "tail"}
TransferStates == Live \cup {"ended", "cancelled"}
Callbacks ==
  [type : {"data", "complete", "fail"}, hop : Nat]
    \cup [type : {"response"}, hop : Nat, response : Redirects \cup {NotRedirect}]

NoDecision == [type |-> "none"]
Decisions == {NoDecision} \cup [type : {"response"}] \cup [type : {"redirect"}, request : Requests]

\* Loads start as a GET, or a POST with its body, with credentials or not.
FirstRequests ==
  {r \in Requests : (r.body => r.method = "POST") /\ (r.method = "POST" => r.body)}

Init ==
  /\ loader = [l \in Loads |-> "new"]
  /\ heard = [l \in Loads |-> <<>>]
  /\ decision = [l \in Loads |-> NoDecision]
  /\ m_loads = {}
  /\ m_loader = [l \in Loads |-> FALSE]
  /\ m_doneCallback = [l \in Loads |-> FALSE]
  /\ m_redirectCount = [l \in Loads |-> 0]
  /\ answered = [p \in Pings |-> FALSE]
  /\ m_curlRequest = [o \in Owners |-> 0]
  /\ trail = [o \in Owners |-> <<>>]
  /\ transfer = [o \in Owners |-> <<>>]
  /\ callbacks = [o \in Owners |-> <<>>]
  /\ jar = [o \in Owners |-> 0]
  /\ sent = [o \in Owners |-> 0]

-----------------------------------------------------------------------------
(* CurlRequest and libcurl *)

\* What exchange(m_curlRequest, nullptr), cancel and invalidateClient leave.
WithoutCurrent(o) ==
  IF m_curlRequest[o] = 0 THEN transfer[o]
  ELSE [transfer[o] EXCEPT ![m_curlRequest[o]] = "cancelled"]

CancelCurlRequest(o) ==
  /\ transfer' = [transfer EXCEPT ![o] = WithoutCurrent(o)]
  /\ m_curlRequest' = [m_curlRequest EXCEPT ![o] = 0]

\* A wrong form of it: the redirected request starts beside the one it follows.
CreateBesideCurrent(o, request) ==
  /\ trail' = [trail EXCEPT ![o] = Append(@, request)]
  /\ transfer' = [transfer EXCEPT ![o] = Append(@, "running")]
  /\ m_curlRequest' = [m_curlRequest EXCEPT ![o] = Len(transfer[o]) + 1]
  /\ sent' = [sent EXCEPT ![o] = jar[o]]

\* A new CurlRequest in the place of the current one, with the cookies of now.
CreateCurlRequest(o, request) ==
  /\ trail' = [trail EXCEPT ![o] = Append(@, request)]
  /\ transfer' = [transfer EXCEPT ![o] = Append(WithoutCurrent(o), "running")]
  /\ m_curlRequest' = [m_curlRequest EXCEPT ![o] = Len(transfer[o]) + 1]
  /\ sent' = [sent EXCEPT ![o] = jar[o]]

\* A transfer's step that queues a callback.
Report(o, h, state, callback) ==
  /\ transfer' = [transfer EXCEPT ![o][h] = state]
  /\ callbacks' = [callbacks EXCEPT ![o] = Append(@, callback)]
  /\ UNCHANGED <<webCore, loadVars, answered, m_curlRequest, trail,
                 cookieVars>>

\* Pings do not follow redirects, so their responses are all alike.
Respond(o, h) ==
  /\ transfer[o][h] = "running"
  /\ \E response \in (IF o \in Loads THEN Redirects ELSE {}) \cup {NotRedirect} :
       Report(o, h, "parked", [type |-> "response", hop |-> h, response |-> response])

Body(o, h) ==
  /\ transfer[o][h] = "body"
  /\ Report(o, h, "tail", [type |-> "data", hop |-> h])

Complete(o, h) ==
  /\ transfer[o][h] \in {"body", "tail"}
  /\ Report(o, h, "ended", [type |-> "complete", hop |-> h])

Break(o, h) ==
  /\ transfer[o][h] \in {"running", "body", "tail"}
  /\ Report(o, h, "ended", [type |-> "fail", hop |-> h])

Network(o) ==
  \E h \in DOMAIN transfer[o] :
    Respond(o, h) \/ Body(o, h) \/ Complete(o, h) \/ Break(o, h)

\* The head of the callback queue reaches its client: invalidateClient has left a
\* cancelled request without one, and a load listens only to its current request.
Hop(o) == Head(callbacks[o]).hop
IsCurrent(l) == m_loader[l] /\ m_curlRequest[l] = Hop(l)
Heeded(o) == transfer[o][Hop(o)] # "cancelled" /\ (o \in Loads => IsCurrent(o))

Deliver(o, type) ==
  /\ callbacks[o] # <<>> /\ Head(callbacks[o]).type = type
  /\ Heeded(o)
  /\ callbacks' = [callbacks EXCEPT ![o] = Tail(@)]

Ignored(o) ==
  /\ callbacks[o] # <<>> /\ ~Heeded(o)
  /\ callbacks' = [callbacks EXCEPT ![o] = Tail(@)]
  /\ UNCHANGED <<webCore, loadVars, answered, m_curlRequest, trail, transfer, cookieVars>>

-----------------------------------------------------------------------------
(* EmbedderLoaderStrategy *)

Told(l, event, hop) == heard' = [heard EXCEPT ![l] = Append(@, [event |-> event, hop |-> hop])]
Ends(l, how) == loader' = [loader EXCEPT ![l] = how]

\* loadResource of a blocklisted host, and data: and blob: URLs, which never
\* reach curl.
NeverScheduled(l) ==
  /\ loader[l] = "new"
  /\ \/ Ends(l, "failed")
     \/ Ends(l, "local")
  /\ UNCHANGED <<heard, decision, loadVars, answered, curlVars, cookieVars>>

ScheduleLoad(l) ==
  /\ loader[l] = "new"
  /\ loader' = [loader EXCEPT ![l] = "loading"]
  /\ m_loads' = m_loads \cup {l}
  /\ m_loader' = [m_loader EXCEPT ![l] = TRUE]
  /\ m_doneCallback' = [m_doneCallback EXCEPT ![l] = TRUE]
  /\ \E request \in FirstRequests : CreateCurlRequest(l, request)
  /\ UNCHANGED <<heard, decision, m_redirectCount, answered, callbacks, jar>>

\* A wrong form of it: remove() forgets the load and does not cancel it.
RemoveWithoutCancel(l) ==
  /\ loader[l] = "loading"
  /\ Ends(l, "cancelled")
  /\ Told(l, "cancelled", 0)
  /\ m_loads' = m_loads \ {l}
  /\ UNCHANGED <<decision, m_loader, m_doneCallback, m_redirectCount, answered, curlVars,
                 cookieVars>>

\* WebCore gives the load up: ResourceLoader::cancel, which calls remove().
Remove(l) ==
  /\ loader[l] = "loading"
  /\ Ends(l, "cancelled")
  /\ Told(l, "cancelled", 0)
  /\ m_loads' = m_loads \ {l}
  /\ IF l \in m_loads
       THEN CancelCurlRequest(l) /\ m_loader' = [m_loader EXCEPT ![l] = FALSE]
       ELSE UNCHANGED <<m_curlRequest, transfer, m_loader>>
  /\ UNCHANGED <<decision, m_doneCallback, m_redirectCount, answered, trail,
                 callbacks, cookieVars>>

-----------------------------------------------------------------------------
(* BibResourceLoad *)

NotifyDone(l) ==
  /\ m_doneCallback' = [m_doneCallback EXCEPT ![l] = FALSE]
  /\ m_loads' = IF m_doneCallback[l] /\ m_loader[l] THEN m_loads \ {l} ELSE m_loads

\* didFail calls remove(), which finds the load gone from m_loads.
DidFailInternal(l) ==
  /\ NotifyDone(l)
  /\ Ends(l, "failed")
  /\ Told(l, "fail", Hop(l))

ShouldRedirectAsGET(request, status, crossOrigin) ==
  /\ request.method # "GET"
  /\ \/ status = 303
     \/ status = 302 /\ request.method = "POST"
     \/ crossOrigin /\ request.method = "DELETE"

RedirectedRequest(request, redirect) ==
  LET crossOrigin == redirect.to # request.origin
      asGET == ShouldRedirectAsGET(request, redirect.status, crossOrigin)
  IN  [method |-> IF asGET THEN "GET" ELSE request.method,
       origin |-> redirect.to,
       body |-> request.body /\ ~asGET,
       auth |-> request.auth /\ ~crossOrigin]

\* A wrong form of it: the redirects are not counted.
PerformRedirectUncounted(l, redirect) ==
  /\ UNCHANGED m_redirectCount
  /\ IF m_redirectCount[l] > MaxRedirects \/ redirect.to = "file"
       THEN DidFailInternal(l) /\ UNCHANGED decision
       ELSE /\ decision' = [decision EXCEPT ![l] =
                 [type |-> "redirect", request |-> RedirectedRequest(trail[l][Hop(l)], redirect)]]
            /\ Told(l, "redirect", Hop(l))
            /\ UNCHANGED <<loader, m_loads, m_doneCallback>>

PerformRedirect(l, redirect) ==
  /\ m_redirectCount' = [m_redirectCount EXCEPT ![l] = @ + 1]
  /\ IF m_redirectCount[l] > MaxRedirects \/ redirect.to = "file"
       THEN DidFailInternal(l) /\ UNCHANGED decision
       ELSE /\ decision' = [decision EXCEPT ![l] =
                 [type |-> "redirect", request |-> RedirectedRequest(trail[l][Hop(l)], redirect)]]
            /\ Told(l, "redirect", Hop(l))
            /\ UNCHANGED <<loader, m_loads, m_doneCallback>>

\* A wrong form of it: only final responses set cookies.
StoreFinalCookies(o) ==
  jar' = IF Head(callbacks[o]).response = NotRedirect THEN [jar EXCEPT ![o] = Hop(o)] ELSE jar

StoreResponseCookies(o) == jar' = [jar EXCEPT ![o] = Hop(o)]

ReceiveResponse(l) ==
  LET response == Head(callbacks[l]).response IN
  /\ Deliver(l, "response")
  /\ StoreResponseCookies(l)
  /\ IF response = NotRedirect
       THEN /\ decision' = [decision EXCEPT ![l] = [type |-> "response"]]
            /\ Told(l, "response", Hop(l))
            /\ UNCHANGED <<loader, m_loads, m_doneCallback, m_redirectCount>>
       ELSE PerformRedirect(l, response)
  /\ UNCHANGED <<m_loader, answered, m_curlRequest, trail, transfer, sent>>

ReceiveData(l) ==
  /\ Deliver(l, "data")
  /\ Told(l, "data", Hop(l))
  /\ UNCHANGED <<loader, decision, loadVars, answered, m_curlRequest, trail, transfer, cookieVars>>

DidComplete(l) ==
  /\ Deliver(l, "complete")
  /\ NotifyDone(l)
  /\ Ends(l, "finished")
  /\ Told(l, "finish", Hop(l))
  /\ UNCHANGED <<decision, m_loader, m_redirectCount, answered, m_curlRequest, trail,
                 transfer, cookieVars>>

DidFailWithError(l) ==
  /\ Deliver(l, "fail")
  /\ DidFailInternal(l)
  /\ UNCHANGED <<decision, m_loader, m_redirectCount, answered, m_curlRequest, trail,
                 transfer, cookieVars>>

-----------------------------------------------------------------------------
(* WebCore's answers *)

\* completeDidReceiveResponse: the parked transfer goes on.
Proceed(l) ==
  /\ decision[l].type = "response"
  /\ decision' = [decision EXCEPT ![l] = NoDecision]
  /\ transfer' = IF m_curlRequest[l] # 0 /\ m_loader[l]
                   THEN [transfer EXCEPT ![l][m_curlRequest[l]] = "body"]
                   ELSE transfer
  /\ UNCHANGED <<loader, heard, loadVars, answered, m_curlRequest, trail, callbacks, cookieVars>>

\* willSendRequest refused the redirect, or the load was cancelled meanwhile.
StopRedirect(l) ==
  /\ decision[l].type = "redirect"
  /\ decision' = [decision EXCEPT ![l] = NoDecision]
  /\ CancelCurlRequest(l)
  /\ NotifyDone(l)
  /\ UNCHANGED <<loader, heard, m_loader, m_redirectCount, answered, trail, callbacks, cookieVars>>

FollowRedirect(l) ==
  /\ decision[l].type = "redirect" /\ m_loader[l]
  /\ decision' = [decision EXCEPT ![l] = NoDecision]
  /\ CreateCurlRequest(l, decision[l].request)
  /\ UNCHANGED <<loader, heard, loadVars, answered, callbacks, jar>>

-----------------------------------------------------------------------------
(* BibPingLoad *)

StartPing(p) ==
  /\ trail[p] = <<>>
  /\ \E request \in {r \in FirstRequests : r.body /\ ~r.auth} : CreateCurlRequest(p, request)
  /\ UNCHANGED <<webCore, loadVars, answered, callbacks, jar>>

Finish(p) ==
  /\ answered' = [answered EXCEPT ![p] = TRUE]
  /\ CancelCurlRequest(p)

\* A wrong form of it: a ping waits for the end of the transfer.
PingAwaitsEnd(p) ==
  /\ Deliver(p, "response")
  /\ StoreResponseCookies(p)
  /\ UNCHANGED <<webCore, loadVars, answered, m_curlRequest, trail, transfer, sent>>

PingResponse(p) ==
  /\ Deliver(p, "response")
  /\ StoreResponseCookies(p)
  /\ Finish(p)
  /\ UNCHANGED <<webCore, loadVars, trail, sent>>

PingEnds(p) ==
  /\ \E type \in {"complete", "fail"} : Deliver(p, type)
  /\ Finish(p)
  /\ UNCHANGED <<webCore, loadVars, trail, cookieVars>>

-----------------------------------------------------------------------------
Callback(o) ==
  \/ Ignored(o)
  \/ /\ o \in Loads
     /\ \/ ReceiveResponse(o)
        \/ ReceiveData(o)
        \/ DidComplete(o)
        \/ DidFailWithError(o)
  \/ /\ o \in Pings
     /\ PingResponse(o) \/ PingEnds(o)

Decide(l) == Proceed(l) \/ StopRedirect(l) \/ FollowRedirect(l)

Next ==
  \/ \E o \in Owners : Network(o) \/ Callback(o)
  \/ \E l \in Loads : NeverScheduled(l) \/ ScheduleLoad(l) \/ Remove(l) \/ Decide(l)
  \/ \E p \in Pings : StartPing(p)

Spec == Init /\ [][Next]_vars

\* A refused load is torn down by WebCore itself.
TearDown(l) == l \notin m_loads /\ Remove(l)

\* The pump runs while a transfer is under way (EnginePump), and the network
\* answers or breaks; the RunLoop runs what is queued; WebCore calls its
\* completion handlers.
Fairness ==
  /\ \A o \in Owners : WF_vars(Network(o)) /\ WF_vars(Callback(o))
  /\ \A l \in Loads : WF_vars(Decide(l)) /\ WF_vars(TearDown(l))

FairSpec == Spec /\ Fairness

-----------------------------------------------------------------------------
(* Properties *)

\* Types; and a load makes no more than MaxRedirects + 2 requests, because
\* performRedirect compares the count before it is incremented.
TypeOK ==
  /\ loader \in [Loads -> {"new", "local", "loading", "finished", "failed", "cancelled"}]
  /\ \A l \in Loads : decision[l] \in Decisions
  /\ m_loads \subseteq Loads
  /\ m_loader \in [Loads -> BOOLEAN] /\ m_doneCallback \in [Loads -> BOOLEAN]
  /\ m_redirectCount \in [Loads -> 0..MaxRedirects + 2]
  /\ answered \in [Pings -> BOOLEAN]
  /\ \A o \in Owners :
       /\ trail[o] \in Seq(Requests) /\ Len(trail[o]) <= MaxRedirects + 2
       /\ transfer[o] \in Seq(TransferStates) /\ Len(transfer[o]) = Len(trail[o])
       /\ m_curlRequest[o] \in 0..Len(trail[o])
       /\ callbacks[o] \in Seq(Callbacks)
       /\ jar[o] \in 0..Len(trail[o]) /\ sent[o] \in 0..Len(trail[o])

\* What WebCore relies on: a loader is told of hops in order, of data only after
\* the response of the same hop, of one ending, and of nothing after it --
\* whatever old callbacks were queued when it was redirected or cancelled.
Ending == {"finish", "fail", "cancelled"}
LoaderContract ==
  \A l \in Loads : \A i, j \in DOMAIN heard[l] :
    /\ heard[l][i].event \in Ending => i = Len(heard[l])
    /\ i < j /\ heard[l][j].event # "cancelled" => heard[l][i].hop <= heard[l][j].hop
    /\ heard[l][i].event \in {"data", "finish"} =>
         \E k \in 1..i - 1 : heard[l][k] = [event |-> "response", hop |-> heard[l][i].hop]

\* No load or ping has two transfers under way: each redirect ends the parked
\* one, and what is under way is the request its owner can still cancel.
OneTransfer ==
  \A o \in Owners : \A h \in DOMAIN transfer[o] :
    transfer[o][h] \in Live => m_curlRequest[o] = h

\* Cookies set on a redirect leg go with the request of the next hop (login and
\* consent flows): they are stored before the redirect is performed.
CookiesFollowRedirects ==
  \A l \in Loads : m_curlRequest[l] > 0 => sent[l] = m_curlRequest[l] - 1

\* Once a chain has left the loader's first origin its Authorization header is
\* never sent again, not even back home; and no GET of a chain carries a body.
RedirectsSanitized ==
  \A l \in Loads : \A h \in DOMAIN trail[l] :
    /\ trail[l][h].auth => \A g \in 1..h : trail[l][g].origin = trail[l][1].origin
    /\ trail[l][h].method = "GET" => ~trail[l][h].body

\* Every leg of a chain carries what it should: the cookies of the legs before it,
\* and no credentials that were dropped on the way.
LegsSound == CookiesFollowRedirects /\ RedirectsSanitized

\* Every load and every ping ends, also one whose server redirects forever, whose
\* redirect is refused, or that is cancelled while an answer is on its way.
LoadsEnd ==
  /\ \A l \in Loads : loader[l] = "loading" ~> loader[l] # "loading"
  /\ \A p \in Pings : m_curlRequest[p] # 0 ~> answered[p]

\* EmbedderStrategies.cpp:330-333, "the current CurlRequest is parked waiting for
\* completeDidReceiveResponse and must not leak": a load that has ended holds no
\* parked transfer.
ParkedRequestsDoNotLeak ==
  \A l \in Loads : loader[l] \in {"finished", "failed", "cancelled"} =>
    \A h \in DOMAIN transfer[l] : transfer[l][h] # "parked"
=============================================================================
