------------------------- MODULE ResourceLoadProofs -------------------------
(***************************************************************************)
(* One ResourceLoader over a chain of redirects, for any number of loads   *)
(* and pings, any redirect limit and any set of origins: what its loader   *)
(* is told, which transfers are under way, and what each request of the    *)
(* chain carries.                                                          *)
(*                                                                         *)
(* Callbacks are always late, so the argument is about the queue: it only  *)
(* ever holds callbacks of the last hop, and while the load still listens  *)
(* to that hop (its m_curlRequest is not null) what is queued fits how the *)
(* transfer stands.  A load that is not loading has nothing left to hear.  *)
(***************************************************************************)
EXTENDS BibResourceLoad, SequenceLemmas

HeardEvents == {"response", "redirect", "data"} \cup Ending

LoadsTyped ==
  /\ loader \in [Loads -> {"new", "local", "loading", "finished", "failed", "cancelled"}]
  /\ heard \in [Loads -> Seq([event : HeardEvents, hop : Nat])]
  /\ decision \in [Loads -> Decisions]
  /\ m_loads \subseteq Loads
  /\ m_loader \in [Loads -> BOOLEAN] /\ m_doneCallback \in [Loads -> BOOLEAN]
  /\ m_redirectCount \in [Loads -> 0..MaxRedirects + 2]
  /\ answered \in [Pings -> BOOLEAN]

CurlTyped ==
  /\ trail \in [Owners -> Seq(Requests)]
  /\ transfer \in [Owners -> Seq(TransferStates)]
  /\ callbacks \in [Owners -> Seq(Callbacks)]
  /\ m_curlRequest \in [Owners -> Nat]
  /\ jar \in [Owners -> Nat] /\ sent \in [Owners -> Nat]

Typed == LoadsTyped /\ CurlTyped

Hops(o) == Len(trail[o])
\* How the transfer of the last hop stands.
Stands(o) == transfer[o][Hops(o)]

\* The owner listens to its last hop or to none, and only that one is under way.
HopsAgree(o) ==
  /\ Len(transfer[o]) = Hops(o)
  /\ m_curlRequest[o] \in {0, Hops(o)}
  /\ jar[o] <= Hops(o) /\ sent[o] <= Hops(o)
  /\ \A i \in DOMAIN callbacks[o] : callbacks[o][i].hop = Hops(o) /\ Hops(o) # 0
  /\ \A h \in DOMAIN transfer[o] : transfer[o][h] \in Live => m_curlRequest[o] = h
  /\ o \in Pings => Hops(o) <= 1

BeginsNew(l) ==
  loader[l] = "new" =>
    /\ trail[l] = <<>> /\ callbacks[l] = <<>> /\ decision[l].type = "none" /\ heard[l] = <<>>
    /\ m_redirectCount[l] = 0

\* What is queued fits how the transfer stands, while somebody listens.
QueueFits(l) ==
  m_curlRequest[l] # 0 =>
    /\ decision[l].type # "none" =>
         callbacks[l] = <<>> /\ Stands(l) = "parked" /\ loader[l] = "loading"
    /\ Stands(l) \in {"running", "body"} => callbacks[l] = <<>>
    /\ \A i \in DOMAIN callbacks[l] :
         /\ callbacks[l][i].type = "response" => Len(callbacks[l]) = 1 /\ Stands(l) = "parked"
         /\ callbacks[l][i].type \in {"complete", "fail"} =>
              i = Len(callbacks[l]) /\ Stands(l) = "ended"

\* A load that has ended hears nothing more; one that is out of m_loads has let go.
Quiet(l) ==
  /\ loader[l] # "loading" /\ m_curlRequest[l] # 0 =>
       callbacks[l] = <<>> /\ Stands(l) \in {"parked", "ended"}
  /\ loader[l] = "loading" /\ l \notin m_loads => m_curlRequest[l] = 0
  /\ decision[l].type = "redirect" /\ m_loader[l] => m_curlRequest[l] # 0

ResponseHeard(l) ==
  \E k \in DOMAIN heard[l] : heard[l][k] = [event |-> "response", hop |-> Hops(l)]

\* Bytes and the end of them are on their way only after the loader heard a response.
HearsInOrder(l) ==
  /\ \A i \in DOMAIN heard[l] : heard[l][i].hop <= Hops(l)
  /\ loader[l] = "loading" => \A i \in DOMAIN heard[l] : heard[l][i].event \notin Ending
  /\ Hops(l) # 0 /\ Stands(l) \in {"body", "tail"} => ResponseHeard(l)
  /\ (\E i \in DOMAIN callbacks[l] : callbacks[l][i].type \in {"data", "complete"})
       => ResponseHeard(l)
  /\ decision[l].type = "response" => ResponseHeard(l)

\* The contract of LoaderContract, for one load.
Contract(l) ==
  \A i, j \in DOMAIN heard[l] :
    /\ heard[l][i].event \in Ending => i = Len(heard[l])
    /\ i < j /\ heard[l][j].event # "cancelled" => heard[l][i].hop <= heard[l][j].hop
    /\ heard[l][i].event \in {"data", "finish"} =>
         \E k \in 1..i - 1 : heard[l][k] = [event |-> "response", hop |-> heard[l][i].hop]

\* Every hop but the first costs a redirect, counted when it is decided.
Counts(l) ==
  /\ Hops(l) <= m_redirectCount[l] + 1
  /\ decision[l].type = "redirect" => Hops(l) <= m_redirectCount[l]
  /\ loader[l] = "loading" => m_redirectCount[l] <= MaxRedirects + 1
  /\ Hops(l) <= MaxRedirects + 2

Sanitized(l) ==
  /\ \A h \in DOMAIN trail[l] :
       /\ trail[l][h].auth => \A g \in 1..h : trail[l][g].origin = trail[l][1].origin
       /\ trail[l][h].method = "GET" => ~trail[l][h].body
  /\ decision[l].type = "redirect" =>
       /\ Hops(l) # 0
       /\ decision[l].request.auth =>
            \A g \in DOMAIN trail[l] : trail[l][g].origin = decision[l].request.origin
       /\ decision[l].request.method = "GET" => ~decision[l].request.body

CookiesCarried(l) ==
  /\ m_curlRequest[l] > 0 => sent[l] = m_curlRequest[l] - 1
  /\ decision[l].type = "redirect" => jar[l] = Hops(l)
  /\ Hops(l) = 0 => jar[l] = 0

LoadInv(l) ==
  /\ BeginsNew(l)
  /\ QueueFits(l)
  /\ Quiet(l)
  /\ HearsInOrder(l)
  /\ Contract(l)
  /\ Counts(l)
  /\ Sanitized(l)
  /\ CookiesCarried(l)

IInv ==
  /\ Typed
  /\ \A o \in Owners : HopsAgree(o)
  /\ \A l \in Loads : LoadInv(l)

-----------------------------------------------------------------------------
(* What the parts of an action do *)

USE DEF webCore, loadVars, curlVars, cookieVars, vars

LEMMA Kinds ==
  /\ Loads \subseteq Owners /\ Pings \subseteq Owners /\ Loads \cap Pings = {}
  /\ \A l \in Loads : l \notin Pings
  /\ \A d \in Decisions : d.type \in {"none", "response", "redirect"}
                          /\ (d.type = "redirect" => d.request \in Requests)
  /\ NoDecision \in Decisions /\ NoDecision.type = "none"
  /\ [type |-> "response"] \in Decisions
  /\ \A r \in Requests : [type |-> "redirect", request |-> r] \in Decisions
  /\ \A c \in Callbacks : /\ c.type \in {"response", "data", "complete", "fail"}
                          /\ c.hop \in Nat
                          /\ c.type = "response" => c.response \in Redirects \cup {NotRedirect}
BY LoadAssumption DEF Owners, Decisions, NoDecision, Callbacks

\* The other owners have no part in a step.
OthersKeep(o) ==
  \A x \in Owners : x # o =>
    /\ trail'[x] = trail[x] /\ transfer'[x] = transfer[x] /\ callbacks'[x] = callbacks[x]
    /\ m_curlRequest'[x] = m_curlRequest[x] /\ jar'[x] = jar[x] /\ sent'[x] = sent[x]
LoadsKeep(o) ==
  \A x \in Loads : x # o =>
    /\ loader'[x] = loader[x] /\ heard'[x] = heard[x] /\ decision'[x] = decision[x]
    /\ (x \in m_loads' <=> x \in m_loads)
    /\ m_loader'[x] = m_loader[x] /\ m_redirectCount'[x] = m_redirectCount[x]

LEMMA OthersInvariant ==
  ASSUME NEW o \in Owners, OthersKeep(o), NEW x \in Owners, x # o, HopsAgree(x)
  PROVE  HopsAgree(x)'
BY DEF OthersKeep, HopsAgree, Hops

LEMMA LoadUntouched ==
  ASSUME NEW x \in Loads, LoadInv(x),
         trail'[x] = trail[x], transfer'[x] = transfer[x], callbacks'[x] = callbacks[x],
         m_curlRequest'[x] = m_curlRequest[x], jar'[x] = jar[x], sent'[x] = sent[x],
         loader'[x] = loader[x], heard'[x] = heard[x], decision'[x] = decision[x],
         x \in m_loads' <=> x \in m_loads,
         m_loader'[x] = m_loader[x], m_redirectCount'[x] = m_redirectCount[x]
  PROVE  LoadInv(x)'
<1>1. /\ trail'[x] = trail[x] /\ transfer'[x] = transfer[x] /\ callbacks'[x] = callbacks[x]
      /\ m_curlRequest'[x] = m_curlRequest[x] /\ jar'[x] = jar[x] /\ sent'[x] = sent[x]
  OBVIOUS
<1>2. /\ loader'[x] = loader[x] /\ heard'[x] = heard[x] /\ decision'[x] = decision[x]
      /\ (x \in m_loads' <=> x \in m_loads)
      /\ m_loader'[x] = m_loader[x] /\ m_redirectCount'[x] = m_redirectCount[x]
  OBVIOUS
<1>3. Hops(x)' = Hops(x) /\ Stands(x)' = Stands(x)
  BY <1>1 DEF Hops, Stands
<1>4. BeginsNew(x)' /\ QueueFits(x)' /\ Quiet(x)' /\ Counts(x)'
  BY <1>1, <1>2, <1>3 DEF LoadInv, BeginsNew, QueueFits, Quiet, Counts
<1>5. HearsInOrder(x)' /\ Contract(x)'
  BY <1>1, <1>2, <1>3, SMTT(30) DEF LoadInv, HearsInOrder, ResponseHeard, Contract
<1>6. Sanitized(x)' /\ CookiesCarried(x)'
  BY <1>1, <1>2, <1>3 DEF LoadInv, Sanitized, CookiesCarried
<1> QED
  BY <1>4, <1>5, <1>6 DEF LoadInv

LEMMA LoadsInvariant ==
  ASSUME NEW o \in Owners, OthersKeep(o), LoadsKeep(o), NEW x \in Loads, x # o, LoadInv(x)
  PROVE  LoadInv(x)'
BY Kinds, LoadUntouched DEF OthersKeep, LoadsKeep

\* The transfer of an owner without its current request.
LEMMA CurrentGone ==
  ASSUME Typed, NEW o \in Owners, HopsAgree(o)
  PROVE  /\ WithoutCurrent(o) \in Seq(TransferStates)
         /\ Len(WithoutCurrent(o)) = Hops(o) /\ Hops(o) \in Nat
         /\ DOMAIN WithoutCurrent(o) = 1..Hops(o)
         /\ \A h \in 1..Hops(o) : WithoutCurrent(o)[h] \notin Live
<1>1. /\ transfer[o] \in Seq(TransferStates) /\ Len(transfer[o]) = Hops(o) /\ Hops(o) \in Nat
      /\ DOMAIN transfer[o] = 1..Hops(o) /\ m_curlRequest[o] \in {0, Hops(o)}
  BY LenProperties DEF Typed, CurlTyped, HopsAgree, Hops
<1>2. CASE m_curlRequest[o] = 0
  BY <1>1, <1>2 DEF WithoutCurrent, HopsAgree
<1>3. CASE m_curlRequest[o] # 0
  <2>1. m_curlRequest[o] \in DOMAIN transfer[o]
    BY <1>1, <1>3
  <2>2. "cancelled" \in TransferStates /\ "cancelled" \notin Live
    BY DEF TransferStates, Live
  <2>3. WithoutCurrent(o) = [transfer[o] EXCEPT ![m_curlRequest[o]] = "cancelled"]
    BY <1>3 DEF WithoutCurrent
  <2>4. /\ WithoutCurrent(o) \in Seq(TransferStates)
        /\ Len(WithoutCurrent(o)) = Hops(o)
        /\ DOMAIN WithoutCurrent(o) = 1..Hops(o)
        /\ WithoutCurrent(o)[m_curlRequest[o]] = "cancelled"
        /\ \A k \in DOMAIN transfer[o] :
             k # m_curlRequest[o] => WithoutCurrent(o)[k] = transfer[o][k]
    BY <1>1, <2>1, <2>2, <2>3, OneChanged
  <2> QED
    BY <1>1, <2>2, <2>4 DEF HopsAgree
<1> QED
  BY <1>2, <1>3

LEMMA CancelFacts ==
  ASSUME Typed, NEW o \in Owners, HopsAgree(o), CancelCurlRequest(o)
  PROVE  /\ transfer' \in [Owners -> Seq(TransferStates)]
         /\ m_curlRequest' \in [Owners -> Nat]
         /\ transfer'[o] = WithoutCurrent(o) /\ m_curlRequest'[o] = 0
         /\ \A x \in Owners : x # o => /\ transfer'[x] = transfer[x]
                                       /\ m_curlRequest'[x] = m_curlRequest[x]
BY CurrentGone DEF CancelCurlRequest, Typed, CurlTyped

\* The next hop.
LEMMA CreateFacts ==
  ASSUME Typed, NEW o \in Owners, HopsAgree(o), NEW request \in Requests,
         CreateCurlRequest(o, request)
  PROVE  /\ trail' \in [Owners -> Seq(Requests)] /\ transfer' \in [Owners -> Seq(TransferStates)]
         /\ m_curlRequest' \in [Owners -> Nat] /\ sent' \in [Owners -> Nat]
         /\ Hops(o) \in Nat /\ Hops(o)' = Hops(o) + 1
         /\ DOMAIN trail[o] = 1..Hops(o) /\ DOMAIN trail'[o] = 1..(Hops(o) + 1)
         /\ trail'[o][Hops(o) + 1] = request
         /\ \A h \in 1..Hops(o) : trail'[o][h] = trail[o][h]
         /\ Len(transfer'[o]) = Hops(o) + 1 /\ DOMAIN transfer'[o] = 1..(Hops(o) + 1)
         /\ transfer'[o][Hops(o) + 1] = "running"
         /\ \A h \in 1..Hops(o) : transfer'[o][h] \notin Live
         /\ m_curlRequest'[o] = Hops(o) + 1 /\ sent'[o] = jar[o]
         /\ \A x \in Owners : x # o =>
              /\ trail'[x] = trail[x] /\ transfer'[x] = transfer[x]
              /\ m_curlRequest'[x] = m_curlRequest[x] /\ sent'[x] = sent[x]
<1> DEFINE w == WithoutCurrent(o)
<1>1. /\ w \in Seq(TransferStates) /\ Len(w) = Hops(o) /\ Hops(o) \in Nat
      /\ DOMAIN w = 1..Hops(o) /\ \A h \in 1..Hops(o) : w[h] \notin Live
  BY CurrentGone
<1>2. trail[o] \in Seq(Requests) /\ Len(transfer[o]) = Hops(o) /\ Hops(o) = Len(trail[o])
  BY DEF Typed, CurlTyped, HopsAgree, Hops
<1>3. "running" \in TransferStates
  BY DEF TransferStates, Live
<1>4. /\ trail' = [trail EXCEPT ![o] = Append(trail[o], request)]
      /\ transfer' = [transfer EXCEPT ![o] = Append(w, "running")]
      /\ m_curlRequest' = [m_curlRequest EXCEPT ![o] = Hops(o) + 1]
      /\ sent' = [sent EXCEPT ![o] = jar[o]]
  BY <1>2 DEF CreateCurlRequest
<1> HIDE DEF w
<1>5. /\ Append(trail[o], request) \in Seq(Requests)
      /\ Len(Append(trail[o], request)) = Hops(o) + 1
      /\ DOMAIN trail[o] = 1..Hops(o)
      /\ DOMAIN Append(trail[o], request) = 1..(Hops(o) + 1)
      /\ Append(trail[o], request)[Hops(o) + 1] = request
      /\ \A h \in 1..Hops(o) : Append(trail[o], request)[h] = trail[o][h]
  BY <1>2, OneMore
<1>6. /\ Append(w, "running") \in Seq(TransferStates)
      /\ Len(Append(w, "running")) = Hops(o) + 1
      /\ DOMAIN Append(w, "running") = 1..(Hops(o) + 1)
      /\ Append(w, "running")[Hops(o) + 1] = "running"
      /\ \A h \in 1..Hops(o) : Append(w, "running")[h] = w[h]
  BY <1>1, <1>3, OneMore
<1>7. trail'[o] = Append(trail[o], request) /\ transfer'[o] = Append(w, "running")
  BY <1>4 DEF Typed, CurlTyped
<1>8. /\ trail' \in [Owners -> Seq(Requests)] /\ transfer' \in [Owners -> Seq(TransferStates)]
      /\ m_curlRequest' \in [Owners -> Nat] /\ sent' \in [Owners -> Nat]
      /\ m_curlRequest'[o] = Hops(o) + 1 /\ sent'[o] = jar[o]
      /\ \A x \in Owners : x # o =>
           /\ trail'[x] = trail[x] /\ transfer'[x] = transfer[x]
           /\ m_curlRequest'[x] = m_curlRequest[x] /\ sent'[x] = sent[x]
  BY <1>1, <1>4, <1>5, <1>6 DEF Typed, CurlTyped
<1>9. Hops(o)' = Hops(o) + 1
  BY <1>5, <1>7 DEF Hops
<1> QED
  BY <1>1, <1>5, <1>6, <1>7, <1>8, <1>9

\* A transfer reports: only the current one does.
Reports(o, state, callback) ==
  /\ callback.hop = Hops(o)
  /\ \/ Stands(o) = "running" /\ state = "parked" /\ callback.type = "response"
     \/ Stands(o) = "body" /\ state = "tail" /\ callback.type = "data"
     \/ Stands(o) \in {"body", "tail"} /\ state = "ended" /\ callback.type = "complete"
     \/ Stands(o) \in {"running", "body", "tail"} /\ state = "ended" /\ callback.type = "fail"
  /\ Report(o, Hops(o), state, callback)

LEMMA NetworkFacts ==
  ASSUME Typed, NEW o \in Owners, HopsAgree(o), Network(o)
  PROVE  /\ Hops(o) \in Nat \ {0} /\ m_curlRequest[o] = Hops(o)
         /\ \E state \in TransferStates, callback \in Callbacks : Reports(o, state, callback)
<1>1. /\ Hops(o) \in Nat /\ DOMAIN transfer[o] = 1..Hops(o)
      /\ transfer[o] \in Seq(TransferStates) /\ m_curlRequest[o] \in {0, Hops(o)}
  BY LenProperties DEF Typed, CurlTyped, HopsAgree, Hops
<1>2. PICK h \in DOMAIN transfer[o] :
        Respond(o, h) \/ Body(o, h) \/ Complete(o, h) \/ Break(o, h)
  BY DEF Network
<1>3. transfer[o][h] \in {"running", "body", "tail"}
  BY <1>2 DEF Respond, Body, Complete, Break
<1>4. h = Hops(o) /\ m_curlRequest[o] = Hops(o) /\ Hops(o) # 0
  BY <1>1, <1>3 DEF HopsAgree, Live
<1>5. "parked" \in TransferStates /\ "tail" \in TransferStates /\ "ended" \in TransferStates
  BY DEF TransferStates, Live
<1>6. CASE Respond(o, h)
  <2>1. PICK response \in Redirects \cup {NotRedirect} :
          Report(o, h, "parked", [type |-> "response", hop |-> h, response |-> response])
    BY <1>6 DEF Respond
  <2>2. [type |-> "response", hop |-> h, response |-> response] \in Callbacks
    BY <1>1, <1>4 DEF Callbacks
  <2> QED
    BY <1>1, <1>4, <1>5, <1>6, <2>1, <2>2 DEF Reports, Respond, Stands
<1>7. \A type \in {"data", "complete", "fail"} : [type |-> type, hop |-> h] \in Callbacks
  BY <1>1, <1>4 DEF Callbacks
<1>8. CASE Body(o, h)
  BY <1>1, <1>4, <1>5, <1>7, <1>8 DEF Body, Reports, Stands
<1>9. CASE Complete(o, h)
  BY <1>1, <1>4, <1>5, <1>7, <1>9 DEF Complete, Reports, Stands
<1>10. CASE Break(o, h)
  BY <1>1, <1>4, <1>5, <1>7, <1>10 DEF Break, Reports, Stands
<1> QED
  BY <1>1, <1>2, <1>4, <1>6, <1>8, <1>9, <1>10

LEMMA ReportFacts ==
  ASSUME Typed, NEW o \in Owners, HopsAgree(o), Hops(o) # 0,
         NEW state \in TransferStates, NEW callback \in Callbacks,
         Report(o, Hops(o), state, callback)
  PROVE  /\ transfer' \in [Owners -> Seq(TransferStates)]
         /\ callbacks' \in [Owners -> Seq(Callbacks)]
         /\ Hops(o)' = Hops(o) /\ Stands(o)' = state
         /\ Len(transfer'[o]) = Hops(o) /\ DOMAIN transfer'[o] = DOMAIN transfer[o]
         /\ DOMAIN transfer[o] = 1..Hops(o)
         /\ \A h \in DOMAIN transfer[o] : h # Hops(o) => transfer'[o][h] = transfer[o][h]
         /\ Len(callbacks[o]) \in Nat /\ DOMAIN callbacks[o] = 1..Len(callbacks[o])
         /\ Len(callbacks'[o]) = Len(callbacks[o]) + 1
         /\ DOMAIN callbacks'[o] = 1..(Len(callbacks[o]) + 1)
         /\ \A i \in 1..Len(callbacks[o]) : callbacks'[o][i] = callbacks[o][i]
         /\ callbacks'[o][Len(callbacks[o]) + 1] = callback
         /\ OthersKeep(o)
<1>1. /\ transfer[o] \in Seq(TransferStates) /\ callbacks[o] \in Seq(Callbacks)
      /\ DOMAIN transfer[o] = 1..Hops(o) /\ Hops(o) \in Nat /\ Len(transfer[o]) = Hops(o)
  BY LenProperties DEF Typed, CurlTyped, HopsAgree, Hops
<1> DEFINE t == [transfer[o] EXCEPT ![Hops(o)] = state]
<1> DEFINE q == Append(callbacks[o], callback)
<1>2. transfer' = [transfer EXCEPT ![o] = t] /\ callbacks' = [callbacks EXCEPT ![o] = q]
  BY DEF Report
<1>3. /\ t \in Seq(TransferStates) /\ Len(t) = Hops(o) /\ DOMAIN t = DOMAIN transfer[o]
      /\ t[Hops(o)] = state /\ \A h \in DOMAIN transfer[o] : h # Hops(o) => t[h] = transfer[o][h]
  BY <1>1, OneChanged
<1>4. /\ Len(callbacks[o]) \in Nat /\ DOMAIN callbacks[o] = 1..Len(callbacks[o])
      /\ q \in Seq(Callbacks) /\ Len(q) = Len(callbacks[o]) + 1
      /\ DOMAIN q = 1..(Len(callbacks[o]) + 1)
      /\ \A i \in 1..Len(callbacks[o]) : q[i] = callbacks[o][i]
      /\ q[Len(callbacks[o]) + 1] = callback
  BY <1>1, OneMore
<1> HIDE DEF t, q
<1>5. transfer'[o] = t /\ callbacks'[o] = q
  BY <1>2 DEF Typed, CurlTyped
<1>6. /\ transfer' \in [Owners -> Seq(TransferStates)]
      /\ callbacks' \in [Owners -> Seq(Callbacks)]
  BY <1>2, <1>3, <1>4 DEF Typed, CurlTyped
<1>7. OthersKeep(o)
  BY <1>2 DEF OthersKeep, Report, Typed, CurlTyped
<1>8. Hops(o)' = Hops(o) /\ Stands(o)' = state
  BY <1>3, <1>5 DEF Hops, Stands, Report
<1> QED
  BY <1>1, <1>3, <1>4, <1>5, <1>6, <1>7, <1>8

\* A callback leaves the queue.
LEMMA PopFacts ==
  ASSUME Typed, NEW o \in Owners, HopsAgree(o), callbacks[o] # <<>>,
         callbacks' = [callbacks EXCEPT ![o] = Tail(@)]
  PROVE  /\ callbacks' \in [Owners -> Seq(Callbacks)]
         /\ Head(callbacks[o]) \in Callbacks /\ Head(callbacks[o]) = callbacks[o][1]
         /\ 1 \in DOMAIN callbacks[o] /\ Hop(o) = Hops(o) /\ Hops(o) \in Nat \ {0}
         /\ Len(callbacks[o]) \in Nat \ {0} /\ DOMAIN callbacks[o] = 1..Len(callbacks[o])
         /\ Len(callbacks'[o]) = Len(callbacks[o]) - 1
         /\ DOMAIN callbacks'[o] = 1..(Len(callbacks[o]) - 1)
         /\ \A i \in 1..(Len(callbacks[o]) - 1) :
              /\ callbacks'[o][i] = callbacks[o][i + 1]
              /\ i + 1 \in DOMAIN callbacks[o]
         /\ Len(callbacks[o]) = 1 => callbacks'[o] = <<>>
         /\ \A x \in Owners : x # o => callbacks'[x] = callbacks[x]
<1>1. callbacks[o] \in Seq(Callbacks) /\ trail[o] \in Seq(Requests)
  BY DEF Typed, CurlTyped
<1>2. callbacks' = [callbacks EXCEPT ![o] = Tail(callbacks[o])]
  OBVIOUS
<1>3. callbacks'[o] = Tail(callbacks[o])
  BY <1>2 DEF Typed, CurlTyped
<1>4. /\ Len(callbacks[o]) \in Nat \ {0} /\ DOMAIN callbacks[o] = 1..Len(callbacks[o])
      /\ callbacks'[o] \in Seq(Callbacks) /\ Len(callbacks'[o]) = Len(callbacks[o]) - 1
      /\ DOMAIN callbacks'[o] = 1..(Len(callbacks[o]) - 1)
      /\ \A i \in 1..(Len(callbacks[o]) - 1) : callbacks'[o][i] = callbacks[o][i + 1]
      /\ 1 \in DOMAIN callbacks[o] /\ Head(callbacks[o]) = callbacks[o][1]
      /\ Head(callbacks[o]) \in Callbacks
  BY <1>1, <1>3, OneLess, ZenonT(30)
<1>5. Hop(o) = Hops(o) /\ Hops(o) # 0 /\ Hops(o) \in Nat
  BY <1>1, <1>4, LenProperties DEF HopsAgree, Hop, Hops
<1>6. Len(callbacks[o]) = 1 => callbacks'[o] = <<>>
  BY <1>4, EmptySeq
<1>7. callbacks' \in [Owners -> Seq(Callbacks)]
  BY <1>2, <1>3, <1>4 DEF Typed, CurlTyped
<1>8. \A i \in 1..(Len(callbacks[o]) - 1) : i + 1 \in DOMAIN callbacks[o]
  BY <1>4
<1> QED
  BY <1>2, <1>4, <1>5, <1>6, <1>7, <1>8 DEF Typed, CurlTyped

\* A callback that a load heeds comes from the hop it is at, and the load is loading.
LEMMA HeededFacts ==
  ASSUME Typed, NEW l \in Loads, HopsAgree(l), LoadInv(l), NEW type, Deliver(l, type)
  PROVE  /\ callbacks[l] # <<>> /\ callbacks' = [callbacks EXCEPT ![l] = Tail(@)]
         /\ Head(callbacks[l]).type = type /\ m_loader[l]
         /\ m_curlRequest[l] = Hops(l) /\ Hops(l) # 0
         /\ loader[l] = "loading" /\ decision[l].type = "none"
<1>1. /\ callbacks[l] # <<>> /\ callbacks' = [callbacks EXCEPT ![l] = Tail(@)]
      /\ Head(callbacks[l]).type = type /\ m_loader[l] /\ m_curlRequest[l] = Hop(l)
  BY DEF Deliver, Heeded, IsCurrent
<1>2. Hop(l) = Hops(l) /\ Hops(l) # 0
  BY <1>1, Kinds, PopFacts
<1> QED
  BY <1>1, <1>2 DEF LoadInv, Quiet, QueueFits

\* What the loader hears.
LEMMA ToldFacts ==
  ASSUME Typed, NEW l \in Loads, NEW event \in HeardEvents, NEW hop \in Nat, Told(l, event, hop)
  PROVE  /\ heard' \in [Loads -> Seq([event : HeardEvents, hop : Nat])]
         /\ Len(heard[l]) \in Nat /\ DOMAIN heard[l] = 1..Len(heard[l])
         /\ Len(heard'[l]) = Len(heard[l]) + 1
         /\ DOMAIN heard'[l] = 1..(Len(heard[l]) + 1)
         /\ \A i \in 1..Len(heard[l]) : heard'[l][i] = heard[l][i]
         /\ heard'[l][Len(heard[l]) + 1] = [event |-> event, hop |-> hop]
         /\ \A x \in Loads : x # l => heard'[x] = heard[x]
<1> DEFINE e == [event |-> event, hop |-> hop]
<1>1. heard[l] \in Seq([event : HeardEvents, hop : Nat]) /\ e \in [event : HeardEvents, hop : Nat]
  BY DEF Typed, LoadsTyped
<1>2. heard' = [heard EXCEPT ![l] = Append(heard[l], e)]
  BY DEF Told
<1> HIDE DEF e
<1>3. heard'[l] = Append(heard[l], e)
  BY <1>2 DEF Typed, LoadsTyped
<1>4. /\ Len(heard[l]) \in Nat /\ DOMAIN heard[l] = 1..Len(heard[l])
      /\ heard'[l] \in Seq([event : HeardEvents, hop : Nat])
      /\ Len(heard'[l]) = Len(heard[l]) + 1
      /\ DOMAIN heard'[l] = 1..(Len(heard[l]) + 1)
      /\ \A i \in 1..Len(heard[l]) : heard'[l][i] = heard[l][i]
      /\ heard'[l][Len(heard[l]) + 1] = e
  BY <1>1, <1>3, OneMore
<1>5. heard' \in [Loads -> Seq([event : HeardEvents, hop : Nat])]
  BY <1>2, <1>3, <1>4 DEF Typed, LoadsTyped
<1> QED
  BY <1>2, <1>4, <1>5 DEF e, Typed, LoadsTyped

-----------------------------------------------------------------------------
(* The steps of the network *)

\* What is to be shown of a step of one owner.
Kept(o) ==
  /\ Typed' /\ HopsAgree(o)' /\ (o \in Loads => LoadInv(o)')
  /\ OthersKeep(o) /\ LoadsKeep(o)

LEMMA KeptIsEnough ==
  ASSUME IInv, NEW o \in Owners, Kept(o)
  PROVE  IInv'
<1>1. \A x \in Owners : HopsAgree(x)'
  BY OthersInvariant DEF IInv, Kept
<1>2. ASSUME NEW l \in Loads PROVE LoadInv(l)'
  <2>1. CASE l = o
    BY <2>1 DEF Kept
  <2>2. CASE l # o
    BY <2>2, LoadsInvariant DEF IInv, Kept
  <2> QED
    BY <2>1, <2>2
<1> QED
  BY <1>1, <1>2 DEF IInv, Kept

LEMMA ReportStep ==
  ASSUME Typed, NEW l \in Loads, HopsAgree(l), LoadInv(l),
         m_curlRequest[l] = Hops(l), Hops(l) \in Nat \ {0},
         NEW state \in TransferStates, NEW callback \in Callbacks, Reports(l, state, callback)
  PROVE  LoadInv(l)'
<1> DEFINE q == callbacks[l]
<1> DEFINE n == Hops(l)
<1>1. /\ n' = n /\ Stands(l)' = state
      /\ Len(q) \in Nat /\ DOMAIN q = 1..Len(q)
      /\ Len(q') = Len(q) + 1 /\ DOMAIN q' = 1..(Len(q) + 1)
      /\ \A i \in 1..Len(q) : q'[i] = q[i]
      /\ q'[Len(q) + 1] = callback
  BY Kinds, ReportFacts DEF Reports
<1>2. UNCHANGED <<loader, heard, decision, loadVars, m_curlRequest, trail, jar, sent>>
  BY DEF Reports, Report
<1>3. /\ Stands(l) \in {"running", "body", "tail"} /\ state \notin {"running", "body"}
      /\ loader[l] = "loading" /\ decision[l].type = "none"
      /\ trail[l] # <<>> \/ loader[l] # "new"
  BY DEF Reports, LoadInv, QueueFits, Quiet
<1>4. ASSUME NEW i \in DOMAIN q' PROVE (i \in 1..Len(q) /\ q'[i] = q[i]) \/ (i = Len(q) + 1)
  BY <1>1, <1>4
<1> HIDE DEF n
<1>5. BeginsNew(l)' /\ Counts(l)' /\ Sanitized(l)' /\ CookiesCarried(l)' /\ Contract(l)'
  <2> USE DEF n
  <2>1. BeginsNew(l)' /\ Counts(l)'
    BY <1>1, <1>2, <1>3 DEF LoadInv, BeginsNew, Counts, Hops
  <2>2. Sanitized(l)' /\ CookiesCarried(l)' /\ Contract(l)'
    BY <1>1, <1>2, <1>3 DEF LoadInv, Sanitized, CookiesCarried, Contract
  <2> QED
    BY <2>1, <2>2
<1>6. QueueFits(l)'
  <2>1. ASSUME NEW i \in DOMAIN q'
        PROVE  /\ q'[i].type = "response" => Len(q') = 1 /\ state = "parked"
               /\ q'[i].type \in {"complete", "fail"} => i = Len(q') /\ state = "ended"
    <3>1. CASE i \in 1..Len(q)
      <4>1. q'[i] = q[i] /\ q[i].type \notin {"response", "complete", "fail"}
        BY <1>1, <1>3, <3>1 DEF LoadInv, QueueFits
      <4> QED
        BY <4>1
    <3>2. CASE i = Len(q) + 1
      <4>1. q'[i] = callback
        BY <1>1, <3>2
      <4>2. Stands(l) = "running" => Len(q) = 0
        BY EmptySeq DEF LoadInv, QueueFits
      <4> QED
        BY <4>1, <4>2, <3>2, <1>1 DEF Reports
    <3> QED
      BY <1>4, <2>1, <3>1, <3>2
  <2> HIDE DEF q
  <2>2. /\ \A i \in DOMAIN callbacks'[l] :
             /\ callbacks'[l][i].type = "response" => Len(callbacks'[l]) = 1 /\ Stands(l)' = "parked"
             /\ callbacks'[l][i].type \in {"complete", "fail"} =>
                  i = Len(callbacks'[l]) /\ Stands(l)' = "ended"
    BY <2>1, <1>1 DEF q
  <2> QED
    BY <2>2, <1>1, <1>2, <1>3 DEF QueueFits
<1>7. Quiet(l)'
  BY <1>1, <1>2, <1>3 DEF LoadInv, Quiet
<1>8. HearsInOrder(l)'
  <2>1. ResponseHeard(l)' <=> ResponseHeard(l)
    BY <1>1, <1>2 DEF ResponseHeard, n
  <2>2. state \in {"body", "tail"} => ResponseHeard(l)
    BY DEF Reports, LoadInv, HearsInOrder
  <2>3. ASSUME NEW i \in DOMAIN q', q'[i].type \in {"data", "complete"} PROVE ResponseHeard(l)
    <3>1. CASE i \in 1..Len(q) /\ q'[i] = q[i]
      BY <1>1, <2>3, <3>1 DEF LoadInv, HearsInOrder
    <3>2. CASE i = Len(q) + 1
      <4>1. callback.type \in {"data", "complete"}
        BY <1>1, <2>3, <3>2
      <4> QED
        BY <4>1 DEF Reports, LoadInv, HearsInOrder
    <3> QED
      BY <1>4, <2>3, <3>1, <3>2
  <2> QED
    BY <2>1, <2>2, <2>3, <1>1, <1>2, <1>3 DEF LoadInv, HearsInOrder, n
<1> QED
  BY <1>5, <1>6, <1>7, <1>8 DEF LoadInv

LEMMA NetworkStep ==
  ASSUME IInv, NEW o \in Owners, Network(o)
  PROVE  Kept(o)
<1>1. Typed /\ HopsAgree(o) /\ Hops(o) \in Nat \ {0} /\ m_curlRequest[o] = Hops(o)
  BY NetworkFacts DEF IInv
<1>2. PICK state \in TransferStates, callback \in Callbacks : Reports(o, state, callback)
  BY <1>1, NetworkFacts
<1>3. Report(o, Hops(o), state, callback) /\ callback.hop = Hops(o)
  BY <1>2 DEF Reports
<1>4. /\ transfer' \in [Owners -> Seq(TransferStates)]
      /\ callbacks' \in [Owners -> Seq(Callbacks)]
      /\ Hops(o)' = Hops(o)
      /\ Len(transfer'[o]) = Hops(o) /\ DOMAIN transfer'[o] = DOMAIN transfer[o]
      /\ DOMAIN transfer[o] = 1..Hops(o)
      /\ \A h \in DOMAIN transfer[o] : h # Hops(o) => transfer'[o][h] = transfer[o][h]
      /\ Len(callbacks[o]) \in Nat /\ DOMAIN callbacks[o] = 1..Len(callbacks[o])
      /\ DOMAIN callbacks'[o] = 1..(Len(callbacks[o]) + 1)
      /\ \A i \in 1..Len(callbacks[o]) : callbacks'[o][i] = callbacks[o][i]
      /\ callbacks'[o][Len(callbacks[o]) + 1] = callback
      /\ OthersKeep(o)
  BY <1>1, <1>3, ReportFacts
<1>5. UNCHANGED <<webCore, loadVars, answered, m_curlRequest, trail, cookieVars>>
  BY <1>3 DEF Report
<1>6. Typed' /\ LoadsKeep(o)
  BY <1>1, <1>4, <1>5 DEF Typed, LoadsTyped, CurlTyped, LoadsKeep
<1>7. HopsAgree(o)'
  <2>1. ASSUME NEW i \in DOMAIN callbacks'[o] PROVE callbacks'[o][i].hop = Hops(o)
    <3>1. i \in 1..Len(callbacks[o]) \/ i = Len(callbacks[o]) + 1
      BY <1>4, <2>1
    <3> QED
      BY <1>1, <1>3, <1>4, <3>1 DEF HopsAgree
  <2>2. ASSUME NEW h \in DOMAIN transfer'[o], transfer'[o][h] \in Live PROVE m_curlRequest[o] = h
    BY <1>1, <1>4, <2>2 DEF HopsAgree
  <2> QED
    BY <2>1, <2>2, <1>1, <1>4, <1>5 DEF HopsAgree
<1>8. o \in Loads => LoadInv(o)'
  BY <1>1, <1>2, ReportStep DEF IInv
<1> QED
  BY <1>4, <1>6, <1>7, <1>8 DEF Kept

-----------------------------------------------------------------------------
(* The steps of the main thread: callbacks that are ignored, and those a load hears *)

\* A callback has left the queue, and the cookies of its response may be stored.
LEMMA PoppedHops ==
  ASSUME Typed, NEW o \in Owners, HopsAgree(o), callbacks[o] # <<>>,
         callbacks' = [callbacks EXCEPT ![o] = Tail(@)],
         UNCHANGED <<trail, transfer, m_curlRequest, sent>>,
         jar' \in {jar, [jar EXCEPT ![o] = Hop(o)]}
  PROVE  /\ HopsAgree(o)' /\ OthersKeep(o) /\ CurlTyped'
         /\ Hops(o)' = Hops(o) /\ Stands(o)' = Stands(o) /\ jar'[o] \in {jar[o], Hops(o)}
<1>1. /\ callbacks' \in [Owners -> Seq(Callbacks)] /\ Hop(o) = Hops(o) /\ Hops(o) \in Nat
      /\ DOMAIN callbacks'[o] = 1..(Len(callbacks[o]) - 1)
      /\ \A i \in 1..(Len(callbacks[o]) - 1) : callbacks'[o][i] = callbacks[o][i + 1]
                                              /\ i + 1 \in DOMAIN callbacks[o]
      /\ \A x \in Owners : x # o => callbacks'[x] = callbacks[x]
  BY PopFacts
<1>2. jar' \in [Owners -> Nat] /\ jar'[o] \in {jar[o], Hops(o)}
      /\ \A x \in Owners : x # o => jar'[x] = jar[x]
  <2>1. CASE jar' = jar
    BY <2>1 DEF Typed, CurlTyped
  <2>2. CASE jar' = [jar EXCEPT ![o] = Hop(o)]
    BY <1>1, <2>2 DEF Typed, CurlTyped
  <2> QED
    BY <2>1, <2>2
<1>3. HopsAgree(o)'
  BY <1>1, <1>2 DEF HopsAgree, Hops
<1>4. OthersKeep(o) /\ CurlTyped' /\ Hops(o)' = Hops(o) /\ Stands(o)' = Stands(o)
  BY <1>1, <1>2 DEF OthersKeep, CurlTyped, Typed, Hops, Stands
<1> QED
  BY <1>2, <1>3, <1>4

\* What stays in the queue of a load that is still listening.
LEMMA PoppedQueue ==
  ASSUME Typed, NEW l \in Loads, HopsAgree(l), QueueFits(l), callbacks[l] # <<>>,
         callbacks' = [callbacks EXCEPT ![l] = Tail(@)]
  PROVE  /\ \A i \in DOMAIN callbacks'[l] : \E k \in DOMAIN callbacks[l] :
              callbacks'[l][i] = callbacks[l][k]
         /\ m_curlRequest[l] # 0 =>
              /\ decision[l].type = "none" /\ Stands(l) \notin {"running", "body"}
              /\ Head(callbacks[l]).type # "data" => callbacks'[l] = <<>>
              /\ Head(callbacks[l]).type = "response" => Stands(l) = "parked"
              /\ Head(callbacks[l]).type \in {"complete", "fail"} => Stands(l) = "ended"
              /\ \A i \in DOMAIN callbacks'[l] :
                   /\ callbacks'[l][i].type # "response"
                   /\ callbacks'[l][i].type \in {"complete", "fail"} =>
                        i = Len(callbacks'[l]) /\ Stands(l) = "ended"
<1>1. l \in Owners
  BY Kinds
<1>2. /\ Head(callbacks[l]) \in Callbacks /\ Head(callbacks[l]) = callbacks[l][1]
      /\ 1 \in DOMAIN callbacks[l]
      /\ Len(callbacks[l]) \in Nat \ {0} /\ DOMAIN callbacks[l] = 1..Len(callbacks[l])
      /\ Len(callbacks'[l]) = Len(callbacks[l]) - 1
      /\ DOMAIN callbacks'[l] = 1..(Len(callbacks[l]) - 1)
      /\ \A i \in 1..(Len(callbacks[l]) - 1) :
           /\ callbacks'[l][i] = callbacks[l][i + 1]
           /\ i + 1 \in DOMAIN callbacks[l]
      /\ Len(callbacks[l]) = 1 => callbacks'[l] = <<>>
  BY <1>1, PopFacts
<1>3. ASSUME m_curlRequest[l] # 0
      PROVE  /\ decision[l].type = "none" /\ Stands(l) \notin {"running", "body"}
             /\ Head(callbacks[l]).type # "data" => callbacks'[l] = <<>>
             /\ Head(callbacks[l]).type = "response" => Stands(l) = "parked"
             /\ Head(callbacks[l]).type \in {"complete", "fail"} => Stands(l) = "ended"
  BY <1>2, <1>3, Kinds DEF QueueFits
<1>4. ASSUME m_curlRequest[l] # 0, NEW i \in DOMAIN callbacks'[l]
      PROVE  /\ callbacks'[l][i].type # "response"
             /\ callbacks'[l][i].type \in {"complete", "fail"} =>
                  i = Len(callbacks'[l]) /\ Stands(l) = "ended"
  <2>1. /\ callbacks'[l][i] = callbacks[l][i + 1] /\ i + 1 \in DOMAIN callbacks[l]
        /\ i \in 1..(Len(callbacks[l]) - 1)
    BY <1>2, <1>4
  <2> QED
    BY <1>2, <1>4, <2>1 DEF QueueFits
<1> QED
  BY <1>2, <1>3, <1>4

LEMMA IgnoredStep ==
  ASSUME IInv, NEW o \in Owners, Ignored(o)
  PROVE  Kept(o)
<1>1. /\ Typed /\ HopsAgree(o) /\ callbacks[o] # <<>>
      /\ callbacks' = [callbacks EXCEPT ![o] = Tail(@)]
      /\ UNCHANGED <<webCore, loadVars, answered, m_curlRequest, trail, transfer, cookieVars>>
  BY DEF IInv, Ignored
<1>2. /\ HopsAgree(o)' /\ OthersKeep(o) /\ CurlTyped'
      /\ Hops(o)' = Hops(o) /\ Stands(o)' = Stands(o)
  BY <1>1, PoppedHops
<1>3. Typed' /\ LoadsKeep(o)
  BY <1>1, <1>2 DEF Typed, LoadsTyped, LoadsKeep
<1>4. ASSUME o \in Loads PROVE LoadInv(o)'
  <2>1. LoadInv(o)
    BY <1>4 DEF IInv
  <2>2. /\ \A i \in DOMAIN callbacks'[o] : \E k \in DOMAIN callbacks[o] :
             callbacks'[o][i] = callbacks[o][k]
        /\ m_curlRequest[o] # 0 =>
             /\ decision[o].type = "none" /\ Stands(o) \notin {"running", "body"}
             /\ \A i \in DOMAIN callbacks'[o] :
                  /\ callbacks'[o][i].type # "response"
                  /\ callbacks'[o][i].type \in {"complete", "fail"} =>
                       i = Len(callbacks'[o]) /\ Stands(o) = "ended"
    BY <1>1, <1>4, <2>1, PoppedQueue DEF LoadInv
  <2>3. BeginsNew(o)' /\ Counts(o)' /\ Quiet(o)'
    BY <1>1, <1>2, <2>1 DEF LoadInv, BeginsNew, Counts, Quiet
  <2>4. QueueFits(o)'
    BY <1>1, <1>2, <2>2 DEF QueueFits
  <2>5. HearsInOrder(o)'
    BY <1>1, <1>2, <2>1, <2>2 DEF LoadInv, HearsInOrder, ResponseHeard
  <2>6. Contract(o)' /\ Sanitized(o)' /\ CookiesCarried(o)'
    BY <1>1, <1>2, <2>1 DEF LoadInv, Contract, Sanitized, CookiesCarried
  <2> QED
    BY <2>3, <2>4, <2>5, <2>6 DEF LoadInv
<1> QED
  BY <1>2, <1>3, <1>4 DEF Kept

\* A loading loader hears one thing more, of the hop it is at.
LEMMA HearsMore ==
  ASSUME Typed, NEW l \in Loads, Hops(l) \in Nat, HearsInOrder(l), Contract(l),
         loader[l] = "loading", trail' = trail,
         NEW event \in HeardEvents, NEW hop \in Nat, Told(l, event, hop),
         event = "cancelled" \/ hop = Hops(l), hop <= Hops(l),
         event \in {"data", "finish"} => ResponseHeard(l)
  PROVE  /\ Contract(l)' /\ heard' \in [Loads -> Seq([event : HeardEvents, hop : Nat])]
         /\ Hops(l)' = Hops(l)
         /\ \A i \in DOMAIN heard'[l] : heard'[l][i].hop <= Hops(l)
         /\ event \notin Ending => \A i \in DOMAIN heard'[l] : heard'[l][i].event \notin Ending
         /\ ResponseHeard(l) \/ (event = "response" /\ hop = Hops(l)) => ResponseHeard(l)'
         /\ \A x \in Loads : x # l => heard'[x] = heard[x]
<1> DEFINE h == heard[l]
<1> DEFINE g == heard'[l]
<1>1. /\ heard' \in [Loads -> Seq([event : HeardEvents, hop : Nat])]
      /\ Len(h) \in Nat /\ DOMAIN h = 1..Len(h)
      /\ Len(g) = Len(h) + 1 /\ DOMAIN g = 1..(Len(h) + 1)
      /\ \A i \in 1..Len(h) : g[i] = h[i]
      /\ g[Len(h) + 1] = [event |-> event, hop |-> hop]
      /\ \A x \in Loads : x # l => heard'[x] = heard[x]
  BY ToldFacts
<1>2. Hops(l)' = Hops(l)
  BY DEF Hops
<1>3. /\ \A i \in DOMAIN h : h[i].hop <= Hops(l) /\ h[i].event \notin Ending
      /\ \A i, j \in DOMAIN h :
           /\ i < j /\ h[j].event # "cancelled" => h[i].hop <= h[j].hop
           /\ h[i].event \in {"data", "finish"} =>
                \E k \in 1..i - 1 : h[k] = [event |-> "response", hop |-> h[i].hop]
  BY DEF HearsInOrder, Contract
<1>4. g[Len(h) + 1].event = event /\ g[Len(h) + 1].hop = hop
  BY <1>1
<1>5. ResponseHeard(l) <=> \E k \in DOMAIN h : h[k] = [event |-> "response", hop |-> Hops(l)]
  BY DEF ResponseHeard
<1> HIDE DEF h, g
<1>6. ASSUME NEW i \in DOMAIN g, NEW j \in DOMAIN g
      PROVE  /\ g[i].event \in Ending => i = Len(g)
             /\ i < j /\ g[j].event # "cancelled" => g[i].hop <= g[j].hop
             /\ g[i].event \in {"data", "finish"} =>
                  \E k \in 1..i - 1 : g[k] = [event |-> "response", hop |-> g[i].hop]
  <2>1. i \in DOMAIN h \/ i = Len(h) + 1
    BY <1>1, <1>6
  <2>2. j \in DOMAIN h \/ j = Len(h) + 1
    BY <1>1, <1>6
  <2>3. g[i].event \in Ending => i = Len(g)
    BY <1>1, <1>3, <2>1
  <2>4. ASSUME i < j, g[j].event # "cancelled" PROVE g[i].hop <= g[j].hop
    <3>1. i \in DOMAIN h /\ g[i] = h[i]
      BY <1>1, <2>1, <2>2, <2>4
    <3>2. CASE j \in DOMAIN h
      BY <1>1, <1>3, <2>4, <3>1, <3>2
    <3>3. CASE j = Len(h) + 1
      BY <1>3, <1>4, <2>4, <3>1, <3>3
    <3> QED
      BY <2>2, <3>2, <3>3
  <2>5. ASSUME g[i].event \in {"data", "finish"}
        PROVE  \E k \in 1..i - 1 : g[k] = [event |-> "response", hop |-> g[i].hop]
    <3>1. CASE i \in DOMAIN h
      <4>1. PICK k \in 1..i - 1 : h[k] = [event |-> "response", hop |-> h[i].hop]
        BY <1>1, <1>3, <2>5, <3>1
      <4>2. k \in 1..Len(h) /\ g[k] = h[k] /\ g[i] = h[i]
        BY <1>1, <3>1
      <4> QED
        BY <4>1, <4>2
    <3>2. CASE i = Len(h) + 1
      <4>1. PICK k \in DOMAIN h : h[k] = [event |-> "response", hop |-> Hops(l)]
        BY <1>4, <1>5, <2>5, <3>2
      <4>2. k \in 1..i - 1 /\ g[k] = h[k] /\ g[i].hop = Hops(l)
        BY <1>1, <1>4, <2>5, <3>2
      <4> QED
        BY <4>1, <4>2
    <3> QED
      BY <2>1, <3>1, <3>2
  <2> QED
    BY <2>3, <2>4, <2>5
<1>7. Contract(l)'
  BY <1>6 DEF Contract, g
<1>8. ASSUME NEW i \in DOMAIN g
      PROVE  g[i].hop <= Hops(l) /\ (event \notin Ending => g[i].event \notin Ending)
  <2>1. (i \in DOMAIN h /\ g[i] = h[i]) \/ i = Len(h) + 1
    BY <1>1, <1>8
  <2> QED
    BY <1>3, <1>4, <2>1
<1>9. ASSUME ResponseHeard(l) \/ (event = "response" /\ hop = Hops(l))
      PROVE  \E k \in DOMAIN g : g[k] = [event |-> "response", hop |-> Hops(l)]
  <2>1. CASE ResponseHeard(l)
    <3>1. PICK k \in DOMAIN h : h[k] = [event |-> "response", hop |-> Hops(l)]
      BY <1>5, <2>1
    <3>2. k \in DOMAIN g /\ g[k] = h[k]
      BY <1>1
    <3> QED
      BY <3>1, <3>2
  <2>2. CASE event = "response" /\ hop = Hops(l)
    <3>1. Len(h) + 1 \in DOMAIN g
      BY <1>1
    <3> QED
      BY <1>1, <2>2, <3>1
  <2> QED
    BY <1>9, <2>1, <2>2
<1>10. ResponseHeard(l) \/ (event = "response" /\ hop = Hops(l)) => ResponseHeard(l)'
  BY <1>2, <1>9 DEF ResponseHeard, g
<1> QED
  BY <1>1, <1>2, <1>7, <1>8, <1>10 DEF g

\* A load hears of a callback of the hop it is at: it goes on, or it ends.
LEMMA HeardStep ==
  ASSUME IInv, NEW l \in Loads, NEW type, Deliver(l, type),
         UNCHANGED <<m_loader, answered, m_curlRequest, trail, transfer, sent>>,
         jar' \in {jar, [jar EXCEPT ![l] = Hop(l)]},
         NEW event \in HeardEvents \ {"cancelled"}, Told(l, event, Hop(l)),
         event = "data" => type = "data", event = "finish" => type = "complete",
         loader' \in [Loads -> {"loading", "finished", "failed"} \cup {"new", "local", "cancelled"}],
         decision' \in [Loads -> Decisions], m_loads' \subseteq Loads,
         m_doneCallback' \in [Loads -> BOOLEAN],
         m_redirectCount' \in [Loads -> 0..MaxRedirects + 2],
         \A x \in Loads : x # l =>
           /\ loader'[x] = loader[x] /\ decision'[x] = decision[x]
           /\ (x \in m_loads' <=> x \in m_loads) /\ m_redirectCount'[x] = m_redirectCount[x],
         \/ loader'[l] = "loading" /\ m_loads' = m_loads /\ event \notin Ending
         \/ loader'[l] \in {"finished", "failed"} /\ type # "data" /\ decision'[l].type = "none",
         \/ decision'[l].type = "none"
         \/ type = "response" /\ (decision'[l].type = "response" => event = "response"),
         decision'[l].type = "redirect" => jar'[l] = Hop(l),
         Counts(l)', Sanitized(l)'
  PROVE  Kept(l)
<1>1. /\ Typed /\ HopsAgree(l) /\ LoadInv(l) /\ l \in Owners
      /\ BeginsNew(l) /\ QueueFits(l) /\ Quiet(l) /\ HearsInOrder(l) /\ Contract(l)
      /\ CookiesCarried(l)
  BY Kinds DEF IInv, LoadInv
<1>2. /\ callbacks[l] # <<>> /\ callbacks' = [callbacks EXCEPT ![l] = Tail(@)]
      /\ Head(callbacks[l]).type = type /\ m_loader[l]
      /\ m_curlRequest[l] = Hops(l) /\ Hops(l) # 0
      /\ loader[l] = "loading" /\ decision[l].type = "none"
  BY <1>1, HeededFacts
<1>3. /\ Head(callbacks[l]) \in Callbacks /\ Head(callbacks[l]) = callbacks[l][1]
      /\ 1 \in DOMAIN callbacks[l] /\ Hop(l) = Hops(l) /\ Hops(l) \in Nat \ {0}
  BY <1>1, <1>2, PopFacts
<1>4. /\ HopsAgree(l)' /\ OthersKeep(l) /\ CurlTyped'
      /\ Hops(l)' = Hops(l) /\ Stands(l)' = Stands(l)
  BY <1>1, <1>2, PoppedHops
<1>5. /\ \A i \in DOMAIN callbacks'[l] : \E k \in DOMAIN callbacks[l] :
            callbacks'[l][i] = callbacks[l][k]
      /\ Stands(l) \notin {"running", "body"}
      /\ type # "data" => callbacks'[l] = <<>>
      /\ type = "response" => Stands(l) = "parked"
      /\ type \in {"complete", "fail"} => Stands(l) = "ended"
      /\ \A i \in DOMAIN callbacks'[l] :
           /\ callbacks'[l][i].type # "response"
           /\ callbacks'[l][i].type \in {"complete", "fail"} =>
                i = Len(callbacks'[l]) /\ Stands(l) = "ended"
  BY <1>1, <1>2, PoppedQueue
<1>6. event \in {"data", "finish"} => ResponseHeard(l)
  BY <1>2, <1>3, <1>1 DEF HearsInOrder
<1>7. /\ Contract(l)' /\ heard' \in [Loads -> Seq([event : HeardEvents, hop : Nat])]
      /\ \A i \in DOMAIN heard'[l] : heard'[l][i].hop <= Hops(l)
      /\ event \notin Ending => \A i \in DOMAIN heard'[l] : heard'[l][i].event \notin Ending
      /\ ResponseHeard(l) \/ event = "response" => ResponseHeard(l)'
      /\ \A x \in Loads : x # l => heard'[x] = heard[x]
  <2>1. event \in HeardEvents /\ event # "cancelled" /\ trail' = trail
    OBVIOUS
  <2>2. Hops(l) \in Nat /\ Hops(l) <= Hops(l) /\ Told(l, event, Hops(l))
    BY <1>3
  <2> QED
    BY <1>1, <1>2, <1>6, <2>1, <2>2, HearsMore
<1>8. Typed' /\ LoadsKeep(l)
  BY <1>1, <1>4, <1>7 DEF Typed, LoadsTyped, LoadsKeep
<1>9. BeginsNew(l)' /\ CookiesCarried(l)'
  BY <1>1, <1>2, <1>3, <1>4 DEF BeginsNew, CookiesCarried
<1>10. QueueFits(l)'
  <2>1. decision'[l].type # "none" => loader'[l] = "loading" /\ type = "response"
    OBVIOUS
  <2> QED
    BY <2>1, <1>4, <1>5 DEF QueueFits
<1>11. Quiet(l)'
  <2>1. loader'[l] = "loading" => m_loads' = m_loads
    OBVIOUS
  <2>2. Head(callbacks[l]).type \in {"response", "data", "complete", "fail"}
    BY <1>3, Kinds
  <2>3. loader'[l] # "loading" => type \in {"response", "complete", "fail"}
    BY <1>2, <2>2
  <2> QED
    BY <1>1, <1>2, <1>4, <1>5, <2>1, <2>3 DEF Quiet
<1>12. HearsInOrder(l)'
  <2>1. loader'[l] = "loading" => event \notin Ending
    OBVIOUS
  <2>2. decision'[l].type = "response" => event = "response"
    OBVIOUS
  <2> QED
    BY <1>1, <1>2, <1>4, <1>5, <1>7, <2>1, <2>2 DEF HearsInOrder
<1> QED
  BY <1>4, <1>7, <1>8, <1>9, <1>10, <1>11, <1>12 DEF Kept, LoadInv

LEMMA DataStep ==
  ASSUME IInv, NEW l \in Loads, ReceiveData(l)
  PROVE  Kept(l)
<1>1. /\ Deliver(l, "data") /\ Told(l, "data", Hop(l))
      /\ UNCHANGED <<loader, decision, loadVars, answered, m_curlRequest, trail, transfer,
                     cookieVars>>
  BY DEF ReceiveData
<1>2. Typed /\ HopsAgree(l) /\ LoadInv(l)
  BY Kinds DEF IInv
<1>3. loader[l] = "loading" /\ decision[l].type = "none"
  BY <1>1, <1>2, HeededFacts
<1>4. "data" \in HeardEvents \ {"cancelled"} /\ "data" \notin Ending
  BY DEF HeardEvents, Ending
<1>5. Counts(l)' /\ Sanitized(l)'
  BY <1>1, <1>2 DEF LoadInv, Counts, Sanitized, Hops
<1>6. /\ loader' \in [Loads -> {"loading", "finished", "failed"} \cup {"new", "local", "cancelled"}]
      /\ decision' \in [Loads -> Decisions] /\ m_loads' \subseteq Loads
      /\ m_doneCallback' \in [Loads -> BOOLEAN]
      /\ m_redirectCount' \in [Loads -> 0..MaxRedirects + 2]
  BY <1>1, <1>2 DEF Typed, LoadsTyped
<1> QED
  BY <1>1, <1>3, <1>4, <1>5, <1>6, HeardStep

LEMMA NotifyFacts ==
  ASSUME Typed, NEW l \in Loads, NotifyDone(l), NEW how \in {"finished", "failed"}, Ends(l, how)
  PROVE  /\ loader' \in [Loads -> {"loading", "finished", "failed"} \cup {"new", "local", "cancelled"}]
         /\ m_loads' \subseteq Loads /\ m_doneCallback' \in [Loads -> BOOLEAN]
         /\ loader'[l] = how
         /\ \A x \in Loads : x # l => /\ loader'[x] = loader[x]
                                      /\ (x \in m_loads' <=> x \in m_loads)
BY DEF Typed, LoadsTyped, NotifyDone, Ends

LEMMA EndingStep ==
  ASSUME IInv, NEW l \in Loads, DidComplete(l) \/ DidFailWithError(l)
  PROVE  Kept(l)
<1>1. Typed /\ HopsAgree(l) /\ LoadInv(l)
  BY Kinds DEF IInv
<1>2. /\ NotifyDone(l)
      /\ UNCHANGED <<decision, m_loader, m_redirectCount, answered, m_curlRequest, trail,
                     transfer, cookieVars>>
  BY DEF DidComplete, DidFailWithError, DidFailInternal
<1>3. PICK type \in {"complete", "fail"}, how \in {"finished", "failed"},
           event \in {"finish", "fail"} :
        /\ Deliver(l, type) /\ Ends(l, how) /\ Told(l, event, Hop(l))
        /\ event = "finish" => type = "complete"
  BY DEF DidComplete, DidFailWithError, DidFailInternal
<1>4. decision[l].type = "none"
  BY <1>1, <1>3, HeededFacts
<1>5. event \in HeardEvents \ {"cancelled"}
  BY DEF HeardEvents, Ending
<1>6. /\ loader' \in [Loads -> {"loading", "finished", "failed"} \cup {"new", "local", "cancelled"}]
      /\ m_loads' \subseteq Loads /\ m_doneCallback' \in [Loads -> BOOLEAN]
      /\ loader'[l] = how
      /\ \A x \in Loads : x # l => /\ loader'[x] = loader[x]
                                   /\ (x \in m_loads' <=> x \in m_loads)
  BY <1>1, <1>2, <1>3, NotifyFacts
<1>7. Counts(l)' /\ Sanitized(l)'
  BY <1>1, <1>2, <1>6 DEF LoadInv, Counts, Sanitized, Hops
<1>8. decision' \in [Loads -> Decisions] /\ m_redirectCount' \in [Loads -> 0..MaxRedirects + 2]
  BY <1>1, <1>2 DEF Typed, LoadsTyped
<1>9. \A x \in Loads : x # l => /\ decision'[x] = decision[x]
                                /\ m_redirectCount'[x] = m_redirectCount[x]
  BY <1>2
<1>10. jar' = jar /\ decision'[l].type = "none" /\ type # "data" /\ event # "data"
  BY <1>2, <1>4
<1> QED
  BY <1>2, <1>3, <1>5, <1>6, <1>7, <1>8, <1>9, <1>10, HeardStep


\* What a redirect makes of a request.
LEMMA RedirectedFacts ==
  ASSUME NEW request \in Requests, NEW redirect \in Redirects, redirect.to # "file"
  PROVE  /\ RedirectedRequest(request, redirect) \in Requests
         /\ RedirectedRequest(request, redirect).auth =>
              request.auth /\ RedirectedRequest(request, redirect).origin = request.origin
         /\ (request.method = "GET" => ~request.body) =>
              (RedirectedRequest(request, redirect).method = "GET" =>
                 ~RedirectedRequest(request, redirect).body)
<1> DEFINE crossOrigin == redirect.to # request.origin
<1> DEFINE asGET == ShouldRedirectAsGET(request, redirect.status, crossOrigin)
<1> DEFINE r == [method |-> IF asGET THEN "GET" ELSE request.method,
                 origin |-> redirect.to,
                 body |-> request.body /\ ~asGET,
                 auth |-> request.auth /\ ~crossOrigin]
<1>1. RedirectedRequest(request, redirect) = r
  BY DEF RedirectedRequest
<1>2. request.method \in Methods /\ redirect.to \in Origins /\ "GET" \in Methods
  BY DEF Requests, Redirects, Methods
<1>3. r \in Requests
  <2>1. (request.body /\ ~asGET) \in BOOLEAN /\ (request.auth /\ ~crossOrigin) \in BOOLEAN
    OBVIOUS
  <2>2. (IF asGET THEN "GET" ELSE request.method) \in Methods
    BY <1>2
  <2> HIDE DEF asGET, crossOrigin
  <2> QED
    BY <1>2, <2>1, <2>2 DEF Requests
<1>4. r.auth => request.auth /\ r.origin = request.origin
  OBVIOUS
<1>5. (request.method = "GET" => ~request.body) => (r.method = "GET" => ~r.body)
  OBVIOUS
<1> HIDE DEF r
<1> QED
  BY <1>1, <1>3, <1>4, <1>5

LEMMA ResponseStep ==
  ASSUME IInv, NEW l \in Loads, ReceiveResponse(l)
  PROVE  Kept(l)
<1> DEFINE response == Head(callbacks[l]).response
<1>1. /\ Typed /\ HopsAgree(l) /\ LoadInv(l) /\ l \in Owners
      /\ Counts(l) /\ Sanitized(l)
  BY Kinds DEF IInv, LoadInv
<1>2. /\ Deliver(l, "response") /\ jar' = [jar EXCEPT ![l] = Hop(l)]
      /\ UNCHANGED <<m_loader, answered, m_curlRequest, trail, transfer, sent>>
  BY DEF ReceiveResponse, StoreResponseCookies
<1>3. /\ callbacks[l] # <<>> /\ Head(callbacks[l]).type = "response" /\ Hops(l) # 0
      /\ loader[l] = "loading" /\ decision[l].type = "none"
      /\ callbacks' = [callbacks EXCEPT ![l] = Tail(@)]
  BY <1>1, <1>2, HeededFacts
<1>4. /\ Head(callbacks[l]) \in Callbacks /\ Hop(l) = Hops(l) /\ Hops(l) \in Nat \ {0}
  BY <1>1, <1>3, PopFacts
<1>5. response \in Redirects \cup {NotRedirect}
  BY <1>3, <1>4, Kinds
<1>6. /\ jar \in [Owners -> Nat] /\ jar'[l] = Hop(l) /\ Hops(l)' = Hops(l)
      /\ trail[l] \in Seq(Requests) /\ DOMAIN trail[l] = 1..Hops(l)
      /\ decision \in [Loads -> Decisions] /\ m_loads \subseteq Loads
      /\ m_doneCallback \in [Loads -> BOOLEAN]
      /\ m_redirectCount \in [Loads -> 0..MaxRedirects + 2]
      /\ loader \in [Loads -> {"loading", "finished", "failed"} \cup {"new", "local", "cancelled"}]
      /\ MaxRedirects \in Nat /\ m_redirectCount[l] <= MaxRedirects + 1
      /\ trail[l][Hops(l)] \in Requests
  <2>1. /\ trail[l] \in Seq(Requests) /\ DOMAIN trail[l] = 1..Hops(l)
    BY <1>1, LenProperties DEF Typed, CurlTyped, Hops
  <2>2. trail[l][Hops(l)] \in Requests
    BY <1>4, <2>1, ElementOfSeq DEF Hops
  <2>3. /\ jar \in [Owners -> Nat] /\ jar'[l] = Hop(l) /\ Hops(l)' = Hops(l)
    BY <1>1, <1>2 DEF Typed, CurlTyped, Hops
  <2>4. MaxRedirects \in Nat /\ m_redirectCount[l] <= MaxRedirects + 1
    BY <1>1, <1>3, LoadAssumption DEF Counts
  <2>5. /\ decision \in [Loads -> Decisions] /\ m_loads \subseteq Loads
        /\ m_doneCallback \in [Loads -> BOOLEAN]
        /\ m_redirectCount \in [Loads -> 0..MaxRedirects + 2]
        /\ loader \in [Loads -> {"loading", "finished", "failed"} \cup {"new", "local", "cancelled"}]
    BY <1>1 DEF Typed, LoadsTyped
  <2> QED
    BY <2>1, <2>2, <2>3, <2>4, <2>5
<1>7. {"response", "redirect", "fail"} \subseteq HeardEvents \ {"cancelled"}
  BY DEF HeardEvents, Ending
<1>8. CASE response = NotRedirect
  <2>1. /\ decision' = [decision EXCEPT ![l] = [type |-> "response"]]
        /\ Told(l, "response", Hop(l))
        /\ UNCHANGED <<loader, m_loads, m_doneCallback, m_redirectCount>>
    BY <1>8 DEF ReceiveResponse
  <2>2. /\ decision' \in [Loads -> Decisions] /\ decision'[l].type = "response"
        /\ \A x \in Loads : x # l => decision'[x] = decision[x]
    BY <1>6, <2>1, Kinds
  <2>3. Counts(l)' /\ Sanitized(l)'
    BY <1>1, <1>2, <1>6, <2>1, <2>2 DEF Counts, Sanitized
  <2>4. "response" \notin Ending
    BY DEF Ending
  <2> QED
    BY <1>2, <1>3, <1>6, <1>7, <2>1, <2>2, <2>3, <2>4, HeardStep
<1>9. CASE response # NotRedirect
  <2>1. response \in Redirects
    BY <1>5, <1>9
  <2>2. PerformRedirect(l, response)
    BY <1>9 DEF ReceiveResponse
  <2>3. /\ m_redirectCount' = [m_redirectCount EXCEPT ![l] = m_redirectCount[l] + 1]
        /\ m_redirectCount' \in [Loads -> 0..MaxRedirects + 2]
        /\ m_redirectCount'[l] = m_redirectCount[l] + 1
        /\ \A x \in Loads : x # l => m_redirectCount'[x] = m_redirectCount[x]
    BY <1>6, <2>2 DEF PerformRedirect
  <2>4. CASE m_redirectCount[l] > MaxRedirects \/ response.to = "file"
    <3>1. /\ NotifyDone(l) /\ Ends(l, "failed") /\ Told(l, "fail", Hop(l))
          /\ decision' = decision
      BY <2>2, <2>4 DEF PerformRedirect, DidFailInternal
    <3>2. /\ loader' \in [Loads -> {"loading", "finished", "failed"} \cup {"new", "local", "cancelled"}]
          /\ m_loads' \subseteq Loads /\ m_doneCallback' \in [Loads -> BOOLEAN]
          /\ loader'[l] = "failed"
          /\ \A x \in Loads : x # l => /\ loader'[x] = loader[x]
                                       /\ (x \in m_loads' <=> x \in m_loads)
      BY <1>1, <3>1, NotifyFacts
    <3>3. Counts(l)'
      BY <1>1, <1>3, <1>4, <1>6, <2>3, <3>1, <3>2 DEF Counts
    <3>4. Sanitized(l)'
      BY <1>1, <1>2, <1>3, <3>1 DEF Sanitized
    <3> QED
      BY <1>2, <1>3, <1>6, <1>7, <2>3, <3>1, <3>2, <3>3, <3>4, HeardStep
  <2>5. CASE ~(m_redirectCount[l] > MaxRedirects \/ response.to = "file")
    <3> DEFINE next == RedirectedRequest(trail[l][Hops(l)], response)
    <3>1. /\ decision' = [decision EXCEPT ![l] = [type |-> "redirect", request |-> next]]
          /\ Told(l, "redirect", Hop(l))
          /\ UNCHANGED <<loader, m_loads, m_doneCallback>>
      BY <1>4, <2>2, <2>5 DEF PerformRedirect
    <3>2. /\ next \in Requests
          /\ next.auth => trail[l][Hops(l)].auth /\ next.origin = trail[l][Hops(l)].origin
          /\ (trail[l][Hops(l)].method = "GET" => ~trail[l][Hops(l)].body) =>
               (next.method = "GET" => ~next.body)
      BY <1>6, <2>1, <2>5, RedirectedFacts
    <3> HIDE DEF next
    <3>3. /\ decision' \in [Loads -> Decisions]
          /\ decision'[l] = [type |-> "redirect", request |-> next]
          /\ \A x \in Loads : x # l => decision'[x] = decision[x]
      BY <1>6, <3>1, <3>2, Kinds
    <3>4. decision'[l].type = "redirect" /\ decision'[l].request = next
      BY <3>3
    <3>5. Counts(l)'
      <4>1. /\ Hops(l) <= m_redirectCount[l] + 1 /\ Hops(l) <= MaxRedirects + 2
            /\ m_redirectCount[l] \in Nat /\ m_redirectCount[l] <= MaxRedirects
        BY <1>1, <1>6, <2>5 DEF Counts
      <4> QED
        BY <1>4, <1>6, <2>3, <4>1 DEF Counts
    <3>6. Sanitized(l)'
      <4>1. Hops(l) \in DOMAIN trail[l] /\ DOMAIN trail[l] = 1..Hops(l)
        BY <1>4, <1>6
      <4>2. /\ trail[l][Hops(l)].auth =>
                 \A g \in 1..Hops(l) : trail[l][g].origin = trail[l][1].origin
            /\ trail[l][Hops(l)].method = "GET" => ~trail[l][Hops(l)].body
        BY <1>1, <4>1 DEF Sanitized
      <4>3. next.auth => \A g \in DOMAIN trail[l] : trail[l][g].origin = next.origin
        BY <3>2, <4>1, <4>2
      <4>4. next.method = "GET" => ~next.body
        BY <3>2, <4>2
      <4>5. trail' = trail
        BY <1>2
      <4> QED
        BY <1>1, <1>4, <1>6, <3>4, <4>3, <4>4, <4>5 DEF Sanitized
    <3>7. "redirect" \notin Ending
      BY DEF Ending
    <3> QED
      BY <1>2, <1>3, <1>6, <1>7, <2>3, <3>1, <3>3, <3>4, <3>5, <3>6, <3>7, HeardStep
  <2> QED
    BY <2>4, <2>5
<1> QED
  BY <1>8, <1>9


-----------------------------------------------------------------------------
(* The steps of WebCore and of the pings *)

\* The owner lets go of its current request; a callback may leave the queue and
\* the cookies of its response may be stored.
LEMMA Released ==
  ASSUME Typed, NEW o \in Owners, HopsAgree(o), CancelCurlRequest(o),
         UNCHANGED <<trail, sent>>,
         callbacks' \in [Owners -> Seq(Callbacks)],
         \A i \in DOMAIN callbacks'[o] : \E k \in DOMAIN callbacks[o] :
           callbacks'[o][i] = callbacks[o][k],
         \A x \in Owners : x # o => callbacks'[x] = callbacks[x],
         jar' \in [Owners -> Nat], jar'[o] \in {jar[o], Hops(o)},
         \A x \in Owners : x # o => jar'[x] = jar[x]
  PROVE  /\ HopsAgree(o)' /\ OthersKeep(o) /\ CurlTyped'
         /\ Hops(o)' = Hops(o) /\ Hops(o) \in Nat /\ m_curlRequest'[o] = 0
         /\ Hops(o) # 0 => Stands(o)' \notin Live
<1>1. /\ transfer' \in [Owners -> Seq(TransferStates)]
      /\ m_curlRequest' \in [Owners -> Nat]
      /\ transfer'[o] = WithoutCurrent(o) /\ m_curlRequest'[o] = 0
      /\ \A x \in Owners : x # o => /\ transfer'[x] = transfer[x]
                                    /\ m_curlRequest'[x] = m_curlRequest[x]
  BY CancelFacts
<1>2. /\ Len(WithoutCurrent(o)) = Hops(o) /\ Hops(o) \in Nat
      /\ DOMAIN WithoutCurrent(o) = 1..Hops(o)
      /\ \A h \in 1..Hops(o) : WithoutCurrent(o)[h] \notin Live
  BY CurrentGone
<1>3. Hops(o)' = Hops(o) /\ (Hops(o) # 0 => Stands(o)' \notin Live)
  <2>1. Hops(o)' = Hops(o)
    BY DEF Hops
  <2>2. Stands(o)' = WithoutCurrent(o)[Hops(o)]
    BY <1>1, <2>1 DEF Stands
  <2> HIDE DEF Hops
  <2> QED
    BY <1>2, <2>1, <2>2
<1>4. /\ Len(transfer'[o]) = Hops(o) /\ \A h \in DOMAIN transfer'[o] : transfer'[o][h] \notin Live
  BY <1>1, <1>2
<1>5. \A i \in DOMAIN callbacks'[o] : callbacks'[o][i].hop = Hops(o) /\ Hops(o) # 0
  BY DEF HopsAgree
<1>6. jar'[o] <= Hops(o) /\ sent'[o] <= Hops(o) /\ (o \in Pings => Hops(o) <= 1)
  BY <1>2 DEF HopsAgree
<1>7. HopsAgree(o)'
  BY <1>1, <1>3, <1>4, <1>5, <1>6 DEF HopsAgree
<1>8. OthersKeep(o) /\ CurlTyped'
  BY <1>1 DEF OthersKeep, CurlTyped, Typed
<1> QED
  BY <1>1, <1>2, <1>3, <1>7, <1>8

\* The owner goes to its next hop.
LEMMA Started ==
  ASSUME Typed, NEW o \in Owners, HopsAgree(o), NEW request \in Requests,
         CreateCurlRequest(o, request), UNCHANGED <<callbacks, jar>>,
         callbacks[o] = <<>>, o \in Pings => Hops(o) = 0
  PROVE  HopsAgree(o)' /\ OthersKeep(o) /\ CurlTyped'
<1>1. /\ trail' \in [Owners -> Seq(Requests)] /\ transfer' \in [Owners -> Seq(TransferStates)]
      /\ m_curlRequest' \in [Owners -> Nat] /\ sent' \in [Owners -> Nat]
      /\ Hops(o) \in Nat /\ Hops(o)' = Hops(o) + 1
      /\ Len(transfer'[o]) = Hops(o) + 1 /\ DOMAIN transfer'[o] = 1..(Hops(o) + 1)
      /\ \A h \in 1..Hops(o) : transfer'[o][h] \notin Live
      /\ m_curlRequest'[o] = Hops(o) + 1 /\ sent'[o] = jar[o]
      /\ \A x \in Owners : x # o =>
           /\ trail'[x] = trail[x] /\ transfer'[x] = transfer[x]
           /\ m_curlRequest'[x] = m_curlRequest[x] /\ sent'[x] = sent[x]
  BY CreateFacts
<1>2. jar[o] \in Nat /\ jar[o] <= Hops(o)
  BY DEF Typed, CurlTyped, HopsAgree
<1>3. \A h \in DOMAIN transfer'[o] : transfer'[o][h] \in Live => m_curlRequest'[o] = h
  BY <1>1
<1>4. \A i \in DOMAIN callbacks'[o] : FALSE
  OBVIOUS
<1>5. HopsAgree(o)'
  BY <1>1, <1>2, <1>3, <1>4 DEF HopsAgree
<1>6. OthersKeep(o) /\ CurlTyped'
  BY <1>1 DEF OthersKeep, CurlTyped, Typed
<1> QED
  BY <1>5, <1>6

\* A loading load at its next hop.
LEMMA StartedLoad ==
  ASSUME Typed, NEW l \in Loads, HopsAgree(l), NEW request \in Requests,
         CreateCurlRequest(l, request), UNCHANGED <<heard, callbacks, jar, m_redirectCount>>,
         callbacks[l] = <<>>, jar[l] = Hops(l),
         decision'[l].type = "none", loader'[l] = "loading", l \in m_loads',
         HearsInOrder(l), Contract(l), Sanitized(l),
         \A i \in DOMAIN heard[l] : heard[l][i].event \notin Ending,
         request.auth => \A g \in DOMAIN trail[l] : trail[l][g].origin = request.origin,
         request.method = "GET" => ~request.body,
         Hops(l) <= m_redirectCount[l], m_redirectCount[l] <= MaxRedirects + 1
  PROVE  LoadInv(l)'
<1> DEFINE n == Hops(l)
<1>1. /\ Hops(l) \in Nat /\ Hops(l)' = Hops(l) + 1
      /\ DOMAIN trail[l] = 1..Hops(l) /\ DOMAIN trail'[l] = 1..(Hops(l) + 1)
      /\ trail'[l][Hops(l) + 1] = request
      /\ \A h \in 1..Hops(l) : trail'[l][h] = trail[l][h]
      /\ transfer'[l][Hops(l) + 1] = "running"
      /\ m_curlRequest'[l] = Hops(l) + 1 /\ sent'[l] = jar[l]
  BY Kinds, CreateFacts
<1>2. Stands(l)' = "running"
  BY <1>1 DEF Stands
<1>3. m_redirectCount[l] \in Nat /\ MaxRedirects \in Nat
  BY LoadAssumption DEF Typed, LoadsTyped
<1>4. callbacks'[l] = <<>> /\ \A i \in DOMAIN callbacks'[l] : FALSE
  OBVIOUS
<1>5. BeginsNew(l)' /\ QueueFits(l)'
  BY <1>2, <1>4 DEF BeginsNew, QueueFits
<1>6. Quiet(l)'
  BY DEF Quiet
<1>7. HearsInOrder(l)'
  <2>1. \A i \in DOMAIN heard'[l] : heard'[l][i].hop <= Hops(l)'
    <3>1. ASSUME NEW i \in DOMAIN heard[l] PROVE heard[l][i].hop <= Hops(l) + 1
      <4>1. heard[l][i].hop \in Nat /\ heard[l][i].hop <= Hops(l)
        <5>1. heard[l] \in Seq([event : HeardEvents, hop : Nat])
          BY DEF Typed, LoadsTyped
        <5>2. heard[l][i] \in [event : HeardEvents, hop : Nat]
          BY <5>1, <3>1, ElementOfSeq, LenProperties
        <5> QED
          BY <3>1, <5>2 DEF HearsInOrder
      <4> QED
        BY <1>1, <4>1
    <3> QED
      BY <1>1, <3>1
  <2> QED
    BY <1>2, <1>4, <2>1 DEF HearsInOrder
<1>8. Contract(l)'
  BY DEF Contract
<1>9. Counts(l)'
  BY <1>1, <1>3 DEF Counts
<1>10. Sanitized(l)'
  <2>1. ASSUME NEW h \in DOMAIN trail'[l]
        PROVE  /\ trail'[l][h].auth =>
                    \A g \in 1..h : trail'[l][g].origin = trail'[l][1].origin
               /\ trail'[l][h].method = "GET" => ~trail'[l][h].body
    <3>1. CASE h \in 1..Hops(l)
      <4>1. \A g \in 1..h : g \in 1..Hops(l) /\ 1 \in 1..Hops(l)
        BY <1>1, <3>1
      <4> QED
        BY <1>1, <3>1, <4>1, ZenonT(30) DEF Sanitized
    <3>2. CASE h = Hops(l) + 1
      <4>1. trail'[l][h] = request
        BY <1>1, <3>2
      <4>2. ASSUME request.auth, NEW g \in 1..h PROVE trail'[l][g].origin = request.origin
        <5>1. g \in 1..Hops(l) \/ g = Hops(l) + 1
          BY <1>1, <3>2
        <5> QED
          BY <1>1, <4>2, <5>1
      <4>3. 1 \in 1..h
        BY <1>1, <3>2
      <4> QED
        BY <4>1, <4>2, <4>3
    <3> QED
      BY <1>1, <3>1, <3>2
  <2> QED
    BY <2>1 DEF Sanitized
<1>11. CookiesCarried(l)'
  BY <1>1 DEF CookiesCarried
<1> QED
  BY <1>5, <1>6, <1>7, <1>8, <1>9, <1>10, <1>11 DEF LoadInv


LEMMA NeverScheduledStep ==
  ASSUME IInv, NEW l \in Loads, NeverScheduled(l)
  PROVE  Kept(l)
<1>1. /\ Typed /\ HopsAgree(l) /\ LoadInv(l) /\ l \in Owners
      /\ BeginsNew(l) /\ HearsInOrder(l)
  BY Kinds DEF IInv, LoadInv
<1>2. /\ loader[l] = "new"
      /\ \E how \in {"failed", "local"} : loader' = [loader EXCEPT ![l] = how]
      /\ UNCHANGED <<heard, decision, loadVars, answered, curlVars, cookieVars>>
  BY DEF NeverScheduled, Ends
<1>3. loader'[l] \in {"failed", "local"} /\ Typed' /\ LoadsKeep(l)
  BY <1>1, <1>2 DEF Typed, LoadsTyped, CurlTyped, LoadsKeep
<1>4. HopsAgree(l)' /\ OthersKeep(l) /\ Hops(l)' = Hops(l) /\ Stands(l)' = Stands(l)
  BY <1>1, <1>2 DEF HopsAgree, OthersKeep, Hops, Stands
<1>5. m_curlRequest[l] = 0
  BY <1>1, <1>2, EmptySeq DEF BeginsNew, HopsAgree, Hops
<1>6. BeginsNew(l)' /\ QueueFits(l)' /\ Quiet(l)' /\ HearsInOrder(l)'
  <2>1. BeginsNew(l)' /\ QueueFits(l)'
    BY <1>2, <1>3, <1>5 DEF BeginsNew, QueueFits
  <2>2. Quiet(l)'
    BY <1>1, <1>2, <1>3, <1>5 DEF Quiet, BeginsNew
  <2>3. HearsInOrder(l)'
    BY <1>1, <1>2, <1>3, <1>4 DEF HearsInOrder, ResponseHeard
  <2> QED
    BY <2>1, <2>2, <2>3
<1>7. Contract(l)' /\ Counts(l)' /\ Sanitized(l)' /\ CookiesCarried(l)'
  BY <1>1, <1>2, <1>3, <1>4 DEF LoadInv, Contract, Counts, Sanitized, CookiesCarried
<1> QED
  BY <1>3, <1>4, <1>6, <1>7 DEF Kept, LoadInv

LEMMA ScheduleStep ==
  ASSUME IInv, NEW l \in Loads, ScheduleLoad(l)
  PROVE  Kept(l)
<1>1. /\ Typed /\ HopsAgree(l) /\ LoadInv(l) /\ l \in Owners /\ l \notin Pings
      /\ BeginsNew(l) /\ HearsInOrder(l) /\ Contract(l) /\ Sanitized(l)
  BY Kinds DEF IInv, LoadInv
<1>2. PICK request \in FirstRequests : CreateCurlRequest(l, request)
  BY DEF ScheduleLoad
<1>3. /\ loader[l] = "new" /\ loader' = [loader EXCEPT ![l] = "loading"]
      /\ m_loads' = m_loads \cup {l} /\ m_loader' = [m_loader EXCEPT ![l] = TRUE]
      /\ m_doneCallback' = [m_doneCallback EXCEPT ![l] = TRUE]
      /\ UNCHANGED <<heard, decision, m_redirectCount, answered, callbacks, jar>>
  BY DEF ScheduleLoad
<1>4. /\ request \in Requests
      /\ request.method = "GET" => ~request.body
  BY DEF FirstRequests
<1>5. /\ trail[l] = <<>> /\ callbacks[l] = <<>> /\ decision[l].type = "none" /\ heard[l] = <<>>
      /\ m_redirectCount[l] = 0 /\ Hops(l) = 0 /\ jar[l] = 0
  BY <1>1, <1>3, EmptySeq DEF BeginsNew, HopsAgree, Hops, Typed, CurlTyped
<1>6. HopsAgree(l)' /\ OthersKeep(l) /\ CurlTyped'
  BY <1>1, <1>2, <1>3, <1>4, <1>5, Started
<1>7. LoadsTyped' /\ LoadsKeep(l) /\ loader'[l] = "loading" /\ l \in m_loads'
  BY <1>1, <1>3 DEF Typed, LoadsTyped, LoadsKeep
<1>8. \A g \in DOMAIN trail[l] : trail[l][g].origin = request.origin
  BY <1>5
<1>9. \A i \in DOMAIN heard[l] : heard[l][i].event \notin Ending
  BY <1>5
<1>10. Hops(l) <= m_redirectCount[l] /\ m_redirectCount[l] <= MaxRedirects + 1
  BY <1>5, LoadAssumption
<1>11. LoadInv(l)'
  BY <1>1, <1>2, <1>3, <1>4, <1>5, <1>7, <1>8, <1>9, <1>10, StartedLoad
<1> QED
  BY <1>6, <1>7, <1>11 DEF Kept, Typed

LEMMA RemoveStep ==
  ASSUME IInv, NEW l \in Loads, Remove(l)
  PROVE  Kept(l)
<1>1. /\ Typed /\ HopsAgree(l) /\ LoadInv(l) /\ l \in Owners
      /\ Quiet(l) /\ HearsInOrder(l) /\ Contract(l)
  BY Kinds DEF IInv, LoadInv
<1>2. /\ loader[l] = "loading" /\ loader' = [loader EXCEPT ![l] = "cancelled"]
      /\ Told(l, "cancelled", 0) /\ m_loads' = m_loads \ {l}
      /\ UNCHANGED <<decision, m_doneCallback, m_redirectCount, answered, trail,
                     callbacks, cookieVars>>
  BY DEF Remove, Ends
<1>3. /\ CancelCurlRequest(l) /\ m_loader' \in [Loads -> BOOLEAN]
      /\ \A x \in Loads : x # l => m_loader'[x] = m_loader[x]
      /\ decision[l].type = "redirect" => ~m_loader'[l]
  <2>1. CASE l \in m_loads
    <3>1. CancelCurlRequest(l) /\ m_loader' = [m_loader EXCEPT ![l] = FALSE]
      BY <2>1 DEF Remove
    <3> QED
      BY <1>1, <3>1 DEF Typed, LoadsTyped
  <2>2. CASE l \notin m_loads
    <3>1. UNCHANGED <<m_curlRequest, transfer, m_loader>> /\ m_curlRequest[l] = 0
      BY <1>1, <1>2, <2>2 DEF Remove, Quiet
    <3>2. transfer' = [transfer EXCEPT ![l] = WithoutCurrent(l)]
      BY <1>1, <3>1 DEF WithoutCurrent, Typed, CurlTyped
    <3>3. m_curlRequest' = [m_curlRequest EXCEPT ![l] = 0]
      BY <1>1, <3>1 DEF Typed, CurlTyped
    <3> QED
      BY <1>1, <3>1, <3>2, <3>3 DEF CancelCurlRequest, Quiet, Typed, LoadsTyped
  <2> QED
    BY <2>1, <2>2
<1>4. /\ callbacks' \in [Owners -> Seq(Callbacks)] /\ jar' \in [Owners -> Nat]
      /\ jar' = jar /\ sent' = sent
  BY <1>1, <1>2 DEF Typed, CurlTyped
<1>5. /\ HopsAgree(l)' /\ OthersKeep(l) /\ CurlTyped'
      /\ Hops(l)' = Hops(l) /\ Hops(l) \in Nat /\ m_curlRequest'[l] = 0
      /\ Hops(l) # 0 => Stands(l)' \notin Live
  BY <1>1, <1>2, <1>3, <1>4, Released
<1>6. /\ Contract(l)' /\ heard' \in [Loads -> Seq([event : HeardEvents, hop : Nat])]
      /\ \A i \in DOMAIN heard'[l] : heard'[l][i].hop <= Hops(l)
      /\ ResponseHeard(l) => ResponseHeard(l)'
      /\ \A x \in Loads : x # l => heard'[x] = heard[x]
  <2>1. "cancelled" \in HeardEvents /\ 0 \in Nat /\ 0 <= Hops(l) /\ trail' = trail
        /\ "cancelled" \notin {"data", "finish"}
    BY <1>2, <1>5 DEF HeardEvents, Ending
  <2> QED
    BY <1>1, <1>2, <1>5, <2>1, HearsMore
<1>7. Typed' /\ LoadsKeep(l) /\ loader'[l] = "cancelled"
  BY <1>1, <1>2, <1>3, <1>5, <1>6 DEF Typed, LoadsTyped, LoadsKeep
<1>8. BeginsNew(l)' /\ QueueFits(l)' /\ Quiet(l)'
  BY <1>2, <1>3, <1>5, <1>7 DEF BeginsNew, QueueFits, Quiet
<1>9. HearsInOrder(l)'
  <2>1. "body" \in Live /\ "tail" \in Live
    BY DEF Live
  <2> QED
    BY <1>1, <1>2, <1>5, <1>6, <1>7, <2>1 DEF HearsInOrder
<1>10. Counts(l)' /\ Sanitized(l)' /\ CookiesCarried(l)'
  <2>1. Counts(l)'
    BY <1>1, <1>2, <1>5, <1>7 DEF LoadInv, Counts
  <2>2. Sanitized(l)' /\ CookiesCarried(l)'
    BY <1>1, <1>2, <1>5 DEF LoadInv, Sanitized, CookiesCarried
  <2> QED
    BY <2>1, <2>2
<1> QED
  BY <1>5, <1>6, <1>7, <1>8, <1>9, <1>10 DEF Kept, LoadInv


LEMMA ProceedStep ==
  ASSUME IInv, NEW l \in Loads, Proceed(l)
  PROVE  Kept(l)
<1>1. /\ Typed /\ HopsAgree(l) /\ LoadInv(l) /\ l \in Owners
      /\ QueueFits(l) /\ Quiet(l) /\ HearsInOrder(l)
  BY Kinds DEF IInv, LoadInv
<1>2. /\ decision[l].type = "response" /\ decision' = [decision EXCEPT ![l] = NoDecision]
      /\ UNCHANGED <<loader, heard, loadVars, answered, m_curlRequest, trail, callbacks,
                     cookieVars>>
  BY DEF Proceed
<1>3. /\ decision' \in [Loads -> Decisions] /\ decision'[l].type = "none"
      /\ \A x \in Loads : x # l => decision'[x] = decision[x]
  BY <1>1, <1>2, Kinds DEF Typed, LoadsTyped
<1>4. LoadsTyped' /\ LoadsKeep(l)
  BY <1>1, <1>2, <1>3 DEF Typed, LoadsTyped, LoadsKeep
<1>5. Hops(l)' = Hops(l) /\ (ResponseHeard(l)' <=> ResponseHeard(l)) /\ ResponseHeard(l)
  BY <1>1, <1>2 DEF Hops, ResponseHeard, HearsInOrder
<1>6. BeginsNew(l)' /\ Contract(l)' /\ Counts(l)' /\ Sanitized(l)' /\ CookiesCarried(l)'
  <2>1. BeginsNew(l)' /\ Contract(l)' /\ Counts(l)'
    BY <1>1, <1>2, <1>3, <1>5 DEF LoadInv, BeginsNew, Contract, Counts
  <2>2. Sanitized(l)' /\ CookiesCarried(l)'
    BY <1>1, <1>2, <1>3, <1>5 DEF LoadInv, Sanitized, CookiesCarried
  <2> QED
    BY <2>1, <2>2
<1>7. ASSUME m_curlRequest[l] # 0
      PROVE  callbacks[l] = <<>> /\ Stands(l) = "parked" /\ loader[l] = "loading"
  BY <1>1, <1>2, <1>7 DEF QueueFits
<1>8. CASE m_curlRequest[l] # 0 /\ m_loader[l]
  <2>1. /\ m_curlRequest[l] = Hops(l) /\ Hops(l) \in Nat \ {0}
        /\ transfer[l] \in Seq(TransferStates) /\ DOMAIN transfer[l] = 1..Hops(l)
        /\ Len(transfer[l]) = Hops(l)
    BY <1>1, <1>8, LenProperties DEF HopsAgree, Typed, CurlTyped, Hops
  <2> DEFINE t == [transfer[l] EXCEPT ![Hops(l)] = "body"]
  <2>2. transfer' = [transfer EXCEPT ![l] = t]
    BY <1>8, <2>1 DEF Proceed
  <2>3. "body" \in TransferStates /\ "body" \in Live
    BY DEF TransferStates, Live
  <2>4. /\ t \in Seq(TransferStates) /\ Len(t) = Hops(l) /\ DOMAIN t = DOMAIN transfer[l]
        /\ t[Hops(l)] = "body" /\ \A h \in DOMAIN transfer[l] : h # Hops(l) => t[h] = transfer[l][h]
    BY <2>1, <2>3, OneChanged
  <2> HIDE DEF t
  <2>5. /\ transfer'[l] = t /\ transfer' \in [Owners -> Seq(TransferStates)]
        /\ \A x \in Owners : x # l => transfer'[x] = transfer[x]
    BY <1>1, <2>2, <2>4 DEF Typed, CurlTyped
  <2>6. Stands(l)' = "body"
    <3>1. Stands(l)' = transfer'[l][Hops(l)]
      BY <1>5 DEF Stands
    <3> HIDE DEF Hops
    <3> QED
      BY <2>4, <2>5, <3>1
  <2>7. CurlTyped' /\ OthersKeep(l)
    BY <1>1, <1>2, <2>5 DEF Typed, CurlTyped, OthersKeep
  <2>8. HopsAgree(l)'
    <3>1. \A h \in DOMAIN transfer'[l] : transfer'[l][h] \in Live => m_curlRequest[l] = h
      BY <1>1, <2>1, <2>4, <2>5 DEF HopsAgree
    <3>2. Len(transfer'[l]) = Hops(l)
      BY <2>4, <2>5
    <3> QED
      BY <1>1, <1>2, <1>5, <3>1, <3>2 DEF HopsAgree
  <2>9. QueueFits(l)' /\ Quiet(l)'
    BY <1>1, <1>2, <1>3, <1>7, <1>8, <2>6 DEF QueueFits, Quiet
  <2>10. HearsInOrder(l)'
    BY <1>1, <1>2, <1>3, <1>5 DEF HearsInOrder
  <2> QED
    BY <1>4, <1>6, <2>7, <2>8, <2>9, <2>10 DEF Kept, Typed, LoadInv
<1>9. CASE ~(m_curlRequest[l] # 0 /\ m_loader[l])
  <2>1. transfer' = transfer
    BY <1>9 DEF Proceed
  <2>2. CurlTyped' /\ OthersKeep(l) /\ Stands(l)' = Stands(l)
    BY <1>1, <1>2, <2>1 DEF Typed, CurlTyped, OthersKeep, Stands, Hops
  <2>3. HopsAgree(l)'
    BY <1>1, <1>2, <1>5, <2>1 DEF HopsAgree
  <2>4. QueueFits(l)' /\ Quiet(l)'
    BY <1>1, <1>2, <1>3, <1>7, <2>2 DEF QueueFits, Quiet
  <2>5. HearsInOrder(l)'
    BY <1>1, <1>2, <1>3, <1>5 DEF HearsInOrder
  <2> QED
    BY <1>4, <1>6, <2>2, <2>3, <2>4, <2>5 DEF Kept, Typed, LoadInv
<1> QED
  BY <1>8, <1>9

LEMMA StopStep ==
  ASSUME IInv, NEW l \in Loads, StopRedirect(l)
  PROVE  Kept(l)
<1>1. /\ Typed /\ HopsAgree(l) /\ LoadInv(l) /\ l \in Owners
      /\ Quiet(l) /\ HearsInOrder(l)
  BY Kinds DEF IInv, LoadInv
<1>2. /\ decision[l].type = "redirect" /\ decision' = [decision EXCEPT ![l] = NoDecision]
      /\ CancelCurlRequest(l) /\ NotifyDone(l)
      /\ UNCHANGED <<loader, heard, m_loader, m_redirectCount, answered, trail, callbacks,
                     cookieVars>>
  BY DEF StopRedirect
<1>3. /\ decision' \in [Loads -> Decisions] /\ decision'[l].type = "none"
      /\ m_loads' \subseteq Loads /\ m_doneCallback' \in [Loads -> BOOLEAN]
      /\ \A x \in Loads : x # l => decision'[x] = decision[x] /\ (x \in m_loads' <=> x \in m_loads)
  BY <1>1, <1>2, Kinds DEF Typed, LoadsTyped, NotifyDone
<1>4. LoadsTyped' /\ LoadsKeep(l)
  BY <1>1, <1>2, <1>3 DEF Typed, LoadsTyped, LoadsKeep
<1>5. /\ callbacks' \in [Owners -> Seq(Callbacks)] /\ jar' \in [Owners -> Nat]
      /\ jar' = jar /\ sent' = sent
  BY <1>1, <1>2 DEF Typed, CurlTyped
<1>6. /\ HopsAgree(l)' /\ OthersKeep(l) /\ CurlTyped'
      /\ Hops(l)' = Hops(l) /\ m_curlRequest'[l] = 0
      /\ Hops(l) # 0 => Stands(l)' \notin Live
  BY <1>1, <1>2, <1>5, Released
<1>7. BeginsNew(l)' /\ QueueFits(l)' /\ Quiet(l)'
  BY <1>1, <1>2, <1>3, <1>6 DEF LoadInv, BeginsNew, QueueFits, Quiet
<1>8. HearsInOrder(l)'
  <2>1. "body" \in Live /\ "tail" \in Live
    BY DEF Live
  <2>2. ResponseHeard(l)' <=> ResponseHeard(l)
    BY <1>2, <1>6 DEF ResponseHeard
  <2> QED
    BY <1>1, <1>2, <1>3, <1>6, <2>1, <2>2 DEF HearsInOrder
<1>9. Contract(l)' /\ Counts(l)'
  BY <1>1, <1>2, <1>3, <1>6 DEF LoadInv, Contract, Counts
<1>10. Sanitized(l)' /\ CookiesCarried(l)'
  BY <1>1, <1>2, <1>3, <1>6 DEF LoadInv, Sanitized, CookiesCarried
<1> QED
  BY <1>4, <1>6, <1>7, <1>8, <1>9, <1>10 DEF Kept, Typed, LoadInv

LEMMA FollowStep ==
  ASSUME IInv, NEW l \in Loads, FollowRedirect(l)
  PROVE  Kept(l)
<1> DEFINE request == decision[l].request
<1>1. /\ Typed /\ HopsAgree(l) /\ LoadInv(l) /\ l \in Owners /\ l \notin Pings
      /\ QueueFits(l) /\ Quiet(l) /\ HearsInOrder(l) /\ Contract(l) /\ Counts(l)
      /\ Sanitized(l) /\ CookiesCarried(l)
  BY Kinds DEF IInv, LoadInv
<1>2. /\ decision[l].type = "redirect" /\ m_loader[l]
      /\ decision' = [decision EXCEPT ![l] = NoDecision]
      /\ CreateCurlRequest(l, request)
      /\ UNCHANGED <<loader, heard, loadVars, answered, callbacks, jar>>
  BY DEF FollowRedirect
<1>3. /\ decision' \in [Loads -> Decisions] /\ decision'[l].type = "none"
      /\ \A x \in Loads : x # l => decision'[x] = decision[x]
      /\ request \in Requests
  BY <1>1, <1>2, Kinds DEF Typed, LoadsTyped
<1>4. LoadsTyped' /\ LoadsKeep(l)
  BY <1>1, <1>2, <1>3 DEF Typed, LoadsTyped, LoadsKeep
<1>5. m_curlRequest[l] # 0 /\ callbacks[l] = <<>> /\ loader[l] = "loading"
  BY <1>1, <1>2 DEF Quiet, QueueFits
<1>6. /\ jar[l] = Hops(l) /\ l \in m_loads /\ Hops(l) <= m_redirectCount[l]
      /\ m_redirectCount[l] <= MaxRedirects + 1
      /\ \A i \in DOMAIN heard[l] : heard[l][i].event \notin Ending
      /\ request.auth => \A g \in DOMAIN trail[l] : trail[l][g].origin = request.origin
      /\ request.method = "GET" => ~request.body
  BY <1>1, <1>2, <1>5 DEF CookiesCarried, Quiet, Counts, HearsInOrder, Sanitized
<1>7. loader'[l] = "loading" /\ l \in m_loads'
  BY <1>2, <1>5, <1>6
<1> HIDE DEF request
<1>8. HopsAgree(l)' /\ OthersKeep(l) /\ CurlTyped'
  BY <1>1, <1>2, <1>3, <1>5, Started
<1>9. LoadInv(l)'
  BY <1>1, <1>2, <1>3, <1>5, <1>6, <1>7, StartedLoad
<1> QED
  BY <1>4, <1>8, <1>9 DEF Kept, Typed

LEMMA StartPingStep ==
  ASSUME IInv, NEW p \in Pings, StartPing(p)
  PROVE  Kept(p)
<1>1. Typed /\ HopsAgree(p) /\ p \in Owners /\ p \notin Loads
  BY Kinds DEF IInv
<1>2. PICK request \in FirstRequests : CreateCurlRequest(p, request)
  BY DEF StartPing
<1>3. trail[p] = <<>> /\ UNCHANGED <<webCore, loadVars, answered, callbacks, jar>>
  BY DEF StartPing
<1>4. Hops(p) = 0 /\ callbacks[p] \in Seq(Callbacks)
  BY <1>1, <1>3, EmptySeq DEF Hops, Typed, CurlTyped
<1>5. callbacks[p] = <<>>
  <2>1. \A i \in DOMAIN callbacks[p] : FALSE
    BY <1>1, <1>4 DEF HopsAgree
  <2>2. Len(callbacks[p]) \in Nat /\ DOMAIN callbacks[p] = 1..Len(callbacks[p])
    BY <1>4, LenProperties
  <2>3. Len(callbacks[p]) = 0
    <3>1. Len(callbacks[p]) # 0 => 1 \in DOMAIN callbacks[p]
      BY <2>2
    <3> QED
      BY <2>1, <3>1
  <2> QED
    BY <1>4, <2>3, EmptySeq
<1>6. request \in Requests
  BY DEF FirstRequests
<1>7. HopsAgree(p)' /\ OthersKeep(p) /\ CurlTyped'
  BY <1>1, <1>2, <1>3, <1>4, <1>5, <1>6, Started
<1>8. LoadsTyped' /\ LoadsKeep(p)
  BY <1>1, <1>3 DEF Typed, LoadsTyped, LoadsKeep
<1> QED
  BY <1>1, <1>7, <1>8 DEF Kept, Typed

LEMMA PingStep ==
  ASSUME IInv, NEW p \in Pings, PingResponse(p) \/ PingEnds(p)
  PROVE  Kept(p)
<1>1. Typed /\ HopsAgree(p) /\ p \in Owners /\ p \notin Loads
  BY Kinds DEF IInv
<1>2. /\ callbacks[p] # <<>> /\ callbacks' = [callbacks EXCEPT ![p] = Tail(@)]
      /\ answered' = [answered EXCEPT ![p] = TRUE] /\ CancelCurlRequest(p)
      /\ UNCHANGED <<webCore, loadVars, trail, sent>>
      /\ jar' = jar \/ jar' = [jar EXCEPT ![p] = Hop(p)]
  BY DEF PingResponse, PingEnds, Deliver, Finish, StoreResponseCookies
<1>3. /\ callbacks' \in [Owners -> Seq(Callbacks)] /\ Hop(p) = Hops(p) /\ Hops(p) \in Nat
      /\ DOMAIN callbacks'[p] = 1..(Len(callbacks[p]) - 1)
      /\ \A i \in 1..(Len(callbacks[p]) - 1) : callbacks'[p][i] = callbacks[p][i + 1]
                                              /\ i + 1 \in DOMAIN callbacks[p]
      /\ \A x \in Owners : x # p => callbacks'[x] = callbacks[x]
  BY <1>1, <1>2, PopFacts
<1>4. /\ jar' \in [Owners -> Nat] /\ jar'[p] \in {jar[p], Hops(p)}
      /\ \A x \in Owners : x # p => jar'[x] = jar[x]
  <2>1. CASE jar' = jar
    BY <1>1, <2>1 DEF Typed, CurlTyped
  <2>2. CASE jar' = [jar EXCEPT ![p] = Hop(p)]
    BY <1>1, <1>3, <2>2 DEF Typed, CurlTyped
  <2> QED
    BY <1>2, <2>1, <2>2
<1>5. \A i \in DOMAIN callbacks'[p] : \E k \in DOMAIN callbacks[p] :
        callbacks'[p][i] = callbacks[p][k]
  BY <1>3
<1>6. HopsAgree(p)' /\ OthersKeep(p) /\ CurlTyped'
  BY <1>1, <1>2, <1>3, <1>4, <1>5, Released
<1>7. LoadsTyped' /\ LoadsKeep(p)
  BY <1>1, <1>2 DEF Typed, LoadsTyped, LoadsKeep
<1> QED
  BY <1>1, <1>6, <1>7 DEF Kept, Typed


-----------------------------------------------------------------------------
(* The invariant, and what it means *)

LEMMA InitIInv == Init => IInv
<1> SUFFICES ASSUME Init PROVE IInv
  OBVIOUS
<1>1. LoadsTyped
  <2>1. heard \in [Loads -> Seq([event : HeardEvents, hop : Nat])]
    BY DEF Init
  <2>2. decision \in [Loads -> Decisions]
    BY Kinds DEF Init
  <2>3. m_redirectCount \in [Loads -> 0..MaxRedirects + 2]
    BY LoadAssumption DEF Init
  <2> QED
    BY <2>1, <2>2, <2>3 DEF Init, LoadsTyped
<1>2. CurlTyped
  BY DEF Init, CurlTyped
<1>3. ASSUME NEW o \in Owners PROVE HopsAgree(o)
  <2>1. /\ trail[o] = <<>> /\ transfer[o] = <<>> /\ callbacks[o] = <<>>
        /\ m_curlRequest[o] = 0 /\ jar[o] = 0 /\ sent[o] = 0
    BY <1>3 DEF Init
  <2> QED
    BY <2>1 DEF HopsAgree, Hops
<1>4. ASSUME NEW l \in Loads PROVE LoadInv(l)
  <2>1. /\ trail[l] = <<>> /\ transfer[l] = <<>> /\ callbacks[l] = <<>>
        /\ m_curlRequest[l] = 0 /\ jar[l] = 0 /\ sent[l] = 0
        /\ loader[l] = "new" /\ heard[l] = <<>> /\ decision[l].type = "none"
        /\ m_redirectCount[l] = 0
    BY <1>4, Kinds DEF Init
  <2>2. Hops(l) = 0
    BY <2>1 DEF Hops
  <2>3. BeginsNew(l) /\ QueueFits(l) /\ Quiet(l) /\ HearsInOrder(l) /\ Contract(l)
    BY <2>1, <2>2 DEF BeginsNew, QueueFits, Quiet, HearsInOrder, Contract
  <2>4. Counts(l) /\ Sanitized(l) /\ CookiesCarried(l)
    BY <2>1, <2>2, LoadAssumption DEF Counts, Sanitized, CookiesCarried
  <2> QED
    BY <2>3, <2>4 DEF LoadInv
<1> QED
  BY <1>1, <1>2, <1>3, <1>4 DEF IInv, Typed

LEMMA StepIInv == IInv /\ [Next]_vars => IInv'
<1> SUFFICES ASSUME IInv, [Next]_vars PROVE IInv'
  OBVIOUS
<1>1. ASSUME NEW o \in Owners, Network(o) PROVE IInv'
  BY <1>1, NetworkStep, KeptIsEnough
<1>2. ASSUME NEW o \in Owners, Ignored(o) PROVE IInv'
  BY <1>2, IgnoredStep, KeptIsEnough
<1>3. ASSUME NEW l \in Loads, ReceiveResponse(l) PROVE IInv'
  BY <1>3, Kinds, ResponseStep, KeptIsEnough
<1>4. ASSUME NEW l \in Loads, ReceiveData(l) PROVE IInv'
  BY <1>4, Kinds, DataStep, KeptIsEnough
<1>5. ASSUME NEW l \in Loads, DidComplete(l) \/ DidFailWithError(l) PROVE IInv'
  BY <1>5, Kinds, EndingStep, KeptIsEnough
<1>6. ASSUME NEW p \in Pings, PingResponse(p) \/ PingEnds(p) PROVE IInv'
  BY <1>6, Kinds, PingStep, KeptIsEnough
<1>7. ASSUME NEW o \in Owners, Callback(o) PROVE IInv'
  BY <1>2, <1>3, <1>4, <1>5, <1>6, <1>7 DEF Callback
<1>8. ASSUME NEW l \in Loads, NeverScheduled(l) PROVE IInv'
  BY <1>8, Kinds, NeverScheduledStep, KeptIsEnough
<1>9. ASSUME NEW l \in Loads, ScheduleLoad(l) PROVE IInv'
  BY <1>9, Kinds, ScheduleStep, KeptIsEnough
<1>10. ASSUME NEW l \in Loads, Remove(l) PROVE IInv'
  BY <1>10, Kinds, RemoveStep, KeptIsEnough
<1>11. ASSUME NEW l \in Loads, Proceed(l) PROVE IInv'
  BY <1>11, Kinds, ProceedStep, KeptIsEnough
<1>12. ASSUME NEW l \in Loads, StopRedirect(l) PROVE IInv'
  BY <1>12, Kinds, StopStep, KeptIsEnough
<1>13. ASSUME NEW l \in Loads, FollowRedirect(l) PROVE IInv'
  BY <1>13, Kinds, FollowStep, KeptIsEnough
<1>14. ASSUME NEW p \in Pings, StartPing(p) PROVE IInv'
  BY <1>14, Kinds, StartPingStep, KeptIsEnough
<1>15. CASE UNCHANGED vars
  <2>1. Typed'
    BY <1>15 DEF IInv, Typed, LoadsTyped, CurlTyped
  <2>2. ASSUME NEW o \in Owners PROVE HopsAgree(o)'
    BY <1>15 DEF IInv, HopsAgree, Hops
  <2>3. ASSUME NEW l \in Loads PROVE LoadInv(l)'
    BY <1>15, <2>3, LoadUntouched DEF IInv
  <2> QED
    BY <2>1, <2>2, <2>3 DEF IInv
<1> QED
  BY <1>1, <1>7, <1>8, <1>9, <1>10, <1>11, <1>12, <1>13, <1>14, <1>15 DEF Next, Decide

\* Every reachable state is one IInv describes.
THEOREM Invariance == Spec => []IInv
<1>1. Init => IInv
  BY InitIInv
<1>2. IInv /\ [Next]_vars => IInv'
  BY StepIInv
<1> QED
  BY <1>1, <1>2, PTL DEF Spec

\* Every state of the loads is well typed, and no load makes more than
\* MaxRedirects + 2 requests, however long the chain its servers send it along.
THEOREM TypeCorrect == Spec => []TypeOK
<1>1. IInv => TypeOK
  <2> SUFFICES ASSUME IInv PROVE TypeOK
    OBVIOUS
  <2>1. LoadsTyped /\ CurlTyped /\ MaxRedirects \in Nat
    BY LoadAssumption DEF IInv, Typed
  <2>2. \A l \in Loads : decision[l] \in Decisions
    BY <2>1 DEF LoadsTyped
  <2>3. ASSUME NEW o \in Owners
        PROVE  /\ trail[o] \in Seq(Requests) /\ Len(trail[o]) <= MaxRedirects + 2
               /\ transfer[o] \in Seq(TransferStates) /\ Len(transfer[o]) = Len(trail[o])
               /\ m_curlRequest[o] \in 0..Len(trail[o])
               /\ callbacks[o] \in Seq(Callbacks)
               /\ jar[o] \in 0..Len(trail[o]) /\ sent[o] \in 0..Len(trail[o])
    <3>1. /\ trail[o] \in Seq(Requests) /\ transfer[o] \in Seq(TransferStates)
          /\ callbacks[o] \in Seq(Callbacks) /\ m_curlRequest[o] \in Nat
          /\ jar[o] \in Nat /\ sent[o] \in Nat
      BY <2>1, <2>3 DEF CurlTyped
    <3>2. Len(trail[o]) \in Nat
      BY <3>1, LenProperties
    <3>3. /\ Len(transfer[o]) = Len(trail[o]) /\ m_curlRequest[o] \in {0, Len(trail[o])}
          /\ jar[o] <= Len(trail[o]) /\ sent[o] <= Len(trail[o])
          /\ o \in Pings => Len(trail[o]) <= 1
      BY <2>3 DEF IInv, HopsAgree, Hops
    <3>4. Len(trail[o]) <= MaxRedirects + 2
      <4>1. CASE o \in Loads
        BY <4>1 DEF IInv, LoadInv, Counts, Hops
      <4>2. CASE o \in Pings
        BY <2>1, <3>2, <3>3, <4>2
      <4> QED
        BY <2>3, <4>1, <4>2 DEF Owners
    <3> QED
      BY <3>1, <3>2, <3>3, <3>4
  <2> QED
    BY <2>1, <2>2, <2>3 DEF TypeOK, LoadsTyped
<1> QED
  BY <1>1, Invariance, PTL

\* A loader is told of its hops in order, of data and of the end only after the
\* response of the same hop, of one ending, and of nothing after it.
THEOREM LoaderContractKept == Spec => []LoaderContract
<1>1. IInv => LoaderContract
  BY DEF IInv, LoadInv, Contract, LoaderContract
<1> QED
  BY <1>1, Invariance, PTL

\* No load and no ping ever has two transfers under way, and the one under way is
\* the request its owner can still cancel.
THEOREM OneTransferEver == Spec => []OneTransfer
<1>1. IInv => OneTransfer
  BY DEF IInv, HopsAgree, OneTransfer
<1> QED
  BY <1>1, Invariance, PTL

\* Every leg of a chain of redirects carries the cookies of the legs before it, no
\* Authorization once the chain has left its first origin, and no body in a GET.
THEOREM LegsAreSound == Spec => []LegsSound
<1>1. IInv => LegsSound
  <2> SUFFICES ASSUME IInv PROVE LegsSound
    OBVIOUS
  <2>1. CookiesFollowRedirects
    BY DEF IInv, LoadInv, CookiesCarried, CookiesFollowRedirects
  <2>2. RedirectsSanitized
    BY DEF IInv, LoadInv, Sanitized, RedirectsSanitized
  <2> QED
    BY <2>1, <2>2 DEF LegsSound
<1> QED
  BY <1>1, Invariance, PTL
=============================================================================
