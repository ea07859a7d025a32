-------------------------- MODULE EnginePumpProofs --------------------------
(***************************************************************************)
(* Nothing is ever stranded between the page, the engine's event loop, its *)
(* RunLoop and the curl scheduler: for every burst length, every delay and *)
(* every amount of guest work.                                             *)
(*                                                                         *)
(* What NothingStranded says is not inductive.  A collapse flag is backed  *)
(* because its one carrier goes from hand to hand; a dispatched task has a *)
(* wake-up because nothing takes the wake-up without starting a cycle; and *)
(* the pass curl waits for is where the scheduler's own two flags say.     *)
(*                                                                         *)
(* The second part is about the tasks that the patch puts on that RunLoop  *)
(* in place of a worker's thread (MainRunLoop).                            *)
(***************************************************************************)
EXTENDS EnginePump, MainRunLoop, SequenceLemmas

Queued(entry) == \E i \in DOMAIN proxyQueue : proxyQueue[i] = entry

\* One collapsed call at a time: its flag is up exactly while it is with the page,
\* in the queue or taken by the engine, and it is never in two of these places.
Carried ==
  /\ tickQueued <=> pageAt = "proxyTick" \/ Queued("tick") \/ engineAt = "tick"
  /\ netPumpQueued <=> pageAt = "proxyNet" \/ Queued("net") \/ engineAt = "net"
  /\ pageAt = "proxyTick" => ~Queued("tick") /\ engineAt # "tick"
  /\ pageAt = "proxyNet" => ~Queued("net") /\ engineAt # "net"
  /\ Queued("tick") => engineAt # "tick"
  /\ Queued("net") => engineAt # "net"

\* Bytes and pokes come to an engine that is up, so no poke is ever dropped.
PokesNeedEngine ==
  unread \/ netPumpScheduled \/ pageAt = "proxyNet" => ready

\* Tasks wait for a cycle that is coming: only its message or its start takes the
\* wake-up away.
TasksCalled ==
  /\ tasks.pumps + tasks.others > 0 => wakeUp \/ engineAt = "cycle"
  /\ engineAt # "inCycle" => cycle = Nothing

\* The scheduler's flags tell the truth about the RunLoop.
FlagsTrue ==
  /\ pumpScheduled => tasks.pumps + cycle.pumps > 0
  /\ pumpTimerArmed => pollTimer # Never \/ cycle.poll

IInv ==
  /\ TypeOK
  /\ Carried
  /\ PokesNeedEngine
  /\ TasksCalled
  /\ FlagsTrue
  /\ NothingStranded

-----------------------------------------------------------------------------
(* The proxying queue *)

\* What an entry posted adds to the queue.
LEMMA AppendHolds ==
  ASSUME NEW S, NEW s \in Seq(S), NEW x \in S
  PROVE  /\ Append(s, x) \in Seq(S)
         /\ \A e : (\E i \in DOMAIN Append(s, x) : Append(s, x)[i] = e)
                   <=> (\E i \in DOMAIN s : s[i] = e) \/ e = x
         /\ (/\ \A i, j \in DOMAIN s : i # j => s[i] # s[j]
             /\ ~\E i \in DOMAIN s : s[i] = x)
            => \A i, j \in DOMAIN Append(s, x) :
                 i # j => Append(s, x)[i] # Append(s, x)[j]
<1> DEFINE a == Append(s, x)
<1>1. /\ a \in Seq(S) /\ Len(s) \in Nat
      /\ DOMAIN s = 1..Len(s) /\ DOMAIN a = 1..(Len(s) + 1)
      /\ a[Len(s) + 1] = x /\ \A i \in 1..Len(s) : a[i] = s[i]
  BY AppendFacts, LenProperties
<1> HIDE DEF a
<1>2. \A e : (\E i \in DOMAIN a : a[i] = e)
             <=> (\E i \in DOMAIN s : s[i] = e) \/ e = x
  BY <1>1
<1>3. ASSUME \A i, j \in DOMAIN s : i # j => s[i] # s[j],
             ~\E i \in DOMAIN s : s[i] = x
      PROVE  \A i, j \in DOMAIN a : i # j => a[i] # a[j]
  BY <1>1, <1>3
<1> QED
  BY <1>1, <1>2, <1>3 DEF a

\* What an entry taken leaves in the queue.
LEMMA TailHolds ==
  ASSUME NEW S, NEW s \in Seq(S), s # <<>>,
         \A i, j \in DOMAIN s : i # j => s[i] # s[j]
  PROVE  /\ Tail(s) \in Seq(S) /\ Head(s) \in S
         /\ \E i \in DOMAIN s : s[i] = Head(s)
         /\ \A e : (\E i \in DOMAIN Tail(s) : Tail(s)[i] = e)
                   <=> (\E i \in DOMAIN s : s[i] = e) /\ e # Head(s)
         /\ \A i, j \in DOMAIN Tail(s) : i # j => Tail(s)[i] # Tail(s)[j]
<1> DEFINE t == Tail(s)
<1> DEFINE h == Head(s)
<1>1. /\ t \in Seq(S) /\ h \in S /\ Len(s) \in Nat \ {0}
      /\ DOMAIN s = 1..Len(s) /\ DOMAIN t = 1..(Len(s) - 1)
      /\ h = s[1] /\ \A i \in 1..(Len(s) - 1) : t[i] = s[i + 1]
  <2>1. DOMAIN s = 1..Len(s)
    BY LenProperties
  <2>2. t \in Seq(S) /\ Len(t) = Len(s) - 1
    BY TailFacts
  <2>3. DOMAIN t = 1..Len(t)
    BY <2>2, LenProperties
  <2> QED
    BY <2>1, <2>2, <2>3, TailFacts
<1> HIDE DEF t, h
<1>2. \E i \in DOMAIN s : s[i] = h
  BY <1>1
<1>3. \A e : (\E i \in DOMAIN t : t[i] = e)
             <=> (\E i \in DOMAIN s : s[i] = e) /\ e # h
  <2> TAKE e
  <2>1. ASSUME NEW i \in DOMAIN t, t[i] = e
        PROVE  (\E k \in DOMAIN s : s[k] = e) /\ e # h
    <3>1. i + 1 \in DOMAIN s /\ 1 \in DOMAIN s /\ i + 1 # 1 /\ t[i] = s[i + 1]
      BY <1>1
    <3> QED
      BY <3>1, <2>1, <1>1
  <2>2. ASSUME NEW k \in DOMAIN s, s[k] = e, e # h
        PROVE  \E i \in DOMAIN t : t[i] = e
    <3>1. k # 1
      BY <2>2, <1>1
    <3>2. k - 1 \in DOMAIN t /\ t[k - 1] = s[k]
      BY <3>1, <1>1
    <3> QED
      BY <3>2, <2>2
  <2> QED
    BY <2>1, <2>2
<1>4. ASSUME NEW i \in DOMAIN t, NEW j \in DOMAIN t, i # j
      PROVE  t[i] # t[j]
  <2>1. i + 1 \in DOMAIN s /\ j + 1 \in DOMAIN s /\ i + 1 # j + 1
    BY <1>1, <1>4
  <2> QED
    BY <2>1, <1>1
<1> QED
  BY <1>1, <1>2, <1>3, <1>4 DEF t, h

-----------------------------------------------------------------------------
(* The scheduler's pass and the guest's requests, used by several actions *)

\* What a pass leaves behind has its types, and it has read all there was.
LEMMA PassTypes ==
  ASSUME TypeOK, NEW armed \in BOOLEAN, PumpMainThread(armed)
  PROVE  /\ taskQueue' = FALSE /\ unread' = FALSE /\ activeJobs' \in BOOLEAN
         /\ pumpScheduled' \in BOOLEAN /\ pumpTimerArmed' \in BOOLEAN
         /\ pollTimer' \in Timer
         /\ immediatePumpBurst' \in 0..MaxImmediatePumpBurst
         /\ tasks' \in [pumps : Nat, others : Nat] /\ wakeUp' \in BOOLEAN
<1>1. taskQueue' = FALSE /\ unread' = FALSE /\ activeJobs' \in BOOLEAN
  BY DEF TypeOK, PumpMainThread
<1>2. pumpScheduled' \in BOOLEAN /\ pumpTimerArmed' \in BOOLEAN
  BY DEF TypeOK, PumpMainThread
<1>3. pollTimer' \in Timer
  BY PumpAssumption DEF TypeOK, PumpMainThread, Timer
<1>4. immediatePumpBurst' \in 0..MaxImmediatePumpBurst
  BY PumpAssumption DEF TypeOK, PumpMainThread, BurstGoesOn, Counted
<1>5. Dispatch(0) \/ Dispatch(1)
  BY DEF PumpMainThread
<1>6. tasks' \in [pumps : Nat, others : Nat]
  BY <1>5 DEF TypeOK, Dispatch
<1>7. wakeUp' \in BOOLEAN
  BY <1>5 DEF TypeOK, Dispatch
<1> QED
  BY <1>1, <1>2, <1>3, <1>4, <1>6, <1>7

\* What a pass dispatches is on the RunLoop with its wake-up.
LEMMA PassWakes ==
  ASSUME TypeOK, NEW armed \in BOOLEAN, PumpMainThread(armed)
  PROVE  /\ tasks'.pumps >= tasks.pumps
         /\ wakeUp => wakeUp'
         /\ tasks'.pumps + tasks'.others > tasks.pumps + tasks.others => wakeUp'
         /\ Dispatch(1) => tasks'.pumps > 0
<1>1. tasks.pumps \in Nat /\ tasks.others \in Nat
  BY DEF TypeOK
<1>2. ASSUME NEW n \in Nat, Dispatch(n)
      PROVE  /\ tasks'.pumps = tasks.pumps + n
             /\ wakeUp => wakeUp'
             /\ tasks'.pumps + tasks'.others > tasks.pumps + tasks.others => wakeUp'
  <2> DEFINE others == IF unread THEN 1 ELSE 0
  <2>1. /\ tasks'.pumps = tasks.pumps + n /\ tasks'.others = tasks.others + others
        /\ others \in {0, 1}
    BY <1>2 DEF Dispatch
  <2>2. wakeUp' = (wakeUp \/ n + others > 0 \/ pollTimer' # pollTimer)
    BY <1>2 DEF Dispatch
  <2> HIDE DEF others
  <2>3. tasks'.pumps + tasks'.others > tasks.pumps + tasks.others => n + others > 0
    BY <2>1, <1>1
  <2> QED
    BY <2>1, <2>2, <2>3
<1>3. Dispatch(0) \/ Dispatch(1)
  BY DEF PumpMainThread
<1>4. Dispatch(1) => tasks'.pumps > 0
  BY <1>1, <1>2
<1>5. tasks'.pumps >= tasks.pumps
  BY <1>1, <1>2, <1>3
<1> QED
  BY <1>2, <1>3, <1>4, <1>5

\* As long as jobs are left the next pass is dispatched or in the timer, and the
\* flags that say so tell the truth.
LEMMA PassLeavesWork ==
  ASSUME TypeOK, NEW armed \in BOOLEAN, PumpMainThread(armed),
         armed => pollTimer # Never
  PROVE  /\ activeJobs' => tasks'.pumps > 0 \/ pollTimer' # Never
         /\ pumpScheduled' => tasks'.pumps > 0
         /\ pumpTimerArmed' => pollTimer' # Never
<1>1. pumpScheduled' => Dispatch(1)
  BY DEF PumpMainThread
<1>2. pumpTimerArmed' => pollTimer' # Never
  BY PumpAssumption DEF PumpMainThread
<1>3. activeJobs' => Dispatch(1) \/ pollTimer' # Never
  BY PumpAssumption DEF PumpMainThread
<1> QED
  BY <1>1, <1>2, <1>3, PassWakes

\* Guest work keeps types, dispatches with a wake-up, and leaves the pass a request
\* needs dispatched.
LEMMA GuestWorkFacts ==
  ASSUME TypeOK, GuestWork
  PROVE  /\ wakeUp' \in BOOLEAN /\ pumpTimer' = pumpTimer
         /\ tasks' \in [pumps : Nat, others : Nat]
         /\ guestTimer' \in Timer /\ pumpScheduled' \in BOOLEAN
         /\ taskQueue' \in BOOLEAN /\ work' \in 0..MaxWork
         /\ wakeUp => wakeUp'
         /\ tasks'.pumps >= tasks.pumps
         /\ tasks' # tasks \/ guestTimer' # guestTimer => wakeUp'
         /\ taskQueue' => taskQueue \/ pumpScheduled'
         /\ pumpScheduled' => pumpScheduled \/ tasks'.pumps > 0
<1>1. CASE UNCHANGED <<hostVars, tasks, guestTimer, pumpScheduled, taskQueue, work>>
  BY <1>1 DEF hostVars, TypeOK
<1>2. CASE /\ work' = work + 1 /\ work < MaxWork
           /\ taskQueue' = TRUE /\ StartOrWakeUpThread /\ UNCHANGED <<guestTimer, pumpTimer>>
  <2>1. /\ pumpScheduled' = TRUE
        /\ \/ pumpScheduled /\ tasks' = tasks /\ wakeUp' = wakeUp
           \/ /\ tasks' = [tasks EXCEPT !.pumps = @ + 1] /\ wakeUp' = TRUE
    BY <1>2 DEF StartOrWakeUpThread
  <2>2. /\ tasks' \in [pumps : Nat, others : Nat]
        /\ tasks'.pumps >= tasks.pumps
        /\ pumpScheduled \/ tasks'.pumps > 0
    <3>1. tasks.pumps \in Nat /\ tasks \in [pumps : Nat, others : Nat]
      BY DEF TypeOK
    <3>2. CASE pumpScheduled /\ tasks' = tasks
      BY <3>1, <3>2
    <3>3. CASE tasks' = [tasks EXCEPT !.pumps = @ + 1]
      <4>1. tasks'.pumps = tasks.pumps + 1
        BY <3>1, <3>3
      <4>2. tasks' \in [pumps : Nat, others : Nat]
        BY <3>1, <3>3
      <4> QED
        BY <4>1, <4>2, <3>1
    <3> QED
      BY <2>1, <3>2, <3>3
  <2>3. work' \in 0..MaxWork
    BY <1>2, PumpAssumption DEF TypeOK
  <2>4. tasks' # tasks => wakeUp'
    BY <2>1
  <2>5. (wakeUp => wakeUp') /\ wakeUp' \in BOOLEAN
    BY <2>1 DEF TypeOK
  <2>6. /\ pumpTimer' = pumpTimer /\ guestTimer' \in Timer /\ guestTimer' = guestTimer
        /\ taskQueue' \in BOOLEAN /\ pumpScheduled' \in BOOLEAN
    BY <1>2, <2>1 DEF TypeOK
  <2> QED
    BY <2>1, <2>2, <2>3, <2>4, <2>5, <2>6, Zenon
<1>3. CASE /\ work' = work + 1 /\ work < MaxWork
           /\ tasks' = [tasks EXCEPT !.others = @ + 1] /\ wakeUp' = TRUE
           /\ UNCHANGED <<guestTimer, pumpTimer, pumpScheduled, taskQueue>>
  BY <1>3, PumpAssumption DEF TypeOK
<1>4. CASE /\ work' = work + 1 /\ work < MaxWork
           /\ guestTimer' \in {0, GuestDelay} /\ wakeUp' = TRUE
           /\ UNCHANGED <<tasks, pumpTimer, pumpScheduled, taskQueue>>
  BY <1>4, PumpAssumption DEF TypeOK, Timer
<1> QED
  BY <1>1, <1>2, <1>3, <1>4 DEF GuestWork

-----------------------------------------------------------------------------
(* The steps, one conjunct of the invariant after the other *)

USE DEF pageVars, proxyVars, hostVars, loopVars, curlVars, vars

LEMMA InitIInv == Init => IInv
<1> SUFFICES ASSUME Init PROVE IInv
  OBVIOUS
<1>1. proxyQueue = <<>> /\ <<>> \in Seq({"tick", "net"}) /\ DOMAIN proxyQueue = {}
  BY EmptySeq DEF Init
<1>2. TypeOK
  <2>1. /\ proxyQueue \in Seq({"tick", "net"})
        /\ \A i, j \in DOMAIN proxyQueue : i # j => proxyQueue[i] # proxyQueue[j]
    BY <1>1
  <2>2. /\ tasks \in [pumps : Nat, others : Nat] /\ cycle \in Batch
        /\ pumpTimer \in Timer /\ guestTimer \in Timer /\ pollTimer \in Timer
        /\ immediatePumpBurst \in 0..MaxImmediatePumpBurst /\ work \in 0..MaxWork
    BY PumpAssumption DEF Init, Nothing, Batch, Timer
  <2> QED
    BY <2>1, <2>2 DEF Init, TypeOK
<1>3. Carried /\ PokesNeedEngine
  BY <1>1 DEF Init, Carried, Queued, PokesNeedEngine
<1>4. TasksCalled /\ FlagsTrue
  BY DEF Init, TasksCalled, FlagsTrue
<1>5. CollapseFlagsBacked /\ PokeNeverLost
  BY DEF Init, CollapseFlagsBacked, PokeNeverLost
<1>6. RunLoopCalledBack /\ TransfersDriven
  BY DEF Init, RunLoopCalledBack, TransfersDriven
<1> QED
  BY <1>2, <1>3, <1>4, <1>5, <1>6 DEF IInv, NothingStranded

\* A posted entry joins the queue, and is not there twice.
LEMMA ProxyQueueGrows ==
  ASSUME TypeOK, NEW at, NEW entry \in {"tick", "net"}, Proxy(at, entry), ready
  PROVE  /\ proxyQueue' \in Seq({"tick", "net"})
         /\ \A e : Queued(e)' <=> Queued(e) \/ e = entry
         /\ ~Queued(entry) => \A i, j \in DOMAIN proxyQueue' :
                                i # j => proxyQueue'[i] # proxyQueue'[j]
<1> DEFINE S == {"tick", "net"}
<1> DEFINE a == Append(proxyQueue, entry)
<1>1. proxyQueue' = a
  BY DEF Proxy
<1>2. proxyQueue \in Seq(S) /\ entry \in S
  BY DEF TypeOK
<1>3. \A i, j \in DOMAIN proxyQueue : i # j => proxyQueue[i] # proxyQueue[j]
  BY DEF TypeOK
<1> HIDE DEF S
<1>4. /\ a \in Seq(S)
      /\ \A e : (\E i \in DOMAIN a : a[i] = e)
                <=> (\E i \in DOMAIN proxyQueue : proxyQueue[i] = e) \/ e = entry
      /\ (/\ \A i, j \in DOMAIN proxyQueue : i # j => proxyQueue[i] # proxyQueue[j]
          /\ ~\E i \in DOMAIN proxyQueue : proxyQueue[i] = entry)
         => \A i, j \in DOMAIN a : i # j => a[i] # a[j]
  BY <1>2, AppendHolds
<1> HIDE DEF a
<1> QED
  BY <1>1, <1>3, <1>4, Zenon DEF Queued, S

\* A taken entry was in the queue and is not any more.
LEMMA ProxyQueueShrinks ==
  ASSUME TypeOK, TakeProxied
  PROVE  /\ proxyQueue' \in Seq({"tick", "net"})
         /\ engineAt' \in {"tick", "net"} /\ Queued(engineAt')
         /\ \A e : Queued(e)' <=> Queued(e) /\ e # engineAt'
         /\ \A i, j \in DOMAIN proxyQueue' : i # j => proxyQueue'[i] # proxyQueue'[j]
<1>1. proxyQueue # <<>> /\ proxyQueue' = Tail(proxyQueue) /\ engineAt' = Head(proxyQueue)
  BY DEF TakeProxied
<1>2. /\ proxyQueue \in Seq({"tick", "net"})
      /\ \A i, j \in DOMAIN proxyQueue : i # j => proxyQueue[i] # proxyQueue[j]
  BY DEF TypeOK
<1>3. /\ Tail(proxyQueue) \in Seq({"tick", "net"}) /\ Head(proxyQueue) \in {"tick", "net"}
      /\ \E i \in DOMAIN proxyQueue : proxyQueue[i] = Head(proxyQueue)
      /\ \A e : (\E i \in DOMAIN Tail(proxyQueue) : Tail(proxyQueue)[i] = e)
                <=> (\E i \in DOMAIN proxyQueue : proxyQueue[i] = e) /\ e # Head(proxyQueue)
      /\ \A i, j \in DOMAIN Tail(proxyQueue) : i # j => Tail(proxyQueue)[i] # Tail(proxyQueue)[j]
  BY <1>1, <1>2, TailHolds
<1> QED
  BY <1>1, <1>3, Zenon DEF Queued

\* A pass the cycle takes up.
LEMMA CyclePumpTakes ==
  ASSUME TypeOK, CyclePump
  PROVE  cycle' \in Batch
<1>1. cycle.pumps \in Nat /\ cycle.pumps > 0 /\ cycle' = [cycle EXCEPT !.pumps = @ - 1]
  BY DEF TypeOK, CyclePump, Batch
<1>2. cycle.pumps - 1 \in Nat
  BY <1>1
<1> QED
  BY <1>1, <1>2 DEF TypeOK, Batch

LEMMA StepTypeOK ==
  ASSUME TypeOK, Carried, [Next]_vars
  PROVE  TypeOK'
<1> USE DEF TypeOK
<1>1. CASE Main
  BY <1>1 DEF Main
<1>2. CASE CallTick
  BY <1>2 DEF CallTick
<1>3. CASE BytesArrive
  BY <1>3 DEF BytesArrive
<1>4. CASE NetPumpMessage
  BY <1>4, ZenonT(30) DEF NetPumpMessage
<1>5. ASSUME NEW at \in {"proxyTick", "proxyNet"}, NEW entry \in {"tick", "net"},
             Proxy(at, entry), ~Queued(entry)
      PROVE  TypeOK'
  <2>1. /\ proxyQueue' \in Seq({"tick", "net"})
        /\ \A i, j \in DOMAIN proxyQueue' : i # j => proxyQueue'[i] # proxyQueue'[j]
    <3>1. CASE ready
      BY <1>5, <3>1, ProxyQueueGrows
    <3>2. CASE ~ready
      BY <1>5, <3>2 DEF Proxy
    <3> QED
      BY <3>1, <3>2
  <2>2. tickQueued' \in BOOLEAN /\ netPumpQueued' \in BOOLEAN
    BY <1>5 DEF Proxy, Dropped
  <2> QED
    BY <1>5, <2>1, <2>2 DEF Proxy
<1>6. CASE ProxyTick
  BY <1>6, <1>5 DEF ProxyTick, Proxy, Carried
<1>7. CASE ProxyNet
  BY <1>7, <1>5 DEF ProxyNet, Proxy, Carried
<1>8. CASE TakeProxied
  BY <1>8, ProxyQueueShrinks DEF TakeProxied
<1>9. CASE RunTick
  BY <1>9, ZenonT(30) DEF RunTick
<1>10. CASE RunNetPump
  BY <1>10, ZenonT(30) DEF RunNetPump
<1>11. CASE WakeUpMessage
  BY <1>11, ZenonT(30) DEF WakeUpMessage
<1>12. CASE PumpTimerFires
  BY <1>12 DEF PumpTimerFires, Timer
<1>13. CASE HostPump
  BY <1>13, PassTypes DEF HostPump
<1>14. CASE CycleStarts
  BY <1>14 DEF CycleStarts, Batch, Timer
<1>15. CASE CyclePoll
  BY <1>15, PassTypes DEF CyclePoll, ArmedInCallback, Batch
<1>16. CASE CyclePump
  <2>1. cycle' \in Batch
    BY <1>16, CyclePumpTakes
  <2>2. PumpMainThread(pumpTimerArmed)
    BY <1>16 DEF CyclePump
  <2> QED
    BY <1>16, <2>1, <2>2, PassTypes DEF CyclePump
<1>17. CASE CycleGuest
  <2>1. cycle' \in Batch
    <3>1. CASE cycle.guest /\ cycle' = [cycle EXCEPT !.guest = FALSE]
      BY <3>1 DEF Batch
    <3>2. CASE cycle.others > 0 /\ cycle' = [cycle EXCEPT !.others = @ - 1]
      <4>1. cycle.others \in Nat /\ cycle.others - 1 \in Nat
        BY <3>2 DEF Batch
      <4> QED
        BY <3>2, <4>1 DEF Batch
    <3> QED
      BY <1>17, <3>1, <3>2 DEF CycleGuest
  <2>2. GuestWork
    BY <1>17 DEF CycleGuest
  <2> QED
    BY <1>17, <2>1, <2>2, GuestWorkFacts DEF CycleGuest
<1>18. CASE CycleEnds
  BY <1>18 DEF CycleEnds, ArmTimer
<1>19. CASE Input
  BY <1>19, GuestWorkFacts DEF Input
<1>20. CASE ClockSteps
  BY <1>20 DEF ClockSteps, Less, Timer
<1>21. CASE UNCHANGED vars
  BY <1>21
<1> QED
  BY <1>1, <1>2, <1>3, <1>4, <1>6, <1>7, <1>8, <1>9, <1>10, <1>11, <1>12, <1>13,
     <1>14, <1>15, <1>16, <1>17, <1>18, <1>19, <1>20, <1>21 DEF Next

\* A call carries its flag from the page through the queue to the task that lowers
\* it; nobody else touches it.
LEMMA StepCarried ==
  ASSUME TypeOK, PokesNeedEngine, Carried, [Next]_vars
  PROVE  Carried'
<1> USE DEF TypeOK, Carried
<1>0. proxyQueue' = proxyQueue => \A e : Queued(e)' <=> Queued(e)
  BY DEF Queued
<1>1. CASE Main
  BY <1>1, <1>0 DEF Main
<1>2. CASE CallTick
  BY <1>2, <1>0 DEF CallTick, Collapses
<1>3. CASE BytesArrive
  BY <1>3, <1>0 DEF BytesArrive
<1>4. CASE NetPumpMessage
  BY <1>4, <1>0 DEF NetPumpMessage, Collapses
<1>5. CASE ProxyTick
  <2>1. CASE ready
    BY <1>5, <2>1, ProxyQueueGrows DEF ProxyTick, Proxy
  <2>2. CASE ~ready
    BY <1>5, <2>2, <1>0 DEF ProxyTick, Proxy, Dropped
  <2> QED
    BY <2>1, <2>2
<1>6. CASE ProxyNet
  <2>1. ready
    BY <1>6 DEF ProxyNet, Proxy, PokesNeedEngine
  <2> QED
    BY <1>6, <2>1, ProxyQueueGrows DEF ProxyNet, Proxy
<1>7. CASE TakeProxied
  BY <1>7, ProxyQueueShrinks DEF TakeProxied
<1>8. CASE RunTick
  BY <1>8, <1>0 DEF RunTick
<1>9. CASE RunNetPump
  BY <1>9, <1>0 DEF RunNetPump
<1>10. ASSUME UNCHANGED <<pageAt, tickQueued, netPumpQueued, proxyQueue>>,
              engineAt \notin {"tick", "net"}, engineAt' \notin {"tick", "net"}
       PROVE  Carried'
  BY <1>10, <1>0
<1>11. CASE WakeUpMessage \/ PumpTimerFires \/ HostPump
  BY <1>11, <1>10 DEF WakeUpMessage, PumpTimerFires, HostPump
<1>12. CASE CycleStarts \/ CycleEnds
  BY <1>12, <1>10 DEF CycleStarts, CycleEnds
<1>13. CASE CyclePoll \/ CyclePump \/ CycleGuest
  BY <1>13, <1>10 DEF CyclePoll, CyclePump, CycleGuest
<1>14. CASE Input
  BY <1>14, <1>10 DEF Input
<1>15. CASE ClockSteps \/ UNCHANGED vars
  BY <1>15, <1>0 DEF ClockSteps
<1> QED
  BY <1>1, <1>2, <1>3, <1>4, <1>5, <1>6, <1>7, <1>8, <1>9, <1>11, <1>12, <1>13,
     <1>14, <1>15 DEF Next

\* A poke is handed on until the pass it asked for reads; a collapsed one has the
\* pass of the one that is already under way, which has not read yet.
LEMMA StepPokes ==
  ASSUME TypeOK, Carried, PokesNeedEngine, PokeNeverLost, [Next]_vars
  PROVE  PokesNeedEngine' /\ PokeNeverLost'
<1> DEFINE Ahead == \/ netPumpScheduled \/ pageAt = "proxyNet" \/ Queued("net")
                    \/ engineAt \in {"net", "hostPump"}
<1> USE DEF TypeOK, PokesNeedEngine
<1>a. unread => Ahead
  BY DEF PokeNeverLost, Queued
<1>b. (unread' => Ahead') => PokeNeverLost'
  BY DEF PokeNeverLost, Queued
<1>0. proxyQueue' = proxyQueue => (Queued("net")' <=> Queued("net"))
  BY DEF Queued
<1>1. CASE Main
  BY <1>1, <1>0, <1>a, <1>b DEF Main
<1>2. CASE CallTick
  BY <1>2, <1>0, <1>a, <1>b DEF CallTick
<1>3. CASE BytesArrive
  BY <1>3, <1>b DEF BytesArrive
<1>4. CASE NetPumpMessage
  <2>1. UNCHANGED <<ready, proxyQueue, engineAt, unread>>
    BY <1>4 DEF NetPumpMessage
  <2>2. pageAt' = "proxyNet" \/ netPumpQueued
    BY <1>4 DEF NetPumpMessage, Collapses
  <2>3. netPumpQueued => Queued("net") \/ engineAt = "net"
    BY <1>4 DEF NetPumpMessage, Carried
  <2>4. ready /\ netPumpScheduled' = FALSE
    BY <1>4 DEF NetPumpMessage
  <2> QED
    BY <2>1, <2>2, <2>3, <2>4, <1>0, <1>b
<1>5. CASE ProxyTick
  <2>1. Queued("net") => Queued("net")'
    <3>1. CASE ready
      BY <1>5, <3>1, ProxyQueueGrows DEF ProxyTick
    <3>2. CASE ~ready
      BY <1>5, <3>2, <1>0 DEF ProxyTick, Proxy
    <3> QED
      BY <3>1, <3>2
  <2> QED
    BY <1>5, <2>1, <1>a, <1>b DEF ProxyTick, Proxy
<1>6. CASE ProxyNet
  <2>1. ready /\ Queued("net")'
    BY <1>6, ProxyQueueGrows DEF ProxyNet, Proxy
  <2> QED
    BY <1>6, <2>1, <1>b DEF ProxyNet, Proxy
<1>7. CASE TakeProxied
  <2>1. Queued("net") => Queued("net")' \/ engineAt' = "net"
    BY <1>7, ProxyQueueShrinks
  <2> QED
    BY <1>7, <2>1, <1>a, <1>b DEF TakeProxied
<1>8. CASE RunTick
  BY <1>8, <1>0, <1>a, <1>b DEF RunTick
<1>9. CASE RunNetPump
  BY <1>9, <1>b DEF RunNetPump
<1>10. CASE WakeUpMessage \/ PumpTimerFires
  BY <1>10, <1>0, <1>a, <1>b DEF WakeUpMessage, PumpTimerFires
<1>11. CASE HostPump
  BY <1>11, <1>b, PassTypes DEF HostPump
<1>12. CASE CycleStarts \/ CycleEnds
  BY <1>12, <1>0, <1>a, <1>b DEF CycleStarts, CycleEnds
<1>13. CASE CyclePoll
  BY <1>13, <1>b, PassTypes DEF CyclePoll, ArmedInCallback
<1>14. CASE CyclePump
  BY <1>14, <1>b, PassTypes DEF CyclePump
<1>15. CASE CycleGuest
  BY <1>15, <1>0, <1>a, <1>b DEF CycleGuest
<1>16. CASE Input
  BY <1>16, <1>0, <1>a, <1>b DEF Input
<1>17. CASE ClockSteps \/ UNCHANGED vars
  BY <1>17, <1>0, <1>a, <1>b DEF ClockSteps
<1> QED
  BY <1>1, <1>2, <1>3, <1>4, <1>5, <1>6, <1>7, <1>8, <1>9, <1>10, <1>11, <1>12,
     <1>13, <1>14, <1>15, <1>16, <1>17 DEF Next

\* Work that is dispatched has its wake-up or a cycle about to start, and the host
\* timeout the engine goes to sleep with is no later than its earliest timer.
LEMMA StepCalledBack ==
  ASSUME TypeOK, TasksCalled, RunLoopCalledBack, [Next]_vars
  PROVE  TasksCalled' /\ RunLoopCalledBack'
<1> USE DEF TypeOK, TasksCalled, RunLoopCalledBack
<1>1. ASSUME UNCHANGED <<engineAt, hostVars, loopVars>>
      PROVE  TasksCalled' /\ RunLoopCalledBack'
  BY <1>1
<1>2. CASE \/ Main \/ CallTick \/ BytesArrive \/ NetPumpMessage
           \/ ProxyTick \/ ProxyNet \/ UNCHANGED vars
  BY <1>1, <1>2 DEF Main, CallTick, BytesArrive, NetPumpMessage, ProxyTick, ProxyNet, Proxy
<1>3. CASE TakeProxied
  BY <1>3, ProxyQueueShrinks DEF TakeProxied
<1>4. CASE RunTick \/ RunNetPump
  BY <1>4 DEF RunTick, RunNetPump
<1>5. CASE WakeUpMessage \/ PumpTimerFires
  BY <1>5 DEF WakeUpMessage, PumpTimerFires
<1>6. CASE HostPump
  BY <1>6 DEF HostPump
<1>7. CASE CycleStarts
  BY <1>7 DEF CycleStarts
<1>8. ASSUME engineAt = "inCycle", engineAt' = "inCycle",
             tasks' \in [pumps : Nat, others : Nat],
             tasks' # tasks => wakeUp', wakeUp => wakeUp'
      PROVE  TasksCalled' /\ RunLoopCalledBack'
  BY <1>8
<1>9. ASSUME NEW armed \in BOOLEAN, PumpMainThread(armed),
             engineAt = "inCycle", engineAt' = "inCycle"
      PROVE  TasksCalled' /\ RunLoopCalledBack'
  <2>1. tasks'.pumps + tasks'.others > 0 => wakeUp'
    <3>1. CASE tasks.pumps + tasks.others > 0
      <4>1. wakeUp
        BY <3>1, <1>9
      <4> QED
        BY <4>1, <1>9, PassWakes
    <3>2. CASE ~(tasks.pumps + tasks.others > 0)
      <4>1. tasks.pumps \in Nat /\ tasks.others \in Nat
        OBVIOUS
      <4> QED
        BY <4>1, <3>2, <1>9, PassWakes
    <3> QED
      BY <3>1, <3>2
  <2> QED
    BY <2>1, <1>9
<1>10. CASE CyclePoll
  BY <1>10, <1>9 DEF CyclePoll, ArmedInCallback
<1>11. CASE CyclePump
  BY <1>11, <1>9 DEF CyclePump
<1>12. CASE CycleGuest
  BY <1>12, <1>8, GuestWorkFacts DEF CycleGuest
<1>13. CASE CycleEnds
  <2>1. engineAt' = "idle" /\ UNCHANGED <<wakeUp, loopVars>> /\ cycle = Nothing
    BY <1>13 DEF CycleEnds
  <2>2. tasks.pumps + tasks.others > 0 => wakeUp
    BY <1>13 DEF CycleEnds
  <2>3. ASSUME NEW t \in {guestTimer, pollTimer}, t # Never
        PROVE  pumpTimer' # Never /\ pumpTimer' <= t
    BY <1>13, <2>3, PumpAssumption DEF CycleEnds, ArmTimer, Timer
  <2> QED
    BY <2>1, <2>2, <2>3
<1>14. CASE Input
  <2>1. engineAt = "idle" /\ engineAt' = "idle" /\ GuestWork /\ cycle' = cycle
        /\ pollTimer' = pollTimer
    BY <1>14 DEF Input
  <2>2. /\ wakeUp' \in BOOLEAN /\ pumpTimer' = pumpTimer /\ (wakeUp => wakeUp')
        /\ (tasks' # tasks \/ guestTimer' # guestTimer => wakeUp')
    BY <2>1, GuestWorkFacts
  <2>3. tasks'.pumps + tasks'.others > 0 => wakeUp'
    BY <2>1, <2>2
  <2>4. ASSUME NEW t \in {guestTimer', pollTimer'}, t # Never
        PROVE  wakeUp' \/ (pumpTimer' # Never /\ pumpTimer' <= t)
    BY <2>1, <2>2, <2>4
  <2> QED
    BY <2>1, <2>3, <2>4
<1>15. CASE ClockSteps
  <2>1. UNCHANGED <<engineAt, wakeUp, tasks, cycle>>
    BY <1>15 DEF ClockSteps
  <2>2. ASSUME engineAt = "idle", NEW t \in {guestTimer', pollTimer'}, t # Never
        PROVE  wakeUp' \/ (pumpTimer' # Never /\ pumpTimer' <= t)
    <3>1. PICK u \in {guestTimer, pollTimer} : t = Less(u)
      BY <1>15, <2>2 DEF ClockSteps
    <3>2. u \in Nat /\ u # Never
      BY <3>1, <2>2 DEF Less, Timer
    <3>3. wakeUp \/ (pumpTimer \in Nat /\ pumpTimer # Never /\ pumpTimer <= u)
      BY <3>2, <2>2 DEF Timer
    <3>4. pumpTimer \in Nat /\ pumpTimer # Never /\ pumpTimer <= u
          => pumpTimer' \in Nat /\ pumpTimer' <= t
      BY <1>15, <3>1, <3>2 DEF ClockSteps, Less
    <3> QED
      BY <3>3, <3>4, <2>1, PumpAssumption
  <2> QED
    BY <2>1, <2>2
<1> QED
  BY <1>2, <1>3, <1>4, <1>5, <1>6, <1>7, <1>10, <1>11, <1>12, <1>13, <1>14, <1>15
  DEF Next

\* Whatever the pass found, curl's next pass is dispatched or in the timer, and the
\* scheduler's flags say so.
LEMMA StepDriven ==
  ASSUME TypeOK, TasksCalled, FlagsTrue, TransfersDriven, [Next]_vars
  PROVE  FlagsTrue' /\ TransfersDriven'
<1> USE DEF TypeOK, FlagsTrue, TransfersDriven
<1>0. /\ tasks.pumps \in Nat /\ cycle.pumps \in Nat /\ cycle.poll \in BOOLEAN
      /\ engineAt # "inCycle" => cycle.pumps = 0 /\ cycle.poll = FALSE
  BY DEF TasksCalled, Nothing, Batch
<1>1. ASSUME UNCHANGED <<tasks, cycle, pollTimer, curlVars>>
      PROVE  FlagsTrue' /\ TransfersDriven'
  BY <1>1
<1>2. CASE \/ Main \/ CallTick \/ BytesArrive \/ NetPumpMessage
           \/ ProxyTick \/ ProxyNet \/ UNCHANGED vars
  BY <1>1, <1>2 DEF Main, CallTick, BytesArrive, NetPumpMessage, ProxyTick, ProxyNet, Proxy
<1>3. CASE TakeProxied \/ RunTick \/ RunNetPump
  BY <1>1, <1>3 DEF TakeProxied, RunTick, RunNetPump
<1>4. CASE WakeUpMessage \/ PumpTimerFires \/ CycleEnds
  BY <1>1, <1>4 DEF WakeUpMessage, PumpTimerFires, CycleEnds
<1>5. ASSUME NEW armed \in BOOLEAN, PumpMainThread(armed), armed => pollTimer # Never,
             cycle' \in Batch
      PROVE  FlagsTrue' /\ TransfersDriven'
  <2>1. tasks'.pumps \in Nat /\ cycle'.pumps \in Nat /\ taskQueue' = FALSE
    BY <1>5, PassTypes DEF Batch
  <2> QED
    BY <1>5, <2>1, PassLeavesWork
<1>6. CASE HostPump
  BY <1>0, <1>5, <1>6 DEF HostPump
<1>7. CASE CycleStarts
  <2>1. cycle'.pumps = tasks.pumps /\ tasks'.pumps = 0 /\ cycle.pumps = 0
    BY <1>0, <1>7 DEF CycleStarts
  <2>2. pollTimer # Never => pollTimer' # Never \/ cycle'.poll
    BY <1>7 DEF CycleStarts
  <2>3. UNCHANGED curlVars /\ cycle.poll = FALSE
    BY <1>0, <1>7 DEF CycleStarts
  <2> QED
    BY <1>0, <2>1, <2>2, <2>3
<1>8. CASE CyclePoll
  <2>1. cycle' \in Batch
    BY <1>8 DEF CyclePoll, Batch
  <2> QED
    BY <2>1, <1>5, <1>8 DEF CyclePoll, ArmedInCallback
<1>9. CASE CyclePump
  <2>1. cycle' \in Batch
    BY <1>9, CyclePumpTakes
  <2>2. PumpMainThread(pumpTimerArmed) /\ ~cycle.poll
    BY <1>9 DEF CyclePump, TimersLeft
  <2> QED
    BY <2>1, <2>2, <1>5
<1>10. CASE CycleGuest
  <2>1. GuestWork /\ UNCHANGED <<pollTimer, pumpTimerArmed, activeJobs>>
    BY <1>10 DEF CycleGuest
  <2>2. cycle'.pumps = cycle.pumps /\ cycle'.poll = cycle.poll
    BY <1>10 DEF CycleGuest, Batch
  <2>3. /\ tasks'.pumps \in Nat /\ tasks'.pumps >= tasks.pumps
        /\ taskQueue' => taskQueue \/ pumpScheduled'
        /\ pumpScheduled' => pumpScheduled \/ tasks'.pumps > 0
    BY <2>1, GuestWorkFacts
  <2> QED
    BY <1>0, <2>1, <2>2, <2>3
<1>11. CASE Input
  <2>1. GuestWork /\ UNCHANGED <<cycle, pollTimer, pumpTimerArmed, activeJobs>>
    BY <1>11 DEF Input
  <2>2. /\ tasks'.pumps \in Nat /\ tasks'.pumps >= tasks.pumps
        /\ taskQueue' => taskQueue \/ pumpScheduled'
        /\ pumpScheduled' => pumpScheduled \/ tasks'.pumps > 0
    BY <2>1, GuestWorkFacts
  <2> QED
    BY <1>0, <2>1, <2>2
<1>12. CASE ClockSteps
  <2>1. UNCHANGED <<tasks, cycle, curlVars>>
    BY <1>12 DEF ClockSteps
  <2>2. pollTimer # Never => pollTimer' # Never
    BY <1>12, PumpAssumption DEF ClockSteps, Less, Timer
  <2> QED
    BY <2>1, <2>2
<1> QED
  BY <1>2, <1>3, <1>4, <1>6, <1>7, <1>8, <1>9, <1>10, <1>11, <1>12 DEF Next

LEMMA Invariance == Spec => []IInv
<1>1. Init => IInv
  BY InitIInv
<1>2. IInv /\ [Next]_vars => IInv'
  <2> SUFFICES ASSUME IInv, [Next]_vars PROVE IInv'
    OBVIOUS
  <2>1. /\ TypeOK /\ Carried /\ PokesNeedEngine /\ TasksCalled /\ FlagsTrue
        /\ PokeNeverLost /\ RunLoopCalledBack /\ TransfersDriven
    BY DEF IInv, NothingStranded
  <2>2. TypeOK'
    BY <2>1, StepTypeOK
  <2>3. Carried'
    BY <2>1, StepCarried
  <2>4. PokesNeedEngine' /\ PokeNeverLost'
    BY <2>1, StepPokes
  <2>5. TasksCalled' /\ RunLoopCalledBack'
    BY <2>1, StepCalledBack
  <2>6. FlagsTrue' /\ TransfersDriven'
    BY <2>1, StepDriven
  <2>7. CollapseFlagsBacked'
    BY <2>3 DEF Carried, Queued, CollapseFlagsBacked
  <2> QED
    BY <2>2, <2>3, <2>4, <2>5, <2>6, <2>7 DEF IInv, NothingStranded
<1> QED
  BY <1>1, <1>2, PTL DEF Spec

\* Types, and no backlog: however often the page ticks or bytes arrive, at most one
\* entry of each kind waits in the proxying queue.
THEOREM TypeCorrect == Spec => []TypeOK
<1>1. IInv => TypeOK
  BY DEF IInv
<1> QED
  BY <1>1, Invariance, PTL

\* No collapse flag stays up with nothing behind it, no poke is lost, no dispatched
\* task, timer or transfer is left without a way to be called back.
THEOREM NeverStranded == Spec => []NothingStranded
<1>1. IInv => NothingStranded
  BY DEF IInv
<1> QED
  BY <1>1, Invariance, PTL

-----------------------------------------------------------------------------
(* What the patch runs as tasks of the run loop: a worker's messages.      *)
(*                                                                         *)
(* Messages are handled out of their order for one reason, the requeueing  *)
(* of what is in front of the bootstrap.  Lined says of a queue in which   *)
(* order its messages will be handled once that has happened.              *)

Workers == {"loading", "started", "scope"}

RunLoopTyped ==
  /\ queue \in Seq(Task) /\ earlyTasks \in Seq(Task)
  /\ worker \in Workers /\ m_terminated \in BOOLEAN
  /\ decodeQueue \in Seq(Requests)
  /\ posted \in Seq(Workers) /\ Len(posted) <= MaxMessages
  /\ performed \in Seq(1..MaxMessages)
  /\ decodes \in 0..MaxDecodes /\ stops \in 0..MaxStops

\* Message m may be handled before n, when p tells what the worker was as each was posted.
MayPrecede(p, m, n) == m < n \/ (m > n /\ p[m] = "started" /\ p[n] = "loading")

\* The task at i will be handled before the one at j, when the bootstrap is at b: what is
\* in front of it will be requeued.
Sooner(b, i, j) == (i < j /\ ~(i < b /\ b < j)) \/ (j < b /\ b < i)

\* The messages of a queue whose only bootstrap is at b (0: it has none) will be handled in
\* order; those in front of the bootstrap are early ones.
Lined(q, b, p) ==
  /\ \A i \in 1..Len(q) : q[i].type = "bootstrap" <=> i = b
  /\ \A i \in 1..Len(q) : q[i].type = "message" =>
       q[i].message \in 1..Len(p) /\ (i < b => p[q[i].message] = "loading")
  /\ \A i, j \in 1..Len(q) :
       q[i].type = "message" /\ q[j].type = "message" /\ Sooner(b, i, j) =>
         MayPrecede(p, q[i].message, q[j].message)

\* What is handled already may precede what is queued.
Follows(done, q, p) ==
  \A i \in 1..Len(done), j \in 1..Len(q) :
    q[j].type = "message" => MayPrecede(p, done[i], q[j].message)

\* The script is loading: the messages are with the proxy.
EarlyKept ==
  /\ \A i \in DOMAIN queue : queue[i].type = "decode"
  /\ Len(earlyTasks) = Len(posted)
  /\ \A k \in 1..Len(posted) : earlyTasks[k] = Message(k) /\ posted[k] = "loading"

WorkerLined ==
  /\ \A i \in DOMAIN performed : performed[i] \in 1..Len(posted)
  /\ ~m_terminated =>
       /\ worker = "loading" => EarlyKept /\ performed = <<>>
       /\ worker = "started" =>
            performed = <<>> /\ \E b \in 1..Len(queue) : Lined(queue, b, posted)
       /\ worker = "scope" => Lined(queue, 0, posted) /\ Follows(performed, queue, posted)

RunLoopInv == RunLoopTyped /\ WorkerLined /\ WorkerMessageOrder

LEMMA Tasks ==
  /\ \A t \in Task : t.type \in {"message", "bootstrap", "decode"}
  /\ \A t \in Task : t.type = "message" => t.message \in 1..MaxMessages
  /\ \A t \in Task : t.type = "bootstrap" => t = Bootstrap
  /\ Bootstrap \in Task /\ Bootstrap.type = "bootstrap"
  /\ \A n \in 1..MaxMessages : /\ Message(n) \in Task /\ Message(n).type = "message"
                               /\ Message(n).message = n
  /\ \A r \in Requests : Decode(r) \in Task /\ Decode(r).type = "decode"
  /\ \A t \in Task : t.type = "decode" => t.request \in Requests
BY DEF Task, Bootstrap, Message, Decode

\* A decode is queued.
LEMMA DecodeLined ==
  ASSUME NEW q \in Seq(Task), NEW b \in Nat, b <= Len(q), NEW p, Lined(q, b, p),
         NEW t \in Task, t.type = "decode"
  PROVE  Lined(Append(q, t), b, p)
<1> DEFINE r == Append(q, t)
<1>1. /\ Len(q) \in Nat /\ Len(r) = Len(q) + 1 /\ r[Len(q) + 1] = t
      /\ \A i \in 1..Len(q) : r[i] = q[i]
  BY OneMore
<1> HIDE DEF r
<1>2. \A i \in 1..Len(r) : i \in 1..Len(q) \/ (i = Len(q) + 1 /\ r[i].type = "decode" /\ i # b)
  BY <1>1
<1>3. \A i \in 1..Len(r) : r[i].type = "bootstrap" <=> i = b
  BY <1>1, <1>2 DEF Lined
<1>4. \A i \in 1..Len(r) : r[i].type = "message" => i \in 1..Len(q)
  BY <1>2
<1> QED
  BY <1>1, <1>3, <1>4 DEF Lined, r

\* A message is posted, behind the bootstrap if it is still queued.
LEMMA MessageLined ==
  ASSUME NEW q \in Seq(Task), NEW b \in Nat, b <= Len(q), NEW p \in Seq(Workers),
         Lined(q, b, p), NEW w \in Workers, b # 0 => w = "started",
         Len(p) + 1 <= MaxMessages
  PROVE  Lined(Append(q, Message(Len(p) + 1)), b, Append(p, w))
<1> DEFINE n == Len(p) + 1
           t == Message(n)
           r == Append(q, t)
           v == Append(p, w)
<1>1. Len(p) \in Nat /\ n \in 1..MaxMessages
  BY LenProperties, BoundAssumption
<1>2. t \in Task /\ t.type = "message" /\ t.message = n
  BY <1>1, Tasks
<1> HIDE DEF t
<1>3. /\ Len(q) \in Nat /\ Len(r) = Len(q) + 1 /\ r[Len(q) + 1] = t
      /\ \A i \in 1..Len(q) : r[i] = q[i]
  BY <1>2, OneMore
<1>4. /\ Len(v) = n /\ v[n] = w /\ \A i \in 1..Len(p) : v[i] = p[i]
  BY OneMore
<1> HIDE DEF r, v, n
<1>5. \A i \in 1..Len(r) : i \in 1..Len(q) \/ (i = Len(q) + 1 /\ r[i] = t)
  BY <1>3
<1>6. \A i \in 1..Len(q) : q[i].type = "message" => q[i].message \in 1..Len(p)
  BY DEF Lined
<1>7. n = Len(p) + 1
  BY DEF n
<1>8. ASSUME NEW i \in 1..Len(r) PROVE r[i].type = "bootstrap" <=> i = b
  BY <1>2, <1>3, <1>5 DEF Lined
<1>9. ASSUME NEW i \in 1..Len(r), r[i].type = "message"
      PROVE  r[i].message \in 1..Len(v) /\ (i < b => v[r[i].message] = "loading")
  <2>1. CASE i \in 1..Len(q)
    <3>1. r[i] = q[i] /\ q[i].message \in 1..Len(p) /\ (i < b => p[q[i].message] = "loading")
      BY <1>3, <1>9, <2>1 DEF Lined
    <3>2. v[q[i].message] = p[q[i].message] /\ q[i].message \in 1..Len(v)
      BY <1>1, <1>4, <1>7, <3>1
    <3> QED
      BY <3>1, <3>2
  <2>2. CASE i = Len(q) + 1 /\ r[i] = t
    BY <1>1, <1>2, <1>3, <1>4, <1>7, <2>2
  <2> QED
    BY <1>5, <2>1, <2>2
<1>10. ASSUME NEW i \in 1..Len(r), NEW j \in 1..Len(r),
              r[i].type = "message", r[j].type = "message", Sooner(b, i, j)
       PROVE  MayPrecede(v, r[i].message, r[j].message)
  <2>1. CASE i \in 1..Len(q) /\ j \in 1..Len(q)
    <3>1. r[i] = q[i] /\ r[j] = q[j] /\ MayPrecede(p, q[i].message, q[j].message)
      BY <1>3, <1>10, <2>1 DEF Lined
    <3>2. v[q[i].message] = p[q[i].message] /\ v[q[j].message] = p[q[j].message]
      BY <1>4, <1>6, <1>10, <2>1, <3>1
    <3> QED
      BY <3>1, <3>2 DEF MayPrecede
  <2>2. CASE i \in 1..Len(q) /\ j = Len(q) + 1 /\ r[j] = t
    <3>1. r[i] = q[i] /\ q[i].message \in 1..Len(p)
      BY <1>3, <1>6, <1>10, <2>2
    <3> QED
      BY <1>1, <1>2, <1>7, <2>2, <3>1 DEF MayPrecede
  <2>3. CASE i = Len(q) + 1 /\ r[i] = t /\ j \in 1..Len(q)
    <3>1. j < b /\ b # 0 /\ w = "started"
      BY <1>3, <1>10, <2>3 DEF Sooner
    <3>2. r[j] = q[j] /\ q[j].message \in 1..Len(p) /\ p[q[j].message] = "loading"
      BY <1>3, <1>10, <2>3, <3>1 DEF Lined
    <3>3. v[q[j].message] = "loading" /\ v[n] = "started" /\ n > q[j].message
      BY <1>1, <1>4, <1>7, <3>1, <3>2
    <3> QED
      BY <1>2, <2>3, <3>2, <3>3 DEF MayPrecede
  <2>4. CASE i = Len(q) + 1 /\ j = Len(q) + 1
    BY <1>3, <1>10, <2>4 DEF Sooner
  <2> QED
    BY <1>5, <2>1, <2>2, <2>3, <2>4
<1>11. Lined(r, b, v)
  BY <1>8, <1>9, <1>10 DEF Lined
<1> QED
  BY <1>11 DEF r, t, v, n

\* The first task leaves the queue, or is the bootstrap and done.
LEMMA TailLined ==
  ASSUME NEW q \in Seq(Task), q # <<>>, NEW b \in Nat, b <= Len(q), NEW p, Lined(q, b, p),
         NEW c \in Nat, c = IF b = 0 THEN 0 ELSE b - 1
  PROVE  c <= Len(Tail(q)) /\ Lined(Tail(q), c, p)
<1> DEFINE r == Tail(q)
<1>1. /\ Len(q) \in Nat \ {0} /\ Len(r) = Len(q) - 1
      /\ \A i \in 1..(Len(q) - 1) : r[i] = q[i + 1]
  BY OneLess
<1> HIDE DEF r
<1>2. ASSUME NEW i \in 1..Len(r)
      PROVE  /\ i + 1 \in 1..Len(q) /\ r[i] = q[i + 1] /\ (i = c <=> i + 1 = b)
             /\ (i < c => i + 1 < b)
  BY <1>1
<1>3. ASSUME NEW i \in 1..Len(r), NEW j \in 1..Len(r), Sooner(c, i, j), i # c, j # c
      PROVE  Sooner(b, i + 1, j + 1)
  BY <1>1, <1>3 DEF Sooner
<1>4. ASSUME NEW i \in 1..Len(r) PROVE r[i].type = "bootstrap" <=> i = c
  BY <1>2 DEF Lined
<1>5. ASSUME NEW i \in 1..Len(r), r[i].type = "message"
      PROVE  r[i].message \in 1..Len(p) /\ (i < c => p[r[i].message] = "loading")
  BY <1>2, <1>5 DEF Lined
<1>6. ASSUME NEW i \in 1..Len(r), NEW j \in 1..Len(r),
             r[i].type = "message", r[j].type = "message", Sooner(c, i, j)
      PROVE  MayPrecede(p, r[i].message, r[j].message)
  <2>1. i # c /\ j # c
    BY <1>4, <1>6
  <2>2. Sooner(b, i + 1, j + 1)
    BY <1>3, <1>6, <2>1
  <2> QED
    BY <1>2, <1>6, <2>2 DEF Lined
<1>7. c <= Len(r)
  BY <1>1
<1> QED
  BY <1>4, <1>5, <1>6, <1>7 DEF Lined, r

\* An early message in front of the bootstrap goes to the end.
LEMMA RequeueLined ==
  ASSUME NEW q \in Seq(Task), q # <<>>, NEW b \in Nat, 1 < b, b <= Len(q), NEW p,
         Lined(q, b, p), Head(q).type = "message"
  PROVE  Lined(Append(Tail(q), Head(q)), b - 1, p)
<1> DEFINE n == Len(q)
           r == Append(Tail(q), Head(q))
<1>1. /\ n \in Nat \ {0} /\ Len(r) = n /\ r[n] = q[1]
      /\ \A i \in 1..(n - 1) : r[i] = q[i + 1]
  <2>1. /\ n \in Nat \ {0} /\ Tail(q) \in Seq(Task) /\ Len(Tail(q)) = n - 1
        /\ \A i \in 1..(n - 1) : Tail(q)[i] = q[i + 1]
        /\ Head(q) = q[1] /\ Head(q) \in Task
    BY OneLess
  <2>2. /\ Len(r) = (n - 1) + 1 /\ r[(n - 1) + 1] = Head(q)
        /\ \A i \in 1..(n - 1) : r[i] = Tail(q)[i]
    BY <2>1, OneMore
  <2>3. (n - 1) + 1 = n
    BY <2>1
  <2> HIDE DEF r, n
  <2> QED
    BY <2>1, <2>2, <2>3
<1>2. q[1].type = "message" /\ b <= n
  BY OneLess
<1> HIDE DEF n, r
<1>3. \A i \in 1..n : (i \in 1..(n - 1) /\ i + 1 \in 1..n /\ r[i] = q[i + 1]) \/ (i = n /\ r[i] = q[1])
  BY <1>1
<1>a. \A i \in 1..n : q[i].type = "bootstrap" <=> i = b
  BY DEF Lined, n
<1>b. \A i \in 1..n : q[i].type = "message" =>
        q[i].message \in 1..Len(p) /\ (i < b => p[q[i].message] = "loading")
  BY DEF Lined, n
<1>c. \A i, j \in 1..n : q[i].type = "message" /\ q[j].type = "message" /\ Sooner(b, i, j) =>
        MayPrecede(p, q[i].message, q[j].message)
  BY DEF Lined, n
<1>4. ASSUME NEW i \in 1..n PROVE r[i].type = "bootstrap" <=> i = b - 1
  <2>1. CASE i \in 1..(n - 1) /\ i + 1 \in 1..n /\ r[i] = q[i + 1]
    BY <1>a, <2>1
  <2>2. CASE i = n /\ r[i] = q[1]
    BY <1>1, <1>2, <2>2
  <2> QED
    BY <1>3, <2>1, <2>2
<1>5. ASSUME NEW i \in 1..n, r[i].type = "message"
      PROVE  r[i].message \in 1..Len(p) /\ (i < b - 1 => p[r[i].message] = "loading")
  <2>1. CASE i \in 1..(n - 1) /\ i + 1 \in 1..n /\ r[i] = q[i + 1]
    <3>1. i < b - 1 => i + 1 < b
      BY <2>1
    <3> QED
      BY <1>b, <1>5, <2>1, <3>1
  <2>2. CASE i = n /\ r[i] = q[1]
    <3>1. 1 \in 1..n /\ ~(i < b - 1)
      BY <1>1, <1>2, <2>2
    <3> QED
      BY <1>b, <1>5, <2>2, <3>1
  <2> QED
    BY <1>3, <2>1, <2>2
<1>6. ASSUME NEW i \in 1..n, NEW j \in 1..n,
             r[i].type = "message", r[j].type = "message", Sooner(b - 1, i, j)
      PROVE  MayPrecede(p, r[i].message, r[j].message)
  <2>1. i # b - 1 /\ j # b - 1
    BY <1>4, <1>6
  <2>2. CASE i \in 1..(n - 1) /\ j \in 1..(n - 1)
    <3>1. Sooner(b, i + 1, j + 1) /\ i + 1 \in 1..n /\ j + 1 \in 1..n
      BY <1>1, <1>6, <2>1, <2>2 DEF Sooner
    <3>2. r[i] = q[i + 1] /\ r[j] = q[j + 1]
      BY <1>1, <2>2
    <3> QED
      BY <1>c, <1>6, <3>1, <3>2
  <2>3. CASE i \in 1..(n - 1) /\ j = n
    <3>1. Sooner(b, i + 1, 1) /\ i + 1 \in 1..n /\ 1 \in 1..n
      BY <1>1, <1>2, <1>6, <2>1, <2>3 DEF Sooner
    <3>2. r[i] = q[i + 1] /\ r[j] = q[1]
      BY <1>1, <2>3
    <3> QED
      BY <1>c, <1>6, <3>1, <3>2
  <2>4. CASE i = n /\ j \in 1..(n - 1)
    <3>1. Sooner(b, 1, j + 1) /\ j + 1 \in 1..n /\ 1 \in 1..n
      BY <1>1, <1>2, <1>6, <2>1, <2>4 DEF Sooner
    <3>2. r[i] = q[1] /\ r[j] = q[j + 1]
      BY <1>1, <2>4
    <3> QED
      BY <1>c, <1>6, <3>1, <3>2
  <2>5. CASE i = n /\ j = n
    BY <1>1, <1>6, <2>5 DEF Sooner
  <2> QED
    BY <1>3, <2>2, <2>3, <2>4, <2>5
<1> QED
  BY <1>1, <1>4, <1>5, <1>6 DEF Lined, r

\* The script has loaded: the early messages, then the bootstrap.
LEMMA StartLined ==
  ASSUME RunLoopTyped, EarlyKept
  PROVE  /\ queue \o Startup \in Seq(Task)
         /\ \E b \in 1..Len(queue \o Startup) : Lined(queue \o Startup, b, posted)
<1> DEFINE s == earlyTasks \o <<Bootstrap>>
           r == queue \o s
           n == Len(queue)
           m == Len(earlyTasks)
<1>1. /\ m \in Nat /\ s \in Seq(Task) /\ Len(s) = m + 1 /\ s[m + 1] = Bootstrap
      /\ \A i \in 1..m : s[i] = earlyTasks[i]
  <2>1. Bootstrap \in Task
    BY Tasks
  <2>2. s = Append(earlyTasks, Bootstrap)
    BY <2>1, AppendIsConcat DEF RunLoopTyped
  <2> QED
    BY <2>1, <2>2, OneMore DEF RunLoopTyped
<1> HIDE DEF s
<1>2. /\ n \in Nat /\ r \in Seq(Task) /\ Len(r) = n + Len(s)
      /\ \A i \in 1..n : r[i] = queue[i]
      /\ \A i \in 1..Len(s) : r[n + i] = s[i]
  BY <1>1, ConcatElements DEF RunLoopTyped
<1>3. /\ \A i \in 1..n : queue[i].type = "decode"
      /\ m = Len(posted)
      /\ \A k \in 1..m : earlyTasks[k] = Message(k) /\ posted[k] = "loading" /\ k \in 1..MaxMessages
  <2>1. DOMAIN queue = 1..n
    BY LenProperties DEF RunLoopTyped
  <2>2. m <= MaxMessages /\ MaxMessages \in Nat
    BY BoundAssumption DEF EarlyKept, RunLoopTyped
  <2>3. \A k \in 1..m : k \in 1..MaxMessages
    BY <1>1, <2>2
  <2> QED
    BY <2>1, <2>3 DEF EarlyKept
<1> HIDE DEF r, n, m
<1>4. ASSUME NEW i \in 1..Len(r)
      PROVE  \/ i \in 1..n /\ r[i].type = "decode"
             \/ \E k \in 1..m : i = n + k /\ r[i].type = "message" /\ r[i].message = k
             \/ i = n + m + 1 /\ r[i].type = "bootstrap"
  <2>1. CASE i \in 1..n
    BY <1>2, <1>3, <2>1
  <2>2. CASE i \notin 1..n
    <3>1. PICK k \in 1..(m + 1) : i = n + k
      <4>1. i - n \in 1..(m + 1) /\ i = n + (i - n)
        BY <1>1, <1>2, <2>2
      <4> QED
        BY <4>1
    <3>2. r[i] = s[k]
      BY <1>1, <1>2, <3>1
    <3>3. CASE k \in 1..m
      BY <1>1, <1>3, <3>1, <3>2, <3>3, Tasks
    <3>4. CASE k = m + 1
      BY <1>1, <1>2, <3>1, <3>2, <3>4, Tasks
    <3> QED
      BY <1>1, <3>1, <3>3, <3>4
  <2> QED
    BY <2>1, <2>2
<1> DEFINE b == n + m + 1
<1>5. b \in 1..Len(r)
  BY <1>1, <1>2
<1>6. ASSUME NEW i \in 1..Len(r) PROVE r[i].type = "bootstrap" <=> i = b
  BY <1>1, <1>2, <1>4, SMTT(30)
<1>7. ASSUME NEW i \in 1..Len(r), r[i].type = "message"
      PROVE  r[i].message \in 1..Len(posted) /\ (i < b => posted[r[i].message] = "loading")
  BY <1>3, <1>4, <1>7
<1>8. ASSUME NEW i \in 1..Len(r), NEW j \in 1..Len(r),
             r[i].type = "message", r[j].type = "message", Sooner(b, i, j)
      PROVE  MayPrecede(posted, r[i].message, r[j].message)
  <2>1. PICK k \in 1..m : i = n + k /\ r[i].message = k
    BY <1>4, <1>8
  <2>2. PICK l \in 1..m : j = n + l /\ r[j].message = l
    BY <1>4, <1>8
  <2>3. k < l
    BY <1>1, <1>2, <1>8, <2>1, <2>2 DEF Sooner
  <2> QED
    BY <2>1, <2>2, <2>3 DEF MayPrecede
<1> HIDE DEF b
<1>9. Lined(r, b, posted)
  BY <1>6, <1>7, <1>8 DEF Lined
<1> QED
  BY <1>2, <1>5, <1>9 DEF Startup, r, s

LEMMA RunLoopStepTyped ==
  ASSUME RunLoopInv
  PROVE  [RunLoopNext]_runLoopVars => RunLoopTyped'
<1> USE DEF workerVars, decodeVars, runLoopVars
<1>a. /\ queue \in Seq(Task) /\ earlyTasks \in Seq(Task)
      /\ worker \in Workers /\ m_terminated \in BOOLEAN
      /\ decodeQueue \in Seq(Requests)
      /\ posted \in Seq(Workers) /\ Len(posted) <= MaxMessages
      /\ performed \in Seq(1..MaxMessages)
      /\ decodes \in 0..MaxDecodes /\ stops \in 0..MaxStops
      /\ RunLoopTyped
  BY DEF RunLoopInv, RunLoopTyped
<1>b. <<>> \in Seq(Task) /\ <<>> \in Seq(Requests)
  BY EmptySeq
<1>1. ASSUME PostMessage PROVE RunLoopTyped'
  <2>1. /\ posted' \in Seq(Workers) /\ Len(posted') = Len(posted) + 1 /\ Len(posted) \in Nat
    BY <1>1, <1>a, OneMore DEF PostMessage
  <2>2. Len(posted') <= MaxMessages /\ Message(Len(posted')) \in Task
    BY <1>1, <2>1, BoundAssumption, Tasks DEF PostMessage
  <2>3. queue' \in Seq(Task) /\ earlyTasks' \in Seq(Task)
    <3> DEFINE t == Message(Len(posted'))
    <3>1. \/ earlyTasks' = Append(earlyTasks, t) /\ queue' = queue
          \/ earlyTasks' = earlyTasks /\ queue' = Append(queue, t)
      BY <1>1 DEF PostMessage
    <3>2. t \in Task
      BY <2>2
    <3> HIDE DEF t
    <3>3. Append(earlyTasks, t) \in Seq(Task) /\ Append(queue, t) \in Seq(Task)
      BY <1>a, <3>2, AppendFacts
    <3> QED
      BY <1>a, <3>1, <3>3
  <2> QED
    BY <1>1, <1>a, <2>1, <2>2, <2>3 DEF PostMessage, RunLoopTyped
<1>2. ASSUME StartWorkerGlobalScope PROVE RunLoopTyped'
  <2>1. EarlyKept
    BY <1>2 DEF StartWorkerGlobalScope, RunLoopInv, WorkerLined
  <2>2. queue' \in Seq(Task) /\ worker' \in Workers
    BY <1>2, <1>a, <2>1, StartLined DEF StartWorkerGlobalScope, Workers
  <2> QED
    BY <1>2, <1>a, <1>b, <2>2 DEF StartWorkerGlobalScope, RunLoopTyped
<1>3. ASSUME Terminate PROVE RunLoopTyped'
  BY <1>3, <1>a, <1>b DEF Terminate, RunLoopTyped
<1>4. ASSUME NEW r \in Requests, DispatchDecode(r) PROVE RunLoopTyped'
  <2>1. PICK decoder \in BOOLEAN :
          /\ AppendsRequest(r, decoder)
          /\ queue' = IF decoder THEN Append(queue, Decode(r)) ELSE queue
    BY <1>4 DEF DispatchDecode
  <2>2. decodeQueue' \in Seq(Requests)
    BY <1>a, <2>1, AppendFacts DEF AppendsRequest
  <2>3. queue' \in Seq(Task)
    BY <1>a, <2>1, AppendFacts, Tasks
  <2>4. decodes' \in 0..MaxDecodes
    BY <1>4, <1>a, BoundAssumption DEF DispatchDecode
  <2> QED
    BY <1>4, <1>a, <2>2, <2>3, <2>4 DEF DispatchDecode, RunLoopTyped
<1>5. ASSUME Stop PROVE RunLoopTyped'
  <2>1. stops' \in 0..MaxStops
    BY <1>5, <1>a, BoundAssumption DEF Stop
  <2> QED
    BY <1>5, <1>a, <1>b, <2>1 DEF Stop, RunLoopTyped
<1>c. ASSUME queue # <<>> PROVE Tail(queue) \in Seq(Task) /\ Head(queue) \in Task
  BY <1>a, <1>c, OneLess
<1>6. ASSUME RunBootstrap PROVE RunLoopTyped'
  BY <1>6, <1>a, <1>c DEF RunBootstrap, IsNext, RunLoopTyped, Workers
<1>7. ASSUME RunMessage PROVE RunLoopTyped'
  <2>1. queue # <<>> /\ Head(queue).type = "message"
    BY <1>7 DEF RunMessage, IsNext
  <2>2. queue' \in Seq(Task)
    BY <1>7, <1>c, <2>1, AppendFacts DEF RunMessage, Requeued
  <2>3. Head(queue).message \in 1..MaxMessages
    BY <1>c, <2>1, Tasks
  <2>4. performed' \in Seq(1..MaxMessages)
    BY <1>7, <1>a, <2>3, AppendFacts DEF RunMessage
  <2> QED
    BY <1>7, <1>a, <2>2, <2>4 DEF RunMessage, RunLoopTyped
<1>8. ASSUME RunDecode PROVE RunLoopTyped'
  <2>1. decodeQueue' \in Seq(Requests)
    BY <1>8, <1>a, OneLess DEF RunDecode, Deliver
  <2> QED
    BY <1>8, <1>a, <1>c, <2>1 DEF RunDecode, IsNext, RunLoopTyped
<1>9. ASSUME UNCHANGED runLoopVars PROVE RunLoopTyped'
  BY <1>9, <1>a DEF RunLoopTyped
<1> QED
  BY <1>1, <1>2, <1>3, <1>4, <1>5, <1>6, <1>7, <1>8, <1>9 DEF RunLoopNext, RunTask

\* Handled messages may precede what they did, whatever is posted later.
LEMMA OrderKept ==
  ASSUME NEW p \in Seq(Workers), NEW w \in Workers,
         NEW m \in 1..Len(p), NEW n \in 1..Len(p), MayPrecede(p, m, n)
  PROVE  MayPrecede(Append(p, w), m, n)
<1>1. \A i \in 1..Len(p) : Append(p, w)[i] = p[i]
  BY OneMore
<1> QED
  BY <1>1 DEF MayPrecede

LEMMA Performing ==
  ASSUME RunLoopTyped
  PROVE  /\ WorkerMessageOrder <=>
              \A i, j \in DOMAIN performed : i < j => MayPrecede(posted, performed[i], performed[j])
         /\ DOMAIN performed = 1..Len(performed) /\ Len(performed) \in Nat
         /\ Len(posted) \in Nat
BY LenProperties DEF RunLoopTyped, WorkerMessageOrder, MayPrecede

LEMMA PerformingNext ==
  (RunLoopTyped =>
     /\ WorkerMessageOrder <=>
          \A i, j \in DOMAIN performed : i < j => MayPrecede(posted, performed[i], performed[j])
     /\ DOMAIN performed = 1..Len(performed) /\ Len(performed) \in Nat)'
<1>1. RunLoopTyped =>
        /\ WorkerMessageOrder <=>
             \A i, j \in DOMAIN performed : i < j => MayPrecede(posted, performed[i], performed[j])
        /\ DOMAIN performed = 1..Len(performed) /\ Len(performed) \in Nat
  BY Performing
<1> QED
  BY <1>1, PTL

\* The step handles no message and posts none.
LEMMA SameOrder ==
  ASSUME RunLoopInv, RunLoopTyped', UNCHANGED <<posted, performed>>,
         ~m_terminated' =>
           /\ worker' = "loading" => EarlyKept'
           /\ worker' = "started" => worker # "scope"
                /\ \E b \in 1..Len(queue') : Lined(queue', b, posted)
           /\ worker' = "scope" =>
                Lined(queue', 0, posted) /\ Follows(performed, queue', posted),
         ~m_terminated' => ~m_terminated,
         worker' = "loading" => worker = "loading"
  PROVE  RunLoopInv'
<1>1. WorkerMessageOrder'
  BY DEF RunLoopInv, WorkerMessageOrder
<1>2. WorkerLined'
  <2>1. \A i \in DOMAIN performed' : performed'[i] \in 1..Len(posted')
    BY DEF RunLoopInv, WorkerLined
  <2>2. ASSUME ~m_terminated', worker' # "scope" PROVE performed' = <<>>
    <3>1. worker \in {"loading", "started"}
      BY <2>2 DEF RunLoopInv, RunLoopTyped, Workers
    <3> QED
      BY <2>2, <3>1 DEF RunLoopInv, WorkerLined
  <2> QED
    BY <2>1, <2>2 DEF WorkerLined
<1> QED
  BY <1>1, <1>2 DEF RunLoopInv

LEMMA PostKeeps ==
  ASSUME RunLoopInv, RunLoopTyped', PostMessage
  PROVE  RunLoopInv'
<1> USE DEF workerVars, decodeVars
<1> DEFINE n == Len(posted) + 1
           t == Message(n)
<1>1. /\ RunLoopTyped /\ posted \in Seq(Workers) /\ worker \in Workers /\ queue \in Seq(Task)
      /\ earlyTasks \in Seq(Task) /\ performed \in Seq(1..MaxMessages) /\ ~m_terminated
      /\ posted' = Append(posted, worker) /\ UNCHANGED <<worker, m_terminated, performed>>
  BY DEF RunLoopInv, RunLoopTyped, PostMessage
<1>2. /\ Len(posted) \in Nat /\ Len(posted') = n /\ posted'[n] = worker
      /\ \A i \in 1..Len(posted) : posted'[i] = posted[i]
  BY <1>1, OneMore
<1>3. /\ n \in 1..MaxMessages /\ n <= MaxMessages /\ t \in Task /\ t.type = "message"
      /\ t.message = n
  <2>1. n \in 1..MaxMessages
    BY <1>2, BoundAssumption DEF PostMessage
  <2> QED
    BY <2>1, Tasks
<1>4. IF worker = "loading" THEN earlyTasks' = Append(earlyTasks, t) /\ queue' = queue
                            ELSE queue' = Append(queue, t) /\ earlyTasks' = earlyTasks
  BY <1>2 DEF PostMessage
<1> HIDE DEF t
<1>c. ASSUME NEW q \in Seq(Task)
      PROVE  /\ Len(Append(q, t)) = Len(q) + 1 /\ Append(q, t)[Len(q) + 1] = t
             /\ \A i \in 1..Len(q) : Append(q, t)[i] = q[i]
  <2>1. t \in Task
    BY <1>3
  <2> QED
    BY <2>1, OneMore
<1>d. /\ Len(Append(earlyTasks, t)) = Len(earlyTasks) + 1
      /\ Append(earlyTasks, t)[Len(earlyTasks) + 1] = t
      /\ \A i \in 1..Len(earlyTasks) : Append(earlyTasks, t)[i] = earlyTasks[i]
      /\ Len(Append(queue, t)) = Len(queue) + 1
      /\ Append(queue, t)[Len(queue) + 1] = t
      /\ \A i \in 1..Len(queue) : Append(queue, t)[i] = queue[i]
  BY <1>1, <1>c
<1>5. \A i \in DOMAIN performed : performed[i] \in 1..Len(posted)
  BY DEF RunLoopInv, WorkerLined
<1>6. WorkerMessageOrder'
  <2>1. \A i, j \in DOMAIN performed :
          i < j => MayPrecede(posted, performed[i], performed[j])
    BY <1>1, Performing DEF RunLoopInv
  <2>2. \A i, j \in DOMAIN performed :
          i < j => MayPrecede(posted', performed[i], performed[j])
    BY <1>1, <1>5, <2>1, OrderKept
  <2> QED
    BY <1>1, <2>2, PerformingNext
<1>7. \A i \in DOMAIN performed' : performed'[i] \in 1..Len(posted')
  <2>1. \A x \in 1..Len(posted) : x \in 1..Len(posted')
    BY <1>2
  <2> QED
    BY <1>1, <1>5, <2>1
<1>8. CASE worker = "loading"
  <2>1. EarlyKept /\ performed = <<>>
    BY <1>1, <1>8 DEF RunLoopInv, WorkerLined
  <2>2. /\ Len(earlyTasks) = Len(posted) /\ Len(earlyTasks') = n /\ earlyTasks'[n] = t
        /\ \A i \in 1..Len(posted) : earlyTasks'[i] = earlyTasks[i]
    <3>1. Len(earlyTasks) = Len(posted) /\ earlyTasks' = Append(earlyTasks, t)
      BY <1>4, <1>8, <2>1 DEF EarlyKept
    <3> QED
      BY <1>d, <3>1
  <2>3. ASSUME NEW k \in 1..Len(posted') PROVE earlyTasks'[k] = Message(k) /\ posted'[k] = "loading"
    <3>1. k \in 1..Len(posted) \/ k = n
      BY <1>2
    <3>2. CASE k \in 1..Len(posted)
      BY <1>2, <2>1, <2>2, <3>2 DEF EarlyKept
    <3>3. CASE k = n
      BY <1>2, <1>8, <2>2, <3>3 DEF t
    <3> QED
      BY <3>1, <3>2, <3>3
  <2>4. EarlyKept'
    BY <1>2, <1>4, <1>8, <2>1, <2>2, <2>3 DEF EarlyKept
  <2> QED
    BY <1>1, <1>6, <1>7, <1>8, <2>1, <2>4 DEF RunLoopInv, WorkerLined
<1>a. ASSUME worker # "loading", NEW b \in Nat, b <= Len(queue), Lined(queue, b, posted),
             b # 0 => worker = "started"
      PROVE  Len(queue') = Len(queue) + 1 /\ Lined(queue', b, posted')
  <2>1. Lined(Append(queue, t), b, posted')
    BY <1>1, <1>3, <1>a, MessageLined DEF t
  <2>2. Len(Append(queue, t)) = Len(queue) + 1
    BY <1>1, <1>3, AppendFacts
  <2> QED
    BY <1>4, <1>a, <2>1, <2>2
<1>b. Len(queue) \in Nat
  BY <1>1, LenProperties
<1>9. CASE worker = "started"
  <2>1. PICK b \in 1..Len(queue) : Lined(queue, b, posted)
    BY <1>1, <1>9 DEF RunLoopInv, WorkerLined
  <2>2. Len(queue') = Len(queue) + 1 /\ Lined(queue', b, posted')
    BY <1>9, <1>a, <1>b, <2>1
  <2>3. b \in 1..Len(queue')
    BY <1>b, <2>2
  <2>4. performed = <<>>
    BY <1>1, <1>9 DEF RunLoopInv, WorkerLined
  <2> QED
    BY <1>1, <1>6, <1>7, <1>9, <2>2, <2>3, <2>4 DEF RunLoopInv, WorkerLined
<1>10. CASE worker = "scope"
  <2>1. Lined(queue, 0, posted) /\ Follows(performed, queue, posted)
    BY <1>1, <1>10 DEF RunLoopInv, WorkerLined
  <2>2. Lined(queue', 0, posted')
    BY <1>10, <1>a, <1>b, <2>1
  <2>3. ASSUME NEW i \in 1..Len(performed), NEW j \in 1..Len(queue'), queue'[j].type = "message"
        PROVE  MayPrecede(posted', performed[i], queue'[j].message)
    <3>1. /\ Len(queue') = Len(queue) + 1 /\ queue'[Len(queue) + 1] = t
          /\ \A k \in 1..Len(queue) : queue'[k] = queue[k]
      BY <1>d, <1>4, <1>10
    <3>2. performed[i] \in 1..Len(posted)
      BY <1>1, <1>5, Performing
    <3>3. CASE j \in 1..Len(queue)
      <4>1. queue[j].type = "message" /\ queue[j].message \in 1..Len(posted)
        BY <2>1, <2>3, <3>1, <3>3 DEF Lined
      <4>2. MayPrecede(posted, performed[i], queue[j].message)
        BY <2>1, <3>3, <4>1 DEF Follows
      <4> QED
        BY <1>1, <3>1, <3>2, <3>3, <4>1, <4>2, OrderKept
    <3>4. CASE j = Len(queue) + 1
      BY <1>2, <1>3, <3>1, <3>2, <3>4 DEF MayPrecede
    <3> QED
      BY <1>b, <3>1, <3>3, <3>4
  <2>4. Follows(performed', queue', posted')
    BY <1>1, <2>3 DEF Follows
  <2> QED
    BY <1>1, <1>6, <1>7, <1>10, <2>2, <2>4 DEF RunLoopInv, WorkerLined
<1> QED
  BY <1>1, <1>8, <1>9, <1>10 DEF Workers

\* A message in front of the queue of a worker with a scope is handled.
LEMMA MessagePerformed ==
  ASSUME RunLoopInv, RunLoopTyped', RunMessage, ~m_terminated, worker = "scope"
  PROVE  RunLoopInv'
<1> USE DEF workerVars, decodeVars
<1> DEFINE m == Head(queue).message
<1>1. /\ RunLoopTyped /\ queue \in Seq(Task) /\ queue # <<>> /\ Head(queue).type = "message"
      /\ queue' = Tail(queue) /\ performed' = Append(performed, m)
      /\ performed \in Seq(1..MaxMessages)
      /\ UNCHANGED <<worker, m_terminated, posted>>
      /\ Lined(queue, 0, posted) /\ Follows(performed, queue, posted)
  BY DEF RunMessage, IsNext, RunLoopInv, RunLoopTyped, WorkerLined
<1>2. /\ Len(queue) \in Nat \ {0} /\ Len(queue') = Len(queue) - 1 /\ 1 \in 1..Len(queue)
      /\ \A i \in 1..(Len(queue) - 1) : queue'[i] = queue[i + 1]
      /\ queue[1].type = "message" /\ queue[1].message = m
  BY <1>1, OneLess
<1>3. m \in 1..Len(posted) /\ m \in 1..MaxMessages
  <2>1. m \in 1..Len(posted)
    BY <1>1, <1>2 DEF Lined
  <2>2. Len(posted) \in Nat /\ Len(posted) <= MaxMessages
    BY <1>1, LenProperties DEF RunLoopTyped
  <2> QED
    BY <2>1, <2>2, BoundAssumption
<1> HIDE DEF m
<1>4. /\ Len(performed) \in Nat /\ Len(performed') = Len(performed) + 1
      /\ DOMAIN performed = 1..Len(performed) /\ DOMAIN performed' = 1..(Len(performed) + 1)
      /\ performed'[Len(performed) + 1] = m
      /\ \A i \in 1..Len(performed) : performed'[i] = performed[i]
  BY <1>1, <1>3, OneMore
<1>5. \A i \in 1..Len(performed) : MayPrecede(posted, performed[i], m)
  BY <1>1, <1>2 DEF Follows
<1>6. WorkerMessageOrder'
  <2>1. \A i, j \in DOMAIN performed :
          i < j => MayPrecede(posted, performed[i], performed[j])
    BY <1>1, Performing DEF RunLoopInv
  <2>2. ASSUME NEW i \in DOMAIN performed', NEW j \in DOMAIN performed', i < j
        PROVE  MayPrecede(posted, performed'[i], performed'[j])
    <3>1. i \in 1..Len(performed) /\ (j \in 1..Len(performed) \/ j = Len(performed) + 1)
      BY <1>4, <2>2
    <3> QED
      BY <1>4, <1>5, <2>1, <2>2, <3>1
  <2> QED
    BY <1>1, <2>2, PerformingNext
<1>7. \A i \in DOMAIN performed' : performed'[i] \in 1..Len(posted')
  <2>1. \A i \in DOMAIN performed : performed[i] \in 1..Len(posted)
    BY DEF RunLoopInv, WorkerLined
  <2> QED
    BY <1>1, <1>3, <1>4, <2>1
<1>8. Lined(queue', 0, posted)
  BY <1>1, <1>2, TailLined
<1>9. ASSUME NEW i \in 1..Len(performed'), NEW j \in 1..Len(queue'), queue'[j].type = "message"
      PROVE  MayPrecede(posted, performed'[i], queue'[j].message)
  <2>1. /\ j + 1 \in 1..Len(queue) /\ queue'[j] = queue[j + 1] /\ Sooner(0, 1, j + 1)
    BY <1>2 DEF Sooner
  <2>2. CASE i \in 1..Len(performed)
    BY <1>1, <1>4, <1>9, <2>1, <2>2 DEF Follows
  <2>3. CASE i = Len(performed) + 1
    BY <1>1, <1>2, <1>4, <1>9, <2>1, <2>3 DEF Lined
  <2> QED
    BY <1>4, <2>2, <2>3
<1>10. Follows(performed', queue', posted')
  BY <1>1, <1>9 DEF Follows
<1> QED
  BY <1>1, <1>6, <1>7, <1>8, <1>10 DEF RunLoopInv, WorkerLined

LEMMA RunLoopStep ==
  ASSUME RunLoopInv
  PROVE  [RunLoopNext]_runLoopVars => RunLoopInv'
<1> SUFFICES ASSUME [RunLoopNext]_runLoopVars PROVE RunLoopInv'
  OBVIOUS
<1> USE DEF workerVars, decodeVars, runLoopVars
<1>a. /\ RunLoopTyped /\ RunLoopTyped' /\ queue \in Seq(Task) /\ Len(queue) \in Nat
      /\ worker \in Workers /\ m_terminated \in BOOLEAN
      /\ ~m_terminated /\ worker = "loading" => EarlyKept
      /\ ~m_terminated /\ worker = "started" =>
           \E b \in 1..Len(queue) : Lined(queue, b, posted)
      /\ ~m_terminated /\ worker = "scope" =>
           Lined(queue, 0, posted) /\ Follows(performed, queue, posted)
  BY RunLoopStepTyped, LenProperties DEF RunLoopInv, RunLoopTyped, WorkerLined
<1>f. Len(queue) \in Nat
  BY <1>a
<1>1. ASSUME PostMessage PROVE RunLoopInv'
  BY <1>1, <1>a, PostKeeps
<1>2. ASSUME StartWorkerGlobalScope PROVE RunLoopInv'
  <2>1. /\ ~m_terminated /\ EarlyKept /\ worker = "loading" /\ worker' = "started"
        /\ queue' = queue \o Startup
        /\ UNCHANGED <<m_terminated, posted, performed>>
    BY <1>2, <1>a DEF StartWorkerGlobalScope
  <2>2. \E b \in 1..Len(queue') : Lined(queue', b, posted)
    BY <1>a, <2>1, StartLined
  <2> QED
    BY <1>a, <2>1, <2>2, SameOrder
<1>3. ASSUME Terminate PROVE RunLoopInv'
  <2>1. m_terminated' = TRUE /\ UNCHANGED <<worker, posted, performed>>
    BY <1>3 DEF Terminate
  <2> QED
    BY <1>a, <2>1, SameOrder
<1>4. ASSUME NEW r \in Requests, DispatchDecode(r) PROVE RunLoopInv'
  <2>1. UNCHANGED <<worker, m_terminated, earlyTasks, posted, performed>>
    BY <1>4 DEF DispatchDecode
  <2>2. CASE queue' = queue
    BY <1>a, <2>1, <2>2, SameOrder DEF EarlyKept
  <2>3. CASE queue' = Append(queue, Decode(r))
    <3> DEFINE t == Decode(r)
    <3>1. t \in Task /\ t.type = "decode"
      BY Tasks
    <3> HIDE DEF t
    <3>2. /\ queue' = Append(queue, t) /\ Len(queue') = Len(queue) + 1
          /\ queue'[Len(queue) + 1] = t
          /\ DOMAIN queue' = 1..(Len(queue) + 1) /\ DOMAIN queue = 1..Len(queue)
          /\ \A i \in 1..Len(queue) : queue'[i] = queue[i]
      <4>1. queue' = Append(queue, t)
        BY <2>3 DEF t
      <4> QED
        BY <1>a, <3>1, <4>1, OneMore
    <3>3. ASSUME NEW b \in Nat, b <= Len(queue), Lined(queue, b, posted)
          PROVE  Lined(queue', b, posted)
      BY <1>a, <3>1, <3>2, <3>3, DecodeLined
    <3>a. \A j \in 1..Len(queue') : j \in 1..Len(queue) \/ j = Len(queue) + 1
      <4>1. Len(queue') = Len(queue) + 1
        BY <3>2
      <4> QED
        BY <1>f, <4>1
    <3>4. ASSUME NEW j \in 1..Len(queue'), queue'[j].type = "message"
          PROVE  j \in 1..Len(queue)
      BY <3>1, <3>2, <3>4, <3>a
    <3>5. ASSUME EarlyKept PROVE EarlyKept'
      <4>1. \A i \in DOMAIN queue' : queue'[i].type = "decode"
        <5>1. \A i \in 1..Len(queue) : queue[i].type = "decode"
          BY <3>2, <3>5 DEF EarlyKept
        <5>2. DOMAIN queue' = 1..Len(queue')
          BY <3>2
        <5> QED
          BY <3>1, <3>2, <3>a, <5>1, <5>2
      <4> QED
        BY <2>1, <3>5, <4>1 DEF EarlyKept
    <3>6. ASSUME NEW b \in 1..Len(queue), Lined(queue, b, posted)
          PROVE  b \in 1..Len(queue') /\ Lined(queue', b, posted)
      <4>1. b \in Nat /\ b <= Len(queue)
        BY <1>f
      <4>2. Len(queue') = Len(queue) + 1
        BY <3>2
      <4>3. b \in 1..Len(queue')
        BY <1>f, <4>1, <4>2
      <4> QED
        BY <3>3, <3>6, <4>1, <4>3
    <3>7. Lined(queue, 0, posted) => Lined(queue', 0, posted)
      <4>1. 0 \in Nat /\ 0 <= Len(queue)
        BY <1>f
      <4> QED
        BY <3>3, <4>1
    <3>8. Follows(performed, queue, posted) => Follows(performed, queue', posted)
      BY <3>2, <3>4 DEF Follows
    <3> QED
      BY <1>a, <2>1, <3>5, <3>6, <3>7, <3>8, SameOrder
  <2> QED
    BY <1>4, <2>2, <2>3 DEF DispatchDecode
<1>5. ASSUME Stop PROVE RunLoopInv'
  BY <1>5, <1>a, SameOrder DEF Stop, EarlyKept
<1>b. ASSUME queue # <<>>
      PROVE  /\ Len(Tail(queue)) = Len(queue) - 1 /\ 1 \in 1..Len(queue) /\ Head(queue) = queue[1]
             /\ DOMAIN Tail(queue) = 1..(Len(queue) - 1) /\ DOMAIN queue = 1..Len(queue)
             /\ \A i \in 1..(Len(queue) - 1) : Tail(queue)[i] = queue[i + 1]
  BY <1>a, <1>b, OneLess
<1>c. ASSUME queue # <<>>, NEW b \in 1..Len(queue), Lined(queue, b, posted)
      PROVE  b - 1 \in Nat /\ b - 1 <= Len(Tail(queue)) /\ Lined(Tail(queue), b - 1, posted)
  <2>1. b - 1 \in Nat /\ b # 0 /\ b \in Nat /\ b <= Len(queue)
    BY <1>a
  <2> QED
    BY <1>a, <1>c, <2>1, TailLined
<1>d. ASSUME queue # <<>>, Lined(queue, 0, posted)
      PROVE  Lined(Tail(queue), 0, posted)
  BY <1>a, <1>d, TailLined
<1>e. ASSUME queue # <<>>, Follows(performed, queue, posted)
      PROVE  Follows(performed, Tail(queue), posted)
  <2>1. \A j \in 1..Len(Tail(queue)) : j + 1 \in 1..Len(queue) /\ Tail(queue)[j] = queue[j + 1]
    BY <1>a, <1>b, <1>e
  <2> QED
    BY <1>e, <2>1 DEF Follows
<1>6. ASSUME RunBootstrap PROVE RunLoopInv'
  <2>1. /\ queue # <<>> /\ Head(queue).type = "bootstrap" /\ queue' = Tail(queue)
        /\ UNCHANGED <<m_terminated, earlyTasks, posted, performed>>
        /\ ~m_terminated => worker' = "scope"
        /\ m_terminated => worker' = worker
    BY <1>6 DEF RunBootstrap, IsNext
  <2>2. CASE m_terminated
    BY <1>a, <2>1, <2>2, SameOrder
  <2>3. CASE ~m_terminated
    <3>1. 1 \in 1..Len(queue) /\ queue[1].type = "bootstrap" /\ DOMAIN queue = 1..Len(queue)
      BY <1>b, <2>1
    <3>2. worker = "started"
      <4>1. worker # "loading"
        BY <1>a, <2>3, <3>1 DEF EarlyKept
      <4>2. worker # "scope"
        <5>1. ~Lined(queue, 0, posted)
          BY <3>1 DEF Lined
        <5> QED
          BY <1>a, <2>3, <5>1
      <4> QED
        BY <1>a, <4>1, <4>2 DEF Workers
    <3>3. PICK b \in 1..Len(queue) : Lined(queue, b, posted)
      BY <1>a, <2>3, <3>2
    <3>4. b = 1
      BY <3>1, <3>3 DEF Lined
    <3>5. Lined(queue', 0, posted)
      BY <1>c, <2>1, <3>3, <3>4
    <3>6. performed = <<>> /\ Len(performed) = 0
      <4>1. performed = <<>>
        BY <2>3, <3>2 DEF RunLoopInv, WorkerLined
      <4> QED
        BY <4>1, EmptySeq
    <3>7. Follows(performed, queue', posted)
      BY <3>6 DEF Follows
    <3> QED
      BY <1>a, <2>1, <2>3, <3>5, <3>7, SameOrder
  <2> QED
    BY <2>2, <2>3
<1>7. ASSUME RunMessage PROVE RunLoopInv'
  <2>1. /\ queue # <<>> /\ Head(queue).type = "message"
        /\ UNCHANGED <<worker, m_terminated, earlyTasks, posted>>
    BY <1>7 DEF RunMessage, IsNext
  <2>2. CASE m_terminated
    <3>1. performed' = performed
      BY <1>7, <2>2 DEF RunMessage
    <3> QED
      BY <1>a, <2>1, <2>2, <3>1, SameOrder
  <2>3. CASE ~m_terminated /\ worker = "scope"
    BY <1>7, <1>a, <2>3, MessagePerformed
  <2>4. CASE ~m_terminated /\ worker # "scope"
    <3>1. queue' = Append(Tail(queue), Head(queue)) /\ performed' = performed
      BY <1>7, <2>4 DEF RunMessage, Requeued
    <3>2. 1 \in 1..Len(queue) /\ queue[1].type = "message" /\ DOMAIN queue = 1..Len(queue)
      BY <1>b, <2>1
    <3>3. worker = "started"
      <4>1. worker # "loading"
        BY <1>a, <2>4, <3>2 DEF EarlyKept
      <4> QED
        BY <1>a, <2>4, <4>1 DEF Workers
    <3>4. PICK b \in 1..Len(queue) : Lined(queue, b, posted)
      BY <1>a, <2>4, <3>3
    <3>5. b # 1
      BY <3>2, <3>4 DEF Lined
    <3>6. b \in Nat /\ 1 < b /\ b <= Len(queue)
      BY <1>a, <3>4, <3>5
    <3>7. Lined(queue', b - 1, posted)
      BY <1>a, <2>1, <3>1, <3>4, <3>6, RequeueLined
    <3>8. b - 1 \in 1..Len(queue')
      <4>1. Tail(queue) \in Seq(Task) /\ Head(queue) \in Task /\ Len(Tail(queue)) = Len(queue) - 1
        BY <1>a, <2>1, OneLess
      <4>2. Len(queue') = Len(Tail(queue)) + 1
        BY <3>1, <4>1, AppendFacts
      <4>3. Len(queue') = Len(queue)
        BY <1>f, <4>1, <4>2
      <4> QED
        BY <1>f, <3>6, <4>3
    <3> QED
      BY <1>a, <2>1, <2>4, <3>1, <3>3, <3>7, <3>8, SameOrder
  <2> QED
    BY <2>2, <2>3, <2>4
<1>8. ASSUME RunDecode PROVE RunLoopInv'
  <2>1. /\ queue # <<>> /\ Head(queue).type = "decode" /\ queue' = Tail(queue)
        /\ UNCHANGED <<worker, m_terminated, earlyTasks, posted, performed>>
    BY <1>8 DEF RunDecode, IsNext
  <2>2. EarlyKept => EarlyKept'
    <3>1. \A i \in DOMAIN queue' : i + 1 \in DOMAIN queue /\ queue'[i] = queue[i + 1]
      <4>1. /\ DOMAIN queue' = 1..(Len(queue) - 1) /\ DOMAIN queue = 1..Len(queue)
            /\ \A i \in 1..(Len(queue) - 1) : queue'[i] = queue[i + 1]
        BY <1>b, <2>1
      <4> QED
        BY <1>f, <4>1
    <3> QED
      BY <2>1, <3>1 DEF EarlyKept
  <2>3. ASSUME NEW b \in 1..Len(queue), Lined(queue, b, posted)
        PROVE  \E c \in 1..Len(queue') : Lined(queue', c, posted)
    <3>1. b # 1
      BY <1>b, <2>1, <2>3 DEF Lined
    <3>a. Len(queue') = Len(queue) - 1
      BY <1>b, <2>1
    <3>b. b - 1 \in 1..Len(queue')
      BY <1>f, <3>1, <3>a
    <3>2. b - 1 \in 1..Len(queue') /\ Lined(queue', b - 1, posted)
      BY <1>c, <2>1, <2>3, <3>b
    <3> QED
      BY <3>2
  <2> QED
    BY <1>a, <1>d, <1>e, <2>1, <2>2, <2>3, SameOrder
<1>9. ASSUME UNCHANGED runLoopVars PROVE RunLoopInv'
  BY <1>9 DEF RunLoopInv, RunLoopTyped, WorkerLined, WorkerMessageOrder, EarlyKept
<1> QED
  BY <1>1, <1>2, <1>3, <1>4, <1>5, <1>6, <1>7, <1>8, <1>9 DEF RunLoopNext, RunTask

LEMMA RunLoopStart ==
  ASSUME RunLoopInit
  PROVE  RunLoopInv
<1>1. /\ <<>> \in Seq(Task) /\ <<>> \in Seq(Requests) /\ <<>> \in Seq(Workers)
      /\ <<>> \in Seq(1..MaxMessages) /\ Len(<<>>) = 0 /\ DOMAIN <<>> = {}
  BY EmptySeq
<1>2. RunLoopTyped
  <2>1. 0 <= MaxMessages /\ 0 \in 0..MaxDecodes /\ 0 \in 0..MaxStops
    BY BoundAssumption
  <2>2. queue \in Seq(Task) /\ earlyTasks \in Seq(Task) /\ decodeQueue \in Seq(Requests)
    BY <1>1 DEF RunLoopInit
  <2>3. posted \in Seq(Workers) /\ Len(posted) = 0 /\ performed \in Seq(1..MaxMessages)
    BY <1>1 DEF RunLoopInit
  <2> QED
    BY <2>1, <2>2, <2>3 DEF RunLoopInit, RunLoopTyped, Workers
<1>3. EarlyKept
  BY <1>1 DEF RunLoopInit, EarlyKept
<1> QED
  BY <1>1, <1>2, <1>3 DEF RunLoopInit, RunLoopInv, WorkerLined, WorkerMessageOrder

LEMMA RunLoopInvariance == RunLoopSpec => []RunLoopInv
<1>1. RunLoopInit => RunLoopInv
  BY RunLoopStart
<1>2. RunLoopInv /\ [RunLoopNext]_runLoopVars => RunLoopInv'
  BY RunLoopStep
<1> QED
  BY <1>1, <1>2, PTL DEF RunLoopSpec

\* Every variable of the run loop keeps its type, and a message that is requeued always
\* finds the bootstrap it waits for in the queue (WorkerMainRunLoop::postTaskForMode,
\* startWorkerGlobalScope).
THEOREM RunLoopTypeCorrect == RunLoopSpec => []RunLoopTypeOK
<1>1. ASSUME RunLoopInv PROVE RunLoopTypeOK
  <2>1. ASSUME worker = "started", ~m_terminated PROVE Bootstrap \in ToSet(queue)
    <3>1. PICK b \in 1..Len(queue) : Lined(queue, b, posted)
      BY <1>1, <2>1 DEF RunLoopInv, WorkerLined
    <3>2. queue[b] = Bootstrap /\ b \in DOMAIN queue
      BY <1>1, <3>1, Tasks, LenProperties, ElementOfSeq DEF Lined, RunLoopInv, RunLoopTyped
    <3> QED
      BY <3>2 DEF ToSet
  <2> QED
    BY <1>1, <2>1 DEF RunLoopInv, RunLoopTyped, RunLoopTypeOK, Workers
<1> QED
  BY <1>1, RunLoopInvariance, PTL

\* A worker handles no message twice and in the order in which they were posted, but for
\* the window between start and bootstrap (the early tasks, their requeueing behind later
\* messages, and the bootstrap itself).
THEOREM WorkerMessagesInOrder == RunLoopSpec => []WorkerMessageOrder
<1>1. RunLoopInv => WorkerMessageOrder
  BY DEF RunLoopInv
<1> QED
  BY <1>1, RunLoopInvariance, PTL

-----------------------------------------------------------------------------
(* Nothing that the loop owes is forgotten: the safety that TasksDone rests *)
(* on.  A message is handled, or on the loop, or with the proxy; and every  *)
(* queued decode has a callback on the loop, the earlier the earlier, so    *)
(* that when a callback finds its request not at the head (it was voided)   *)
(* those of the queued requests are still to come.                          *)

\* at says where in the loop q the callback of each request of d stands.
CallbacksAt(q, d, at) ==
  /\ at \in [1..Len(d) -> 1..Len(q)]
  /\ \A i \in 1..Len(d) : q[at[i]] = Decode(d[i])
  /\ \A i, j \in 1..Len(d) : i < j => at[i] < at[j]

CalledBack(q, d) == \E at : CallbacksAt(q, d, at)

Holds(s, x) == \E i \in DOMAIN s : s[i] = x

MessagesKept ==
  ~m_terminated =>
    /\ worker # "loading" => earlyTasks = <<>>
    /\ \A n \in 1..Len(posted) : \/ Holds(performed, n)
                                  \/ Holds(queue, Message(n))
                                  \/ Holds(earlyTasks, Message(n))

DecodesCalledBack == CalledBack(queue, decodeQueue)

NothingForgotten == MessagesKept /\ DecodesCalledBack

LEMMA NothingToDecode ==
  ASSUME NEW q \in Seq(Task)
  PROVE  CalledBack(q, <<>>)
<1> DEFINE at == [i \in {} |-> 0]
<1>1. 1..Len(<<>>) = {}
  OBVIOUS
<1>2. at \in [{} -> 1..Len(q)]
  OBVIOUS
<1>3. CallbacksAt(q, <<>>, at)
  <2> HIDE DEF at
  <2> QED
    BY <1>1, <1>2 DEF CallbacksAt
<1> HIDE DEF at
<1> QED
  BY <1>3 DEF CalledBack

\* What is added behind a loop leaves the callbacks where they are.
LEMMA CallbacksStay ==
  ASSUME NEW q \in Seq(Task), NEW d \in Seq(Requests), CalledBack(q, d),
         NEW p \in Seq(Task), Len(p) >= Len(q), \A i \in 1..Len(q) : p[i] = q[i]
  PROVE  CalledBack(p, d)
<1>1. PICK at : CallbacksAt(q, d, at)
  BY DEF CalledBack
<1>2. Len(q) \in Nat /\ Len(p) \in Nat /\ Len(d) \in Nat
  BY LenProperties
<1>3. at \in [1..Len(d) -> 1..Len(q)] /\ \A i \in 1..Len(d) : at[i] \in 1..Len(q)
  BY <1>1 DEF CallbacksAt
<1>4. at \in [1..Len(d) -> 1..Len(p)]
  <2>1. 1..Len(q) \subseteq 1..Len(p)
    BY <1>2
  <2> QED
    BY <1>3, <2>1
<1>5. CallbacksAt(p, d, at)
  BY <1>1, <1>3, <1>4 DEF CallbacksAt
<1> QED
  BY <1>5 DEF CalledBack

\* A request is queued together with its callback.
LEMMA CallbackAdded ==
  ASSUME NEW q \in Seq(Task), NEW d \in Seq(Requests), CalledBack(q, d), NEW r \in Requests
  PROVE  CalledBack(Append(q, Decode(r)), Append(d, r))
<1> DEFINE p == Append(q, Decode(r))
           e == Append(d, r)
<1>1. PICK at : CallbacksAt(q, d, at)
  BY DEF CalledBack
<1>2. Len(q) \in Nat /\ Len(d) \in Nat
  BY LenProperties
<1>3. Len(p) = Len(q) + 1 /\ p[Len(q) + 1] = Decode(r) /\ \A i \in 1..Len(q) : p[i] = q[i]
  <2>1. Decode(r) \in Task
    BY Tasks
  <2> QED
    BY <2>1, OneMore
<1>4. Len(e) = Len(d) + 1 /\ e[Len(d) + 1] = r /\ \A i \in 1..Len(d) : e[i] = d[i]
  BY OneMore
<1> HIDE DEF p, e
<1>5. /\ \A i \in 1..Len(d) : at[i] \in 1..Len(q) /\ q[at[i]] = Decode(d[i])
      /\ \A i, j \in 1..Len(d) : i < j => at[i] < at[j]
  BY <1>1 DEF CallbacksAt
<1> DEFINE to == [i \in 1..(Len(d) + 1) |-> IF i = Len(d) + 1 THEN Len(q) + 1 ELSE at[i]]
<1>6. /\ to[Len(d) + 1] = Len(q) + 1 /\ \A i \in 1..Len(d) : to[i] = at[i]
      /\ DOMAIN to = 1..(Len(d) + 1) /\ to = [i \in 1..(Len(d) + 1) |-> to[i]]
  BY <1>2
<1> HIDE DEF to
<1>7. ASSUME NEW i \in 1..(Len(d) + 1) PROVE i = Len(d) + 1 \/ i \in 1..Len(d)
  BY <1>2
<1>8. to \in [1..Len(e) -> 1..Len(p)]
  <2>1. \A i \in 1..(Len(d) + 1) : to[i] \in 1..(Len(q) + 1)
    <3> TAKE i \in 1..(Len(d) + 1)
    <3>1. CASE i = Len(d) + 1
      BY <3>1, <1>6, <1>2
    <3>2. CASE i \in 1..Len(d)
      <4>1. to[i] \in 1..Len(q)
        BY <3>2, <1>5, <1>6
      <4> QED
        BY <4>1, <1>2
    <3> QED
      BY <3>1, <3>2, <1>7
  <2> QED
    BY <2>1, <1>3, <1>4, <1>6
<1>9. \A i \in 1..Len(e) : p[to[i]] = Decode(e[i])
  BY <1>3, <1>4, <1>5, <1>6, <1>7
<1>10. ASSUME NEW i \in 1..Len(e), NEW j \in 1..Len(e), i < j PROVE to[i] < to[j]
  <2>1. i \in 1..Len(d) /\ (j = Len(d) + 1 \/ j \in 1..Len(d))
    BY <1>10, <1>2, <1>4
  <2>2. CASE j = Len(d) + 1
    <3>1. to[i] \in 1..Len(q) /\ to[j] = Len(q) + 1
      BY <2>1, <2>2, <1>5, <1>6
    <3> QED
      BY <3>1, <1>2
  <2>3. CASE j \in 1..Len(d)
    BY <2>1, <2>3, <1>5, <1>6, <1>10
  <2> QED
    BY <2>1, <2>2, <2>3
<1>11. CallbacksAt(p, e, to)
  BY <1>8, <1>9, <1>10 DEF CallbacksAt
<1> QED
  BY <1>11 DEF CalledBack, p, e

\* The loop has run its oldest task, which is not the callback of the first request.
LEMMA CallbacksAdvance ==
  ASSUME NEW q \in Seq(Task), q # <<>>, NEW d \in Seq(Requests), CalledBack(q, d),
         d # <<>> => q[1] # Decode(d[1])
  PROVE  CalledBack(Tail(q), d)
<1> DEFINE p == Tail(q)
<1>1. PICK at : CallbacksAt(q, d, at)
  BY DEF CalledBack
<1>2. Len(q) \in Nat \ {0} /\ Len(d) \in Nat /\ Len(p) = Len(q) - 1
      /\ \A i \in 1..(Len(q) - 1) : p[i] = q[i + 1]
  BY OneLess, LenProperties
<1> HIDE DEF p
<1>3. /\ \A i \in 1..Len(d) : at[i] \in 1..Len(q) /\ q[at[i]] = Decode(d[i])
      /\ \A i, j \in 1..Len(d) : i < j => at[i] < at[j]
  BY <1>1 DEF CallbacksAt
<1>4. ASSUME NEW i \in 1..Len(d) PROVE at[i] - 1 \in 1..(Len(q) - 1) /\ (at[i] - 1) + 1 = at[i]
  <2>1. 1 \in 1..Len(d) /\ d # <<>> /\ (i = 1 \/ 1 < i)
    BY <1>2
  <2>2. at[1] \in 1..Len(q) /\ at[i] \in 1..Len(q)
    BY <2>1, <1>3
  <2>3. at[1] # 1
    BY <2>1, <1>3
  <2>4. i = 1 \/ at[1] < at[i]
    BY <2>1, <1>3
  <2> QED
    BY <1>2, <2>2, <2>3, <2>4
<1> DEFINE to == [i \in 1..Len(d) |-> at[i] - 1]
<1>5. /\ \A i \in 1..Len(d) : to[i] = at[i] - 1
      /\ to \in [1..Len(d) -> 1..Len(p)]
  BY <1>2, <1>4
<1> HIDE DEF to
<1>6. ASSUME NEW i \in 1..Len(d) PROVE p[to[i]] = Decode(d[i])
  <2>1. to[i] \in 1..(Len(q) - 1) /\ to[i] + 1 = at[i]
    BY <1>4, <1>5
  <2>2. p[to[i]] = q[to[i] + 1]
    BY <1>2, <2>1
  <2> QED
    BY <1>3, <2>1, <2>2
<1>7. ASSUME NEW i \in 1..Len(d), NEW j \in 1..Len(d), i < j PROVE to[i] < to[j]
  <2>1. at[i] \in 1..Len(q) /\ at[j] \in 1..Len(q) /\ at[i] < at[j]
    BY <1>3, <1>7
  <2>2. \A x, y \in 1..Len(q) : x < y => x - 1 < y - 1
    BY <1>2
  <2> QED
    BY <2>1, <2>2, <1>5
<1>8. CallbacksAt(p, d, to)
  BY <1>5, <1>6, <1>7 DEF CallbacksAt
<1> QED
  BY <1>8 DEF CalledBack, p

\* The first request is delivered.
LEMMA FirstDelivered ==
  ASSUME NEW q \in Seq(Task), q # <<>>, NEW d \in Seq(Requests), d # <<>>, CalledBack(q, d)
  PROVE  CalledBack(Tail(q), Tail(d))
<1> DEFINE p == Tail(q)
           e == Tail(d)
<1>1. PICK at : CallbacksAt(q, d, at)
  BY DEF CalledBack
<1>2. Len(q) \in Nat \ {0} /\ Len(p) = Len(q) - 1
      /\ \A i \in 1..(Len(q) - 1) : p[i] = q[i + 1]
  BY OneLess
<1>3. Len(d) \in Nat \ {0} /\ Len(e) = Len(d) - 1
      /\ \A i \in 1..(Len(d) - 1) : e[i] = d[i + 1]
  BY OneLess
<1> HIDE DEF p, e
<1>4. /\ \A i \in 1..Len(d) : at[i] \in 1..Len(q) /\ q[at[i]] = Decode(d[i])
      /\ \A i, j \in 1..Len(d) : i < j => at[i] < at[j]
  BY <1>1 DEF CallbacksAt
<1>5. ASSUME NEW i \in 1..(Len(d) - 1)
      PROVE  /\ i + 1 \in 1..Len(d) /\ at[i + 1] \in 1..Len(q)
             /\ at[i + 1] - 1 \in 1..(Len(q) - 1) /\ (at[i + 1] - 1) + 1 = at[i + 1]
  <2>1. 1 \in 1..Len(d) /\ i + 1 \in 1..Len(d) /\ 1 < i + 1
    BY <1>3
  <2>2. at[1] \in 1..Len(q) /\ at[i + 1] \in 1..Len(q) /\ at[1] < at[i + 1]
    BY <2>1, <1>4
  <2> QED
    BY <2>1, <2>2, <1>2
<1> DEFINE to == [i \in 1..(Len(d) - 1) |-> at[i + 1] - 1]
<1>6. /\ \A i \in 1..Len(e) : to[i] = at[i + 1] - 1
      /\ to \in [1..Len(e) -> 1..Len(p)]
  BY <1>2, <1>3, <1>5
<1> HIDE DEF to
<1>7. ASSUME NEW i \in 1..Len(e) PROVE p[to[i]] = Decode(e[i])
  <2>1. i \in 1..(Len(d) - 1)
    BY <1>3
  <2>2. p[to[i]] = q[at[i + 1]] /\ e[i] = d[i + 1] /\ i + 1 \in 1..Len(d)
    BY <2>1, <1>2, <1>3, <1>5, <1>6
  <2> QED
    BY <2>2, <1>4
<1>8. ASSUME NEW i \in 1..Len(e), NEW j \in 1..Len(e), i < j PROVE to[i] < to[j]
  <2>1. i \in 1..(Len(d) - 1) /\ j \in 1..(Len(d) - 1) /\ i + 1 < j + 1
    BY <1>3, <1>8
  <2>2. at[i + 1] \in 1..Len(q) /\ at[j + 1] \in 1..Len(q) /\ at[i + 1] < at[j + 1]
    BY <2>1, <1>4, <1>5
  <2>3. \A x, y \in 1..Len(q) : x < y => x - 1 < y - 1
    BY <1>2
  <2> QED
    BY <2>2, <2>3, <1>6
<1>9. CallbacksAt(p, e, to)
  BY <1>6, <1>7, <1>8 DEF CallbacksAt
<1> QED
  BY <1>9 DEF CalledBack, p, e

LEMMA DecodesKept ==
  ASSUME RunLoopTyped, RunLoopTyped', DecodesCalledBack, [RunLoopNext]_runLoopVars
  PROVE  DecodesCalledBack'
<1> USE DEF workerVars, decodeVars, runLoopVars
<1> DEFINE p == queue'
           e == decodeQueue'
<1>1. /\ queue \in Seq(Task) /\ decodeQueue \in Seq(Requests) /\ p \in Seq(Task)
      /\ e \in Seq(Requests) /\ earlyTasks \in Seq(Task) /\ CalledBack(queue, decodeQueue)
      /\ Len(queue) \in Nat
  BY LenProperties DEF RunLoopTyped, DecodesCalledBack
<1>2. SUFFICES CalledBack(p, e)
  BY DEF DecodesCalledBack
<1>3. ASSUME e = decodeQueue, Len(p) >= Len(queue), \A i \in 1..Len(queue) : p[i] = queue[i]
      PROVE  CalledBack(p, e)
  <2> HIDE DEF p, e
  <2> QED
    BY <1>1, <1>3, CallbacksStay
<1>4. ASSUME e = decodeQueue, NEW t \in Task, p = Append(queue, t) PROVE CalledBack(p, e)
  <2>1. Len(p) = Len(queue) + 1 /\ \A i \in 1..Len(queue) : p[i] = queue[i]
    <3> HIDE DEF p
    <3> QED
      BY <1>1, <1>4, OneMore
  <2>2. Len(p) >= Len(queue)
    <3> HIDE DEF p
    <3> QED
      BY <1>1, <2>1
  <2> QED
    BY <1>3, <1>4, <2>1, <2>2
<1>5. ASSUME e = decodeQueue, p = queue PROVE CalledBack(p, e)
  <2> HIDE DEF p, e
  <2> QED
    BY <1>1, <1>5
<1>6. ASSUME PostMessage PROVE CalledBack(p, e)
  <2>1. Len(posted') \in 1..MaxMessages
    <3>1. Len(posted) \in Nat /\ posted \in Seq(Workers) /\ worker \in Workers
      BY LenProperties DEF RunLoopTyped
    <3>2. Len(posted') = Len(posted) + 1 /\ Len(posted) < MaxMessages
      BY <1>6, <3>1, OneMore DEF PostMessage
    <3> QED
      BY <3>1, <3>2, BoundAssumption
  <2>2. Message(Len(posted')) \in Task
    BY <2>1, Tasks
  <2> QED
    BY <1>4, <1>5, <1>6, <2>2 DEF PostMessage
<1>7. ASSUME StartWorkerGlobalScope PROVE CalledBack(p, e)
  <2>1. p = queue \o Startup /\ e = decodeQueue
    BY <1>7 DEF StartWorkerGlobalScope
  <2>2. Startup \in Seq(Task)
    <3>1. <<Bootstrap>> \in Seq(Task)
      BY Tasks, SingletonSeq
    <3> QED
      BY <1>1, <3>1, ConcatProperties DEF Startup
  <2>3. Len(queue \o Startup) = Len(queue) + Len(Startup) /\ Len(Startup) \in Nat
        /\ \A i \in 1..(Len(queue) + Len(Startup)) :
             (queue \o Startup)[i] = IF i <= Len(queue) THEN queue[i]
                                     ELSE Startup[i - Len(queue)]
    BY <1>1, <2>2, ConcatProperties, LenProperties
  <2>4. Len(p) >= Len(queue) /\ \A i \in 1..Len(queue) : p[i] = queue[i]
    <3> HIDE DEF p
    <3>1. \A i \in 1..Len(queue) : i \in 1..(Len(queue) + Len(Startup)) /\ i <= Len(queue)
      BY <1>1, <2>3
    <3> QED
      BY <1>1, <2>1, <2>3, <3>1
  <2> QED
    BY <1>3, <2>1, <2>4
<1>8. ASSUME Terminate PROVE CalledBack(p, e)
  BY <1>5, <1>8 DEF Terminate
<1>9. ASSUME NEW r \in Requests, DispatchDecode(r) PROVE CalledBack(p, e)
  <2>1. \/ p = Append(queue, Decode(r)) /\ e = Append(decodeQueue, r)
        \/ p = queue /\ e = decodeQueue
    BY <1>9 DEF DispatchDecode, AppendsRequest
  <2>2. CASE p = Append(queue, Decode(r)) /\ e = Append(decodeQueue, r)
    <3> HIDE DEF p, e
    <3> QED
      BY <1>1, <2>2, CallbackAdded
  <2> QED
    BY <1>5, <2>1, <2>2
<1>10. ASSUME Stop PROVE CalledBack(p, e)
  BY <1>1, <1>10, NothingToDecode DEF Stop
<1>a. ASSUME queue # <<>> PROVE queue[1] = Head(queue) /\ Head(queue) \in Task
                                /\ Tail(queue) \in Seq(Task)
  BY <1>1, <1>a, TailFacts
<1>b. ASSUME queue # <<>>, Head(queue).type # "decode" PROVE CalledBack(Tail(queue), decodeQueue)
  <2>1. decodeQueue # <<>> => decodeQueue[1] \in Requests
    BY <1>1, TailFacts
  <2>2. decodeQueue # <<>> => queue[1] # Decode(decodeQueue[1])
    BY <1>a, <1>b, <2>1, Tasks
  <2> QED
    BY <1>1, <1>b, <2>2, CallbacksAdvance
<1>11. ASSUME RunBootstrap PROVE CalledBack(p, e)
  <2>1. queue # <<>> /\ Head(queue).type # "decode" /\ p = Tail(queue) /\ e = decodeQueue
    BY <1>11 DEF RunBootstrap, IsNext
  <2> QED
    BY <1>b, <2>1
<1>12. ASSUME RunMessage PROVE CalledBack(p, e)
  <2>1. queue # <<>> /\ Head(queue).type # "decode" /\ e = decodeQueue
        /\ (p = Tail(queue) \/ p = Append(Tail(queue), Head(queue)))
    BY <1>12 DEF RunMessage, IsNext, Requeued
  <2>2. CalledBack(Tail(queue), decodeQueue)
    BY <1>b, <2>1
  <2>3. CASE p = Append(Tail(queue), Head(queue))
    <3> DEFINE q == Tail(queue)
               t == Head(queue)
    <3>1. q \in Seq(Task) /\ t \in Task
      BY <1>a, <2>1
    <3> HIDE DEF q, t
    <3>2. Len(Append(q, t)) = Len(q) + 1 /\ (\A i \in 1..Len(q) : Append(q, t)[i] = q[i])
          /\ Append(q, t) \in Seq(Task) /\ Len(q) \in Nat
      BY <3>1, AppendFacts, LenProperties
    <3>3. Len(Append(q, t)) >= Len(q)
      BY <3>2
    <3>4. CalledBack(q, decodeQueue)
      BY <2>2 DEF q
    <3>5. CalledBack(Append(q, t), decodeQueue)
      BY <1>1, <3>1, <3>2, <3>3, <3>4, CallbacksStay
    <3> QED
      BY <2>1, <2>3, <3>5 DEF q, t
  <2> QED
    BY <2>1, <2>2, <2>3
<1>13. ASSUME RunDecode PROVE CalledBack(p, e)
  <2> DEFINE r == Head(queue).request
  <2>1. queue # <<>> /\ Head(queue).type = "decode" /\ p = Tail(queue) /\ e = Deliver(r)
    BY <1>13 DEF RunDecode, IsNext
  <2>2. CASE decodeQueue # <<>> /\ Head(decodeQueue) = r
    <3>1. e = Tail(decodeQueue)
      BY <2>1, <2>2 DEF Deliver
    <3> QED
      BY <1>1, <2>1, <2>2, <3>1, FirstDelivered
  <2>3. CASE ~(decodeQueue # <<>> /\ Head(decodeQueue) = r)
    <3>1. e = decodeQueue
      BY <2>1, <2>3 DEF Deliver
    <3>2. ASSUME decodeQueue # <<>> PROVE queue[1] # Decode(decodeQueue[1])
      <4>1. decodeQueue[1] = Head(decodeQueue) /\ Head(decodeQueue) # r
        BY <1>1, <2>3, <3>2, TailFacts
      <4>2. \A x : Decode(x).request = x
        BY DEF Decode
      <4> QED
        BY <1>a, <2>1, <4>1, <4>2
    <3> QED
      BY <1>1, <2>1, <3>1, <3>2, CallbacksAdvance
  <2> QED
    BY <2>2, <2>3
<1>14. ASSUME UNCHANGED runLoopVars PROVE CalledBack(p, e)
  BY <1>5, <1>14
<1> QED
  BY <1>6, <1>7, <1>8, <1>9, <1>10, <1>11, <1>12, <1>13, <1>14 DEF RunLoopNext, RunTask


LEMMA HeldBehind ==
  ASSUME NEW S, NEW s \in Seq(S), NEW x \in S
  PROVE  \A y : Holds(Append(s, x), y) <=> Holds(s, y) \/ y = x
BY AppendHolds DEF Holds

LEMMA HeldWithin ==
  ASSUME NEW S, NEW s \in Seq(S), NEW t \in Seq(S)
  PROVE  s \o t \in Seq(S) /\ \A y : Holds(s \o t, y) <=> Holds(s, y) \/ Holds(t, y)
<1> DEFINE u == s \o t
<1>1. /\ u \in Seq(S) /\ Len(s) \in Nat /\ Len(t) \in Nat
      /\ DOMAIN s = 1..Len(s) /\ DOMAIN t = 1..Len(t) /\ DOMAIN u = 1..(Len(s) + Len(t))
      /\ \A i \in 1..Len(s) : u[i] = s[i]
      /\ \A i \in 1..Len(t) : u[Len(s) + i] = t[i]
  BY ConcatElements, LenProperties
<1> HIDE DEF u
<1>3. ASSUME NEW i \in DOMAIN u
      PROVE  i \in DOMAIN s \/ (i - Len(s) \in DOMAIN t /\ i = Len(s) + (i - Len(s)))
  BY <1>1
<1>4. \A i \in DOMAIN s : i \in DOMAIN u
  BY <1>1
<1>5. \A i \in DOMAIN t : Len(s) + i \in DOMAIN u
  BY <1>1
<1>2. \A y : Holds(u, y) <=> Holds(s, y) \/ Holds(t, y)
  BY <1>1, <1>3, <1>4, <1>5 DEF Holds
<1> QED
  BY <1>1, <1>2 DEF u

LEMMA HeldAfter ==
  ASSUME NEW S, NEW s \in Seq(S), s # <<>>
  PROVE  \A y : Holds(s, y) => y = Head(s) \/ Holds(Tail(s), y)
<1> DEFINE t == Tail(s)
<1>1. /\ Len(s) \in Nat \ {0} /\ DOMAIN s = 1..Len(s) /\ DOMAIN t = 1..(Len(s) - 1)
      /\ \A i \in 1..(Len(s) - 1) : t[i] = s[i + 1]
  BY OneLess
<1>2. Head(s) = s[1]
  BY TailFacts
<1> HIDE DEF t
<1>3. ASSUME NEW i \in DOMAIN s, i # 1 PROVE i - 1 \in DOMAIN t /\ t[i - 1] = s[i]
  BY <1>1, <1>3
<1> QED
  BY <1>2, <1>3 DEF Holds, t

LEMMA MessagesStayKept ==
  ASSUME RunLoopInv, RunLoopTyped', MessagesKept, [RunLoopNext]_runLoopVars
  PROVE  MessagesKept'
<1> SUFFICES ASSUME ~m_terminated' PROVE MessagesKept'
  BY DEF MessagesKept
<1> USE DEF workerVars, decodeVars, runLoopVars
<1> DEFINE Kept(n) == \/ Holds(performed, n)
                      \/ Holds(queue, Message(n))
                      \/ Holds(earlyTasks, Message(n))
<1>1. /\ queue \in Seq(Task) /\ earlyTasks \in Seq(Task) /\ performed \in Seq(1..MaxMessages)
      /\ posted \in Seq(Workers) /\ worker \in Workers /\ m_terminated \in BOOLEAN
      /\ Len(posted) \in Nat /\ Len(posted) <= MaxMessages
  BY LenProperties DEF RunLoopInv, RunLoopTyped
<1>2. ~m_terminated
  BY <1>1 DEF RunLoopNext, PostMessage, StartWorkerGlobalScope, Terminate, DispatchDecode, Stop,
              RunTask, RunBootstrap, RunMessage, RunDecode
<1>3. /\ worker # "loading" => earlyTasks = <<>>
      /\ \A n \in 1..Len(posted) : Kept(n)
  BY <1>2 DEF MessagesKept
<1>4. ASSUME UNCHANGED posted,
             worker' # "loading" => earlyTasks' = <<>>,
             \A n \in 1..Len(posted) : Kept(n) => Kept(n)'
      PROVE  MessagesKept'
  BY <1>3, <1>4 DEF MessagesKept
<1>5. \A n \in 1..Len(posted) : Message(n) \in Task
  BY <1>1, Tasks, BoundAssumption
<1>6. ASSUME PostMessage PROVE MessagesKept'
  <2> DEFINE k == Len(posted) + 1
  <2>1. /\ Len(posted') = k /\ k \in 1..MaxMessages
        /\ \A n \in 1..k : n \in 1..Len(posted) \/ n = k
    <3>1. Len(posted') = k /\ Len(posted) < MaxMessages
      BY <1>1, <1>6, OneMore DEF PostMessage
    <3> QED
      BY <1>1, <3>1, BoundAssumption
  <2>2. Message(k) \in Task
    BY <2>1, Tasks
  <2>3. UNCHANGED <<performed, worker>>
    BY <1>6 DEF PostMessage
  <2> HIDE DEF k
  <2>4. CASE worker = "loading"
    <3>1. earlyTasks' = Append(earlyTasks, Message(k)) /\ queue' = queue
      BY <1>6, <2>1, <2>4 DEF PostMessage
    <3>2. \A y : Holds(earlyTasks', y) <=> Holds(earlyTasks, y) \/ y = Message(k)
      BY <1>1, <2>2, <3>1, HeldBehind
    <3>3. \A n \in 1..k : Kept(n)'
      BY <1>3, <2>1, <2>3, <3>1, <3>2
    <3> QED
      BY <2>1, <2>3, <2>4, <3>3 DEF MessagesKept
  <2>5. CASE worker # "loading"
    <3>1. queue' = Append(queue, Message(k)) /\ earlyTasks' = earlyTasks
      BY <1>6, <2>1, <2>5 DEF PostMessage
    <3>2. \A y : Holds(queue', y) <=> Holds(queue, y) \/ y = Message(k)
      BY <1>1, <2>2, <3>1, HeldBehind
    <3>3. \A n \in 1..k : Kept(n)'
      BY <1>3, <2>1, <2>3, <3>1, <3>2
    <3> QED
      BY <1>3, <2>1, <2>3, <2>5, <3>1, <3>3 DEF MessagesKept
  <2> QED
    BY <2>4, <2>5
<1>7. ASSUME StartWorkerGlobalScope PROVE MessagesKept'
  <2>1. UNCHANGED <<posted, performed>> /\ earlyTasks' = <<>> /\ queue' = queue \o Startup
    BY <1>7 DEF StartWorkerGlobalScope
  <2>2. Startup \in Seq(Task) /\ \A y : Holds(earlyTasks, y) => Holds(Startup, y)
    <3>1. <<Bootstrap>> \in Seq(Task)
      BY Tasks, SingletonSeq
    <3> QED
      BY <1>1, <3>1, HeldWithin DEF Startup
  <2>3. \A y : Holds(queue, y) \/ Holds(Startup, y) => Holds(queue', y)
    BY <1>1, <2>1, <2>2, HeldWithin
  <2>4. \A n \in 1..Len(posted) : Kept(n) => Kept(n)'
    BY <2>1, <2>2, <2>3
  <2> QED
    BY <1>4, <2>1, <2>4
<1>8. ASSUME Terminate PROVE FALSE
  BY <1>8 DEF Terminate
<1>9. ASSUME NEW r \in Requests, DispatchDecode(r) PROVE MessagesKept'
  <2>1. UNCHANGED <<posted, performed, worker, earlyTasks>>
        /\ (queue' = Append(queue, Decode(r)) \/ queue' = queue)
    BY <1>9 DEF DispatchDecode
  <2>2. \A y : Holds(queue, y) => Holds(queue', y)
    <3>1. Decode(r) \in Task
      BY Tasks
    <3> QED
      <4>1. CASE queue' = Append(queue, Decode(r))
        BY <1>1, <3>1, <4>1, HeldBehind
      <4>2. CASE queue' = queue
        BY <4>2
      <4> QED
        BY <2>1, <4>1, <4>2
  <2>3. \A n \in 1..Len(posted) : Kept(n) => Kept(n)'
    BY <2>1, <2>2
  <2> QED
    BY <1>3, <1>4, <2>1, <2>3
<1>10. ASSUME Stop \/ UNCHANGED runLoopVars PROVE MessagesKept'
  <2>1. UNCHANGED <<posted, performed, worker, earlyTasks, queue>>
    BY <1>10 DEF Stop
  <2> QED
    BY <1>3, <1>4, <2>1
\* What leaves the loop is no message.
<1>12. ASSUME queue # <<>>, Head(queue).type # "message", queue' = Tail(queue),
              UNCHANGED <<posted, performed, earlyTasks>>
       PROVE  \A n \in 1..Len(posted) : Kept(n) => Kept(n)'
  <2>1. \A n \in 1..Len(posted) : Message(n) # Head(queue)
    BY <1>12 DEF Message
  <2>2. \A n \in 1..Len(posted) : Holds(queue, Message(n)) => Holds(queue', Message(n))
    BY <1>1, <1>12, <2>1, HeldAfter
  <2> QED
    BY <1>12, <2>2
<1>13. ASSUME RunBootstrap PROVE MessagesKept'
  <2>1. /\ queue # <<>> /\ Head(queue).type = "bootstrap" /\ queue' = Tail(queue)
        /\ UNCHANGED <<posted, performed, earlyTasks>>
    BY <1>13 DEF RunBootstrap, IsNext
  <2>2. \A n \in 1..Len(posted) : Kept(n) => Kept(n)'
    BY <1>12, <2>1
  <2>3. worker # "loading"
    <3>1. 1 \in DOMAIN queue /\ queue[1] = Head(queue)
      BY <1>1, <2>1, OneLess, TailFacts
    <3>2. worker = "loading" => queue[1].type = "decode"
      BY <1>2, <3>1 DEF RunLoopInv, WorkerLined, EarlyKept
    <3> QED
      BY <2>1, <3>1, <3>2
  <2> QED
    BY <1>3, <1>4, <2>1, <2>2, <2>3
<1>14. ASSUME RunDecode PROVE MessagesKept'
  <2>1. /\ queue # <<>> /\ Head(queue).type = "decode" /\ queue' = Tail(queue)
        /\ UNCHANGED <<posted, performed, earlyTasks, worker>>
    BY <1>14 DEF RunDecode, IsNext
  <2> QED
    BY <1>3, <1>4, <1>12, <2>1
<1>15. ASSUME RunMessage PROVE MessagesKept'
  <2> DEFINE t == Head(queue)
  <2>1. /\ queue # <<>> /\ t.type = "message"
        /\ UNCHANGED <<posted, earlyTasks, worker>>
    BY <1>15 DEF RunMessage, IsNext
  <2>2. Tail(queue) \in Seq(Task) /\ t \in Task
        /\ \A y : Holds(queue, y) => y = t \/ Holds(Tail(queue), y)
    BY <1>1, <2>1, HeadAndTail, HeldAfter
  <2>3. CASE worker # "scope"
    <3>1. queue' = Append(Tail(queue), t) /\ performed' = performed
      BY <1>2, <1>15, <2>3 DEF RunMessage, Requeued
    <3>2. \A y : Holds(queue, y) => Holds(queue', y)
      BY <2>2, <3>1, HeldBehind
    <3>3. \A n \in 1..Len(posted) : Kept(n) => Kept(n)'
      BY <2>1, <3>1, <3>2
    <3> QED
      BY <1>3, <1>4, <2>1, <3>3
  <2>4. CASE worker = "scope"
    <3>1. queue' = Tail(queue) /\ performed' = Append(performed, t.message)
      BY <1>2, <1>15, <2>4 DEF RunMessage
    <3>2. t.message \in 1..MaxMessages
      BY <2>1, <2>2, Tasks
    <3>3. \A y : Holds(performed', y) <=> Holds(performed, y) \/ y = t.message
      <4> DEFINE S == 1..MaxMessages
                 n == t.message
      <4>1. n \in S /\ performed \in Seq(S)
        BY <1>1, <3>2
      <4> HIDE DEF S, n
      <4>2. \A y : Holds(Append(performed, n), y) <=> Holds(performed, y) \/ y = n
        BY <4>1, HeldBehind
      <4> QED
        BY <3>1, <4>2 DEF n
    <3>4. \A n \in 1..Len(posted) : Message(n) = t => n = t.message
      BY DEF Message
    <3>5. \A n \in 1..Len(posted) : Kept(n) => Kept(n)'
      <4> HIDE DEF t
      <4> QED
        BY <2>1, <2>2, <3>1, <3>3, <3>4
    <3> QED
      BY <1>3, <1>4, <2>1, <3>5
  <2> QED
    BY <2>3, <2>4
<1> QED
  BY <1>6, <1>7, <1>8, <1>9, <1>10, <1>13, <1>14, <1>15 DEF RunLoopNext, RunTask

\* What the one run loop owes is never lost: a posted message is handled, on the loop or
\* kept by the proxy until there is a thread, unless its worker is terminated; and every
\* queued decode has a callback of its own to come, in the order of the queue, however
\* dispatches, stops and equal requests mix (postTaskForMode, startWorkerGlobalScope,
\* ImageFrameWorkQueue::dispatch and stop).
THEOREM NothingIsForgotten == RunLoopSpec => []NothingForgotten
<1>1. RunLoopInit => NothingForgotten
  <2>1. ASSUME RunLoopInit PROVE MessagesKept /\ DecodesCalledBack
    <3>1. <<>> \in Seq(Task) /\ 1..Len(<<>>) = {}
      BY EmptySeq
    <3>2. DecodesCalledBack
      BY <2>1, <3>1, NothingToDecode DEF RunLoopInit, DecodesCalledBack
    <3>3. MessagesKept
      BY <2>1, <3>1 DEF RunLoopInit, MessagesKept
    <3> QED
      BY <3>2, <3>3
  <2> QED
    BY <2>1 DEF NothingForgotten
<1>2. RunLoopInv /\ RunLoopInv' /\ NothingForgotten /\ [RunLoopNext]_runLoopVars
        => NothingForgotten'
  BY MessagesStayKept, DecodesKept DEF NothingForgotten, RunLoopInv
<1> QED
  BY <1>1, <1>2, RunLoopInvariance, PTL DEF RunLoopSpec
=============================================================================
