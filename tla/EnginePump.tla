----------------------------- MODULE EnginePump -----------------------------
(***************************************************************************)
(* What makes the engine run: the page's proxied entries with their burst- *)
(* collapsing flags, the worker-local wake-up and timer, the RunLoop they  *)
(* cycle, and the CurlRequestScheduler pump that lives on it.              *)
(*                                                                         *)
(* Two threads: the page (rAF ticks, socket bytes and their pokes) and the *)
(* engine, which runs one task at a time.  No thread waits for another, so *)
(* every hand-over rests on a flag, a queued message or a timer.           *)
(*                                                                         *)
(* Time is relative: a timer is the number of clock steps left, Never when *)
(* it is not armed.                                                        *)
(***************************************************************************)
EXTENDS Integers, Sequences

CONSTANTS
  MaxImmediatePumpBurst,  \* maxImmediatePumpBurst (16)
  PollDelay,              \* maxPollDelayMs, in clock steps
  GuestDelay,             \* a DOM timer's delay, longer than PollDelay
  Never,                  \* a timer that is not armed
  MaxWork                 \* bound: times the guest asks for something

ASSUME PumpAssumption ==
  /\ MaxImmediatePumpBurst \in Nat
  /\ PollDelay \in Nat \ {0} /\ GuestDelay \in Nat /\ PollDelay < GuestDelay
  /\ Never \notin Nat
  /\ MaxWork \in Nat

VARIABLES
  \* page thread
  pageAt,           \* what its current call of an export is about to do
  netPumpScheduled, \* and its message is in netPumpChannel
  \* shared with the engine thread
  ready,            \* g_engineThreadReady
  tickQueued, netPumpQueued,
  proxyQueue,       \* the system proxying queue of the engine thread
  \* engine thread
  engineAt,         \* where its current task is
  wakeUp,           \* pumpScheduled of engine-pre.js, its message in pumpChannel
  pumpTimer,        \* the one host setTimeout
  \* engine: RunLoop
  tasks,            \* dispatched, not started: pumps and other tasks
  cycle,            \* what the cycle under way still has to run
  guestTimer,       \* a DOM timer
  pollTimer,        \* the scheduler's dispatchAfter
  \* engine: CurlRequestScheduler
  pumpScheduled, pumpTimerArmed, immediatePumpBurst,
  taskQueue,        \* start or finalize tasks are queued
  activeJobs,       \* transfers are under way
  unread,           \* socket bytes SOCKFS has buffered
  \* bookkeeping of the model
  work

pageVars == <<pageAt, netPumpScheduled>>
proxyVars == <<ready, tickQueued, netPumpQueued, proxyQueue>>
hostVars == <<wakeUp, pumpTimer>>
loopVars == <<tasks, cycle, guestTimer, pollTimer>>
curlVars == <<pumpScheduled, pumpTimerArmed, immediatePumpBurst, taskQueue, activeJobs>>
vars == <<pageVars, proxyVars, engineAt, hostVars, loopVars, curlVars, unread, work>>

Timer == Nat \cup {Never}
Batch == [pumps : Nat, others : Nat, poll : BOOLEAN, guest : BOOLEAN]
Nothing == [pumps |-> 0, others |-> 0, poll |-> FALSE, guest |-> FALSE]

\* Types; and one queued entry of each kind at most: "a pegged engine never
\* accumulates a task backlog".
TypeOK ==
  /\ pageAt \in {"idle", "proxyTick", "proxyNet"}
  /\ netPumpScheduled \in BOOLEAN /\ ready \in BOOLEAN
  /\ tickQueued \in BOOLEAN /\ netPumpQueued \in BOOLEAN
  /\ proxyQueue \in Seq({"tick", "net"})
  /\ \A i, j \in DOMAIN proxyQueue : i # j => proxyQueue[i] # proxyQueue[j]
  /\ engineAt \in {"idle", "tick", "net", "hostPump", "cycle", "inCycle"}
  /\ wakeUp \in BOOLEAN /\ pumpTimer \in Timer
  /\ tasks \in [pumps : Nat, others : Nat]
  /\ cycle \in Batch
  /\ guestTimer \in Timer /\ pollTimer \in Timer
  /\ pumpScheduled \in BOOLEAN /\ pumpTimerArmed \in BOOLEAN
  /\ immediatePumpBurst \in 0..MaxImmediatePumpBurst
  /\ taskQueue \in BOOLEAN /\ activeJobs \in BOOLEAN /\ unread \in BOOLEAN
  /\ work \in 0..MaxWork

Init ==
  /\ pageAt = "idle" /\ netPumpScheduled = FALSE
  /\ ready = FALSE /\ tickQueued = FALSE /\ netPumpQueued = FALSE
  /\ proxyQueue = <<>>
  /\ engineAt = "idle" /\ wakeUp = FALSE /\ pumpTimer = Never
  /\ tasks = [pumps |-> 0, others |-> 0] /\ cycle = Nothing
  /\ guestTimer = Never /\ pollTimer = Never
  /\ pumpScheduled = FALSE /\ pumpTimerArmed = FALSE /\ immediatePumpBurst = 0
  /\ taskQueue = FALSE /\ activeJobs = FALSE /\ unread = FALSE
  /\ work = 0

\* main() has published its thread.
Main ==
  /\ ~ready
  /\ ready' = TRUE
  /\ UNCHANGED <<pageVars, tickQueued, netPumpQueued, proxyQueue, engineAt,
                 hostVars, loopVars, curlVars, unread, work>>

-----------------------------------------------------------------------------
(* The page *)

\* flag.exchange(true): one call already pending takes this one in.
Collapses(flag) == flag

\* bib_tick from the rAF loop: collapse the burst or go on to proxy.
CallTick ==
  /\ pageAt = "idle"
  /\ ~Collapses(tickQueued)
  /\ tickQueued' = TRUE
  /\ pageAt' = "proxyTick"
  /\ UNCHANGED <<netPumpScheduled, ready, netPumpQueued, proxyQueue, engineAt,
                 hostVars, loopVars, curlVars, unread, work>>

\* Bytes arrive on a wisp stream, of a transfer or of a WebSocket that curl's
\* multi handle knows nothing of: scheduleNetPump.
BytesArrive ==
  /\ pageAt = "idle" /\ ready
  /\ unread' \in {unread, activeJobs}
  /\ netPumpScheduled' = TRUE
  /\ UNCHANGED <<pageAt, proxyVars, engineAt, hostVars, loopVars, curlVars, work>>

\* netPumpChannel's handler: bib_pump_network.
NetPumpMessage ==
  /\ pageAt = "idle" /\ netPumpScheduled
  /\ netPumpScheduled' = FALSE
  /\ netPumpQueued' = TRUE
  /\ pageAt' = IF Collapses(netPumpQueued) THEN "idle" ELSE "proxyNet"
  /\ UNCHANGED <<ready, tickQueued, proxyQueue, engineAt, hostVars, loopVars,
                 curlVars, unread, work>>

StaysRaised(flag, mine) == flag
\* The flag of a dropped call comes down again, the other one is left alone.
Dropped(flag, mine) == flag /\ ~mine

\* bibProxyToEngine: before main() the call is dropped and the flag reset.
Proxy(at, entry) ==
  /\ pageAt = at
  /\ pageAt' = "idle"
  /\ IF ready
     THEN proxyQueue' = Append(proxyQueue, entry) /\ UNCHANGED <<tickQueued, netPumpQueued>>
     ELSE /\ UNCHANGED proxyQueue
          /\ tickQueued' = Dropped(tickQueued, entry = "tick")
          /\ netPumpQueued' = Dropped(netPumpQueued, entry = "net")
  /\ UNCHANGED <<netPumpScheduled, ready, engineAt, hostVars, loopVars, curlVars,
                 unread, work>>

ProxyTick == Proxy("proxyTick", "tick")
ProxyNet == Proxy("proxyNet", "net")

-----------------------------------------------------------------------------
(* Engine tasks: what starts them *)

\* The thread takes a proxied entry when it is back in its event loop.
TakeProxied ==
  /\ engineAt = "idle" /\ proxyQueue # <<>>
  /\ engineAt' = Head(proxyQueue)
  /\ proxyQueue' = Tail(proxyQueue)
  /\ UNCHANGED <<pageVars, ready, tickQueued, netPumpQueued, hostVars, loopVars,
                 curlVars, unread, work>>

\* bibRunTick: the flag is free before the body starts.
RunTick ==
  /\ engineAt = "tick"
  /\ tickQueued' = FALSE
  /\ engineAt' = "cycle"
  /\ UNCHANGED <<pageVars, ready, netPumpQueued, proxyQueue, hostVars, loopVars,
                 curlVars, unread, work>>

\* bibRunNetPump: likewise.
RunNetPump ==
  /\ engineAt = "net"
  /\ netPumpQueued' = FALSE
  /\ engineAt' = "hostPump"
  /\ UNCHANGED <<pageVars, ready, tickQueued, proxyQueue, hostVars, loopVars,
                 curlVars, unread, work>>

\* pumpChannel's handler in the worker: bib_pump on the engine's own thread.
WakeUpMessage ==
  /\ engineAt = "idle" /\ wakeUp
  /\ wakeUp' = FALSE
  /\ engineAt' = "cycle"
  /\ UNCHANGED <<pageVars, proxyVars, pumpTimer, loopVars, curlVars, unread, work>>

\* The setTimeout of bibArmTimer, on time or late.
PumpTimerFires ==
  /\ engineAt = "idle" /\ pumpTimer = 0
  /\ pumpTimer' = Never
  /\ engineAt' = "cycle"
  /\ UNCHANGED <<pageVars, proxyVars, wakeUp, loopVars, curlVars, unread, work>>

\* Module.bibArmTimer(ms): a later request than the armed one is dropped.
ArmTimer(ms) ==
  pumpTimer' = IF pumpTimer # Never /\ ms >= pumpTimer THEN pumpTimer ELSE ms

-----------------------------------------------------------------------------
(* CurlRequestScheduler on the RunLoop *)

StartWithoutWakeUp ==
  /\ pumpScheduled' = TRUE
  /\ tasks' = [tasks EXCEPT !.pumps = IF pumpScheduled THEN @ ELSE @ + 1]
  /\ UNCHANGED wakeUp
\* startOrWakeUpThread; every dispatch wakes the RunLoop, which pokes bibWakeUp.
StartOrWakeUpThread ==
  /\ pumpScheduled' = TRUE
  /\ IF pumpScheduled THEN UNCHANGED <<tasks, wakeUp>>
     ELSE /\ tasks' = [tasks EXCEPT !.pumps = @ + 1]
          /\ wakeUp' = TRUE

\* What a pass dispatches: the callbacks of what it read, which never run inside
\* curl (runOnMainThread), and perhaps the next pass.
Dispatch(pumps) ==
  LET others == IF unread THEN 1 ELSE 0 IN
  /\ tasks' = [pumps |-> tasks.pumps + pumps, others |-> tasks.others + others]
  /\ wakeUp' = (wakeUp \/ pumps + others > 0 \/ pollTimer' # pollTimer)

OneBurstMore == immediatePumpBurst <= MaxImmediatePumpBurst
\* ++m_immediatePumpBurst <= maxImmediatePumpBurst
BurstGoesOn == immediatePumpBurst < MaxImmediatePumpBurst
NotCounted == 0
Counted == immediatePumpBurst + 1

\* One pass: run queued tasks, let libcurl read what there is, complete some
\* transfers.  armed is m_pumpTimerArmed as the pass finds it.
PumpMainThread(armed) ==
  /\ taskQueue' = FALSE
  /\ unread' = FALSE
  /\ activeJobs' \in {activeJobs \/ taskQueue, FALSE}
  /\ \/ \* no more work
        /\ ~activeJobs'
        /\ pumpScheduled' = FALSE /\ pumpTimerArmed' = armed
        /\ UNCHANGED <<pollTimer, immediatePumpBurst>>
        /\ Dispatch(0)
     \/ \* curl_multi_timeout says 0: again at once
        /\ activeJobs' /\ BurstGoesOn
        /\ immediatePumpBurst' = Counted
        /\ pumpScheduled' = TRUE /\ pumpTimerArmed' = armed
        /\ UNCHANGED pollTimer
        /\ Dispatch(1)
     \/ \* it says later, or the burst is over: through the timer
        /\ activeJobs'
        /\ immediatePumpBurst' = 0
        /\ pumpScheduled' = FALSE /\ pumpTimerArmed' = TRUE
        /\ pollTimer' = IF armed THEN pollTimer ELSE PollDelay
        /\ Dispatch(0)

\* bib_pump_network's body: hostPump, then a cycle.
HostPump ==
  /\ engineAt = "hostPump"
  /\ engineAt' = "cycle"
  /\ PumpMainThread(pumpTimerArmed)
  /\ UNCHANGED <<pageVars, proxyVars, pumpTimer, cycle, guestTimer, work>>

-----------------------------------------------------------------------------
(* RunLoop::cycle: the timers that are due, then what had been dispatched *)

CycleStarts ==
  /\ engineAt = "cycle"
  /\ engineAt' = "inCycle"
  /\ cycle' = [pumps |-> tasks.pumps, others |-> tasks.others,
               poll |-> pollTimer = 0, guest |-> guestTimer = 0]
  /\ tasks' = [pumps |-> 0, others |-> 0]
  /\ pollTimer' = IF pollTimer = 0 THEN Never ELSE pollTimer
  /\ guestTimer' = IF guestTimer = 0 THEN Never ELSE guestTimer
  /\ UNCHANGED <<pageVars, proxyVars, hostVars, curlVars, unread, work>>

TimersLeft == cycle.poll \/ cycle.guest

\* The callback of the poll timer lowers m_pumpTimerArmed first.
ArmedInCallback == FALSE

CyclePoll ==
  /\ engineAt = "inCycle" /\ cycle.poll
  /\ cycle' = [cycle EXCEPT !.poll = FALSE]
  /\ PumpMainThread(ArmedInCallback)
  /\ UNCHANGED <<pageVars, proxyVars, engineAt, pumpTimer, guestTimer, work>>

CyclePump ==
  /\ engineAt = "inCycle" /\ ~TimersLeft /\ cycle.pumps > 0
  /\ cycle' = [cycle EXCEPT !.pumps = @ - 1]
  /\ PumpMainThread(pumpTimerArmed)
  /\ UNCHANGED <<pageVars, proxyVars, engineAt, pumpTimer, guestTimer, work>>

\* What guest code asks for: nothing, a request or its cancellation, a task, a
\* DOM timer.
GuestWork ==
  \/ UNCHANGED <<hostVars, tasks, guestTimer, pumpScheduled, taskQueue, work>>
  \/ /\ work < MaxWork /\ work' = work + 1
     /\ \/ taskQueue' = TRUE /\ StartOrWakeUpThread /\ UNCHANGED <<guestTimer, pumpTimer>>
        \/ /\ tasks' = [tasks EXCEPT !.others = @ + 1] /\ wakeUp' = TRUE
           /\ UNCHANGED <<guestTimer, pumpTimer, pumpScheduled, taskQueue>>
        \/ /\ guestTimer = Never
           /\ guestTimer' \in {0, GuestDelay} /\ wakeUp' = TRUE
           /\ UNCHANGED <<tasks, pumpTimer, pumpScheduled, taskQueue>>

CycleGuest ==
  /\ engineAt = "inCycle"
  /\ \/ cycle.guest /\ cycle' = [cycle EXCEPT !.guest = FALSE]
     \/ ~TimersLeft /\ cycle.others > 0 /\ cycle' = [cycle EXCEPT !.others = @ - 1]
  /\ GuestWork
  /\ UNCHANGED <<pageVars, proxyVars, engineAt, pollTimer, pumpTimerArmed,
                 immediatePumpBurst, activeJobs, unread>>

\* The RunLoopGeneric hook: the earliest timer left is handed to the host.
CycleEnds ==
  /\ engineAt = "inCycle" /\ cycle = Nothing
  /\ engineAt' = "idle"
  /\ IF guestTimer = Never /\ pollTimer = Never THEN UNCHANGED pumpTimer
     ELSE ArmTimer(IF guestTimer = Never \/ (pollTimer # Never /\ pollTimer <= guestTimer)
                   THEN pollTimer ELSE guestTimer)
  /\ UNCHANGED <<pageVars, proxyVars, wakeUp, loopVars, curlVars, unread, work>>

\* An input entry, proxied without collapsing: guest code outside any cycle.
Input ==
  /\ ready /\ engineAt = "idle"
  /\ GuestWork
  /\ UNCHANGED <<pageVars, proxyVars, engineAt, cycle, pollTimer, pumpTimerArmed,
                 immediatePumpBurst, activeJobs, unread>>

-----------------------------------------------------------------------------
\* The clock, for whatever is armed.
Less(t) == IF t = Never \/ t = 0 THEN t ELSE t - 1
ClockSteps ==
  /\ \E t \in {pumpTimer, guestTimer, pollTimer} : t # Never /\ t > 0
  /\ pumpTimer' = Less(pumpTimer)
  /\ guestTimer' = Less(guestTimer)
  /\ pollTimer' = Less(pollTimer)
  /\ UNCHANGED <<pageVars, proxyVars, engineAt, wakeUp, tasks, cycle, curlVars,
                 unread, work>>

Next ==
  \/ Main
  \/ CallTick \/ BytesArrive \/ NetPumpMessage \/ ProxyTick \/ ProxyNet
  \/ TakeProxied \/ RunTick \/ RunNetPump \/ WakeUpMessage \/ PumpTimerFires
  \/ HostPump
  \/ CycleStarts \/ CyclePoll \/ CyclePump \/ CycleGuest \/ CycleEnds
  \/ Input \/ ClockSteps

Spec == Init /\ [][Next]_vars

\* Both event loops run what is queued, tasks come to their end and time passes.
\* The rAF loop owes nothing: the tab may be hidden.
Fairness ==
  /\ WF_vars(NetPumpMessage) /\ WF_vars(ProxyTick) /\ WF_vars(ProxyNet)
  /\ WF_vars(TakeProxied) /\ WF_vars(RunTick) /\ WF_vars(RunNetPump)
  /\ WF_vars(WakeUpMessage) /\ WF_vars(PumpTimerFires)
  /\ WF_vars(HostPump)
  /\ WF_vars(CycleStarts) /\ WF_vars(CyclePoll) /\ WF_vars(CyclePump)
  /\ WF_vars(CycleGuest) /\ WF_vars(CycleEnds) /\ WF_vars(ClockSteps)

FairSpec == Spec /\ Fairness

-----------------------------------------------------------------------------
(* Properties *)

\* A collapse flag is never up with nothing behind it: then every later tick or
\* poke would be collapsed into a task that does not exist, and the engine would
\* stand still.  The call that raised it, the queued entry or the entry about to
\* lower it is always there.
CollapseFlagsBacked ==
  /\ tickQueued => pageAt = "proxyTick" \/ engineAt = "tick"
                   \/ \E i \in DOMAIN proxyQueue : proxyQueue[i] = "tick"
  /\ netPumpQueued => pageAt = "proxyNet" \/ engineAt = "net"
                      \/ \E i \in DOMAIN proxyQueue : proxyQueue[i] = "net"

\* A poke is never lost: bytes the engine has not read have a pass ahead of them
\* that is due at once, although pokes are collapsed twice on their way and the
\* engine may be in the middle of an older pass.
PokeNeverLost ==
  unread => \/ netPumpScheduled \/ pageAt = "proxyNet"
            \/ \E i \in DOMAIN proxyQueue : proxyQueue[i] = "net"
            \/ engineAt \in {"net", "hostPump"}

\* The engine never returns to its event loop with RunLoop work and no way to be
\* called back: dispatched tasks have a wake-up, a timer has the host's timeout at
\* or before it.
RunLoopCalledBack ==
  engineAt = "idle" =>
    /\ tasks.pumps + tasks.others > 0 => wakeUp
    /\ \A t \in {guestTimer, pollTimer} :
         t # Never => wakeUp \/ (pumpTimer # Never /\ pumpTimer <= t)

\* While curl has work another pass is dispatched, in a timer, or running.
TransfersDriven ==
  taskQueue \/ activeJobs =>
    tasks.pumps + cycle.pumps > 0 \/ pollTimer # Never \/ cycle.poll

\* Whatever the threads, the flags and the timers were in the middle of: the engine
\* never sleeps on work.
NothingStranded ==
  CollapseFlagsBacked /\ PokeNeverLost /\ RunLoopCalledBack /\ TransfersDriven

\* Hidden tab or not, what the guest asked curl for is taken up, and its timers
\* fire.
WorkTakenUp ==
  /\ taskQueue ~> ~taskQueue
  /\ guestTimer # Never ~> guestTimer = Never

\* "Chaining immediate dispatches would saturate the host event loop": however
\* long libcurl answers "perform again now", the chain of passes ends or leaves
\* the next one to a timer, again and again.
PumpYields == []<>(pollTimer # Never \/ tasks.pumps + cycle.pumps = 0)
=============================================================================
