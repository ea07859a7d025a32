----------------------------- MODULE GpuPresent -----------------------------
(***************************************************************************)
(* The zero-copy GPU present path and its context-loss recovery.           *)
(*                                                                         *)
(* Two actors that share no lock: the engine pthread (bib_tick, the GL     *)
(* event handlers, port1 of the present channel) and the page's main       *)
(* thread (port2 and the #screen bitmaprenderer).  What is drawn is        *)
(* abstracted to a version number: content is the version layout would     *)
(* paint now, a frame is the version of the texture it was taken from, and *)
(* Blank stands for whatever a lost or freshly rebuilt GL surface holds.   *)
(***************************************************************************)
EXTENDS Integers, Sequences

CONSTANTS
  EngineDepth,  \* maxInFlight as engine-pre.js initialises it (3)
  PageDepth,    \* the depth the page configures on bind (?inflight=N, 1..8)
  MaxVersion,   \* bound: how often the guest changes what it shows
  MaxFaults     \* bound: transient paint/present/transfer/composite failures

ASSUME DepthAssumption ==
  /\ EngineDepth \in Nat \ {0}
  /\ PageDepth \in 1..8
ASSUME BoundAssumption ==
  /\ MaxVersion \in Nat \ {0}
  /\ MaxFaults \in Nat

Blank == 0

VARIABLES
  \* engine: what there is to show and what has been painted
  content,            \* version layout would paint now
  dirty,              \* BIB::g_frameDirty (some damage is queued)
  surface,            \* version held by the persistent texture surface
  firstFramePushed,   \* static in bibPushFrameIfDirty
  \* engine: Module.__bibPresent
  port,               \* port1 exists (the hello has been posted)
  wired,
  inFlight,
  maxInFlight,
  \* the present channel: each direction is FIFO, as MessagePorts are
  hello,              \* the one hello on the raw Worker stream
  frames,             \* port1 -> port2: versions of the posted ImageBitmaps
  acks,               \* port2 -> port1: "config" and "ready" messages
  \* page
  bound,
  screen,             \* version #screen shows
  reloading,          \* location.replace is under way
  gpulost,            \* the page's URL carries ?gpulost=1
  raster,             \* the page's URL carries ?gpu=0: no GPU path any more
  \* GL context and its recovery
  glLive,             \* the context is usable right now
  glEvents,           \* webglcontextlost/restored not handled yet
  gpuLost,            \* g_gpuLost
  deadline,           \* the 8 s restore timer is armed
  reloadPosted,       \* MAIN_THREAD_ASYNC_EM_ASM(bibGpuLostReload) in transit
  \* bookkeeping of the model
  faults,             \* failures so far
  dropped             \* why the newest content may never be presented

engineVars  == <<content, dirty, surface, firstFramePushed>>
presentVars == <<port, wired, inFlight, maxInFlight>>
channelVars == <<hello, frames, acks>>
pageVars    == <<bound, screen, gpulost, raster>>
glVars      == <<glLive, glEvents, gpuLost, deadline, reloadPosted>>
vars == <<engineVars, presentVars, channelVars, pageVars, glVars,
          reloading, faults, dropped>>

Version == Blank..MaxVersion
AckMsg == {"config", "ready"}
GlEvent == {"lost", "restored"}
DropCause == {"readback", "composite"}

TypeOK ==
  /\ content \in Version
  /\ dirty \in BOOLEAN
  /\ surface \in Version
  /\ firstFramePushed \in BOOLEAN
  /\ port \in BOOLEAN
  /\ wired \in BOOLEAN
  /\ inFlight \in Nat
  /\ maxInFlight \in Nat
  /\ hello \in BOOLEAN
  /\ frames \in Seq(Version)
  /\ acks \in Seq(AckMsg)
  /\ bound \in BOOLEAN
  /\ screen \in Version
  /\ reloading \in BOOLEAN
  /\ gpulost \in BOOLEAN
  /\ raster \in BOOLEAN
  /\ glLive \in BOOLEAN
  /\ glEvents \in Seq(GlEvent)
  /\ gpuLost \in BOOLEAN
  /\ deadline \in BOOLEAN
  /\ reloadPosted \in BOOLEAN
  /\ faults \in 0..MaxFaults
  /\ dropped \in SUBSET DropCause

\* What a freshly loaded page starts from: g_frameDirty is TRUE with one
\* all-covering rectangle queued, and no hello has been sent.
Init ==
  /\ content = 1 /\ dirty = TRUE /\ surface = Blank /\ firstFramePushed = FALSE
  /\ port = FALSE /\ wired = FALSE /\ inFlight = 0 /\ maxInFlight = EngineDepth
  /\ hello = FALSE /\ frames = <<>> /\ acks = <<>>
  /\ bound = FALSE /\ screen = Blank
  /\ glLive = TRUE /\ glEvents = <<>> /\ gpuLost = FALSE /\ deadline = FALSE
  /\ reloadPosted = FALSE /\ reloading = FALSE /\ gpulost = FALSE
  /\ raster = FALSE /\ faults = 0 /\ dropped = {}

-----------------------------------------------------------------------------
(* Engine: damage and painting *)

\* The page is up and on the GPU path.
Running == ~reloading /\ ~raster

\* A guest change reaches the chrome client, which queues damage for it.
Invalidate ==
  /\ Running
  /\ content < MaxVersion
  /\ content' = content + 1
  /\ dirty' = TRUE
  /\ dropped' = {}
  /\ UNCHANGED <<surface, firstFramePushed, presentVars, channelVars, pageVars,
                 glVars, reloading, faults>>

\* Module.bibBitmapPresentReady.
BitmapPresentReady == port /\ wired /\ inFlight < maxInFlight

DamageWipedAfterPaint(during) == FALSE
\* clearDamage runs before the paint: damage that view->paint itself reports
\* (during) belongs to the next frame.
DamageAfterPaint(during) == during

\* The frame is painted; the paint may itself change what there is to show.
PaintSurface(force, during) ==
  /\ ~gpuLost
  /\ force \/ dirty
  /\ during => content < MaxVersion
  /\ surface' = IF glLive THEN content ELSE Blank
  /\ content' = IF during THEN content + 1 ELSE content

\* bibPaintGPUIfDirty(force) returning true.
PaintGPUIfDirty(force, during) ==
  /\ PaintSurface(force, during)
  /\ dirty' = DamageAfterPaint(during)

\* One of several failures of a tick; MaxFaults makes them transient.
Fault == faults < MaxFaults /\ faults' = faults + 1

\* bib_tick -> bibPushFrameIfDirty: gate, paint, draw to FBO 0, transfer, post.
Push ==
  /\ Running
  /\ BitmapPresentReady
  /\ \E during \in BOOLEAN :
       /\ PaintGPUIfDirty(~firstFramePushed, during)
       /\ dropped' = {}
  /\ frames' = Append(frames, surface')
  /\ inFlight' = inFlight + 1
  /\ firstFramePushed' = TRUE
  /\ UNCHANGED <<port, wired, maxInFlight, hello, acks, pageVars, glVars,
                 reloading, faults>>

\* The same tick when paintFrameRect finds no view: every rectangle is queued
\* again and nothing is presented.
PushPaintFails ==
  /\ Running
  /\ BitmapPresentReady
  /\ ~gpuLost
  /\ ~firstFramePushed \/ dirty
  /\ Fault
  /\ dirty' = TRUE
  /\ UNCHANGED <<content, surface, firstFramePushed, presentVars, channelVars,
                 pageVars, glVars, reloading, dropped>>

\* The same tick when presentGPUToCanvasFBO or bibTransferCurrentFrameBitmap
\* fails: the texture has been painted, damage is gone, so the whole frame is
\* queued again; inFlight is not charged.
PushPresentFails ==
  /\ Running
  /\ BitmapPresentReady
  /\ Fault
  /\ \E during \in BOOLEAN : PaintSurface(~firstFramePushed, during)
  /\ dirty' = TRUE
  /\ UNCHANGED <<firstFramePushed, presentVars, channelVars, pageVars,
                 glVars, reloading, dropped>>

\* bibRunReadback -> bib_render_readback (the page's probe): a forced full
\* paint that clears the damage and reads the texture back, but presents
\* nothing.
Readback ==
  /\ Running
  /\ \E during \in BOOLEAN :
       /\ PaintGPUIfDirty(TRUE, during)
       /\ dropped' = CASE during -> {}
                       [] ~during /\ dirty -> dropped \cup {"readback"}
                       [] OTHER -> dropped
  /\ UNCHANGED <<firstFramePushed, presentVars, channelVars, pageVars, glVars,
                 reloading, faults>>

-----------------------------------------------------------------------------
(* The present channel *)

\* Module.bibPresentWorkerHello, called once from main().
PresentWorkerHello ==
  /\ Running /\ ~port
  /\ port' = TRUE
  /\ hello' = TRUE
  /\ wired' = FALSE
  /\ inFlight' = 0
  /\ UNCHANGED <<engineVars, maxInFlight, frames, acks, pageVars, glVars,
                 reloading, faults, dropped>>

\* What the page posts on bind: the depth, then the ready that carries no frame.
BindMessages == <<"config", "ready">>
Bind ==
  /\ Running /\ hello /\ ~bound
  /\ hello' = FALSE
  /\ bound' = TRUE
  /\ acks' = acks \o BindMessages
  /\ UNCHANGED <<engineVars, presentVars, frames, screen, gpulost, raster,
                 glVars, reloading, faults, dropped>>

\* port1.onmessage of the engine.
ReceiveConfig ==
  /\ Running
  /\ acks # <<>> /\ Head(acks) = "config"
  /\ acks' = Tail(acks)
  /\ maxInFlight' = PageDepth
  /\ UNCHANGED <<engineVars, port, wired, inFlight, hello, frames, pageVars,
                 glVars, reloading, faults, dropped>>

CreditKept == inFlight
\* A "ready" returns a credit; the first one carries no frame, so the count is
\* clamped at 0.
CreditReturned == IF inFlight > 0 THEN inFlight - 1 ELSE inFlight
ReceiveReady ==
  /\ Running
  /\ acks # <<>> /\ Head(acks) = "ready"
  /\ acks' = Tail(acks)
  /\ wired' = TRUE
  /\ inFlight' = CreditReturned
  /\ UNCHANGED <<engineVars, port, maxInFlight, hello, frames, pageVars,
                 glVars, reloading, faults, dropped>>

\* port2.onmessage of the page: the credit goes back before compositing, and a
\* composite that throws leaves #screen as it was.
ReceiveFrame ==
  /\ Running /\ bound
  /\ frames # <<>>
  /\ frames' = Tail(frames)
  /\ acks' = Append(acks, "ready")
  /\ \/ screen' = Head(frames) /\ UNCHANGED <<faults, dropped>>
     \/ /\ Fault
        /\ screen' = screen
        /\ dropped' = IF Len(frames) = 1 THEN dropped \cup {"composite"}
                                         ELSE dropped
  /\ UNCHANGED <<engineVars, presentVars, hello, bound, gpulost, raster, glVars,
                 reloading>>

-----------------------------------------------------------------------------
(* GL context loss and the in-place recovery *)

\* The browser revokes the context: the texture is gone at once, the event
\* comes later, between two engine tasks.
LoseContext ==
  /\ Running /\ glLive
  /\ glLive' = FALSE
  /\ surface' = Blank
  /\ glEvents' = Append(glEvents, "lost")
  /\ UNCHANGED <<content, dirty, firstFramePushed, presentVars, channelVars,
                 pageVars, gpuLost, deadline, reloadPosted, reloading, faults,
                 dropped>>

\* webglcontextlost: preventDefault, bib_gpu_context_lost, arm the deadline.
HandleLost ==
  /\ Running
  /\ glEvents # <<>> /\ Head(glEvents) = "lost"
  /\ glEvents' = Tail(glEvents)
  /\ gpuLost' = TRUE
  /\ deadline' = TRUE
  /\ UNCHANGED <<engineVars, presentVars, channelVars, pageVars, glLive,
                 reloadPosted, reloading, faults, dropped>>

\* The browser may restore a context whose loss was preventDefault()ed.
RestoreContext ==
  /\ Running /\ ~glLive
  /\ \A i \in DOMAIN glEvents : glEvents[i] # "lost"
  /\ glLive' = TRUE
  /\ glEvents' = Append(glEvents, "restored")
  /\ UNCHANGED <<engineVars, presentVars, channelVars, pageVars, gpuLost,
                 deadline, reloadPosted, reloading, faults, dropped>>

RepaintNotQueued == UNCHANGED <<dirty, dropped>>
\* Everything on the old context is gone: addDamage of the whole frame.
QueueFullRepaint == dirty' = TRUE /\ dropped' = {}

RebuildFailed == reloadPosted' = TRUE

\* bibGpuRebuildAfterRestore: a new surface pair and a full repaint or, when
\* the rebuild fails, a reload request that leaves g_gpuLost set.
GpuRebuildAfterRestore ==
  /\ surface' = Blank
  /\ \/ gpuLost' = FALSE /\ QueueFullRepaint /\ UNCHANGED reloadPosted
     \/ RebuildFailed /\ UNCHANGED <<gpuLost, dirty, dropped>>

\* webglcontextrestored: disarm the deadline, then bib_gpu_context_restored.
HandleRestored ==
  /\ Running
  /\ glEvents # <<>> /\ Head(glEvents) = "restored"
  /\ glEvents' = Tail(glEvents)
  /\ deadline' = FALSE
  /\ IF gpuLost THEN GpuRebuildAfterRestore
                ELSE UNCHANGED <<gpuLost, surface, dirty, dropped, reloadPosted>>
  /\ UNCHANGED <<content, firstFramePushed, presentVars, channelVars, pageVars,
                 glLive, reloading, faults>>

\* The 8 s timer: bib_gpu_restore_timed_out.
RestoreTimedOut ==
  /\ Running /\ deadline
  /\ deadline' = FALSE
  /\ reloadPosted' = (reloadPosted \/ gpuLost)
  /\ UNCHANGED <<engineVars, presentVars, channelVars, pageVars, glLive,
                 glEvents, gpuLost, reloading, faults, dropped>>

AlwaysGpuAgain == FALSE
\* A loss on a page that already carries ?gpulost=1: the GPU is given up.
SecondLoss == gpulost

\* gpuLostReload on the page.
GpuLostReload ==
  /\ Running /\ reloadPosted
  /\ reloadPosted' = FALSE
  /\ reloading' = TRUE
  /\ raster' = SecondLoss
  /\ gpulost' = TRUE
  /\ UNCHANGED <<engineVars, presentVars, channelVars, bound, screen, glLive,
                 glEvents, gpuLost, deadline, faults, dropped>>

\* The replaced document starts over.
Reboot ==
  /\ reloading
  /\ dirty' = TRUE /\ surface' = Blank /\ firstFramePushed' = FALSE
  /\ port' = FALSE /\ wired' = FALSE /\ inFlight' = 0
  /\ maxInFlight' = EngineDepth
  /\ hello' = FALSE /\ frames' = <<>> /\ acks' = <<>>
  /\ bound' = FALSE /\ screen' = Blank
  /\ glLive' = TRUE /\ glEvents' = <<>> /\ gpuLost' = FALSE
  /\ deadline' = FALSE /\ reloadPosted' = FALSE
  /\ reloading' = FALSE /\ dropped' = {}
  /\ UNCHANGED <<content, gpulost, raster, faults>>

-----------------------------------------------------------------------------
Next ==
  \/ Invalidate
  \/ Push \/ PushPaintFails \/ PushPresentFails \/ Readback
  \/ PresentWorkerHello \/ Bind \/ ReceiveConfig \/ ReceiveReady \/ ReceiveFrame
  \/ LoseContext \/ HandleLost \/ RestoreContext \/ HandleRestored
  \/ RestoreTimedOut \/ GpuLostReload \/ Reboot

Spec == Init /\ [][Next]_vars

\* The rAF loop keeps ticking the engine and every posted message or armed
\* timer is eventually handled.  The guest, the GPU driver, the probe and the
\* faults owe nothing.
Fairness ==
  /\ WF_vars(Push)
  /\ WF_vars(PresentWorkerHello) /\ WF_vars(Bind)
  /\ WF_vars(ReceiveConfig) /\ WF_vars(ReceiveReady) /\ WF_vars(ReceiveFrame)
  /\ WF_vars(HandleLost) /\ WF_vars(HandleRestored)
  /\ WF_vars(RestoreTimedOut) /\ WF_vars(GpuLostReload) /\ WF_vars(Reboot)

FairSpec == Spec /\ Fairness

-----------------------------------------------------------------------------
(* Properties *)

\* Once the port is wired every credit is accounted for: the frames the page
\* has not received plus the acks the engine has not received are exactly
\* inFlight.  A credit can neither leak (the screen would freeze) nor be
\* minted (ImageBitmaps would pile up).
CreditsConserved == wired => inFlight = Len(frames) + Len(acks)

\* The page never has more undelivered ImageBitmaps than the depth it asked
\* for, although the engine starts with a larger default: the depth message
\* lands before the first frame.
DepthBound == Len(frames) <= PageDepth

\* The version #screen will show when the channel has drained.
Newest == IF frames = <<>> THEN screen ELSE frames[Len(frames)]

\* Damage is never lost in the pipeline: while nothing is queued for painting
\* and the context is sound, the newest frame on its way (or on #screen) is
\* what layout would paint now.  dropped names the two ways out: a probe
\* readback and a composite that threw.
LatestFrameAccounted ==
  Running /\ glLive /\ glEvents = <<>> /\ ~gpuLost
    => ~firstFramePushed \/ dirty \/ dropped # {} \/ Newest = content

\* A lost context never waits on nothing: a restore event, the deadline or a
\* reload is on its way whenever rendering is parked.
LossIsAnswered ==
  Running /\ gpuLost
    => deadline \/ reloadPosted \/ glEvents # <<>>

\* Once the driver stops revoking the context, #screen catches up with the
\* guest for good, unless the page gave up on the GPU or the newest frame was
\* dropped in one of those two ways.
ScreenCatchesUp ==
  <>[]glLive => <>[](raster \/ dropped # {} \/ screen = content)

\* However often the context is lost, the page does not reload forever.
ReloadsEnd == <>[]~reloading
=============================================================================
