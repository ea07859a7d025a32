# A TLA+ model of the WebkitWasm embedder

WebkitWasm compiles WebKit to WebAssembly and runs it inside a web page. The
repository holds what makes that possible: an *embedder* in C++
(`src/embedder/`), a patch that turns WebKit's threads into tasks of one run
loop (`src/patches/webkit-emscripten.patch`), and a host page (`web/`). These
modules model the parts where calls, messages, timers and failures meet.

All source paths below are relative to the repository; WebCore, libcurl, the
browser (workers, OPFS, WebGL, `MessagePort`) and the web servers are external
and modelled by what the repository's code relies on.

## 1. The system

Two threads and one file system:

    page thread (web/browser.html)            engine thread (wasm worker)
    --------------------------------          --------------------------------------
    rAF loop, fallback timer       --tick-->  main.cpp: bib_tick, bib_render, ...
    socket I/O, netPumpChannel     --pump-->    RunLoop (patched): tasks and timers
    present port, #screen         <-frames--    curl request/stream schedulers
    bib_blit                      <--boxes--    raster and GPU painting
    persist queue                 <--blobs--    storage registry, change detector
       |                                        loader strategy, WebSocket channels
       v                                        media players, IndexedDB server
    OPFS profile file

| Component | Where | State it keeps | Operations | Hard because | Correct when |
|---|---|---|---|---|---|
| Engine pump | `main.cpp` 475-520, 640-910; `engine-pre.js` 20-150; `browser.html` 215-300 | collapse flags, proxy queue, wake-up and timer flags, the run loop's tasks and timers | tick, render, net pump, run-loop cycle, arming the host timer | two threads post while one runs; each hop collapses repeated calls | no poke lost, no backlog, the engine never sleeps with work |
| Curl request scheduler | patch 2425-2627 | task queue, active jobs, pump flags, burst count | add, cancel, pump, perform, re-arm | polling inside a run loop that must return to the browser | requests are taken up, the pump yields |
| GPU present | `engine-pre.js` 150-225; `browser.html` 120-210; `main.cpp` 1000-1140 | credits, depth, the port, damage, texture | hello, bind, config, ready, frame, ack, paint, push, readback | ack before composite, three handshake messages, failing paints | credits conserved, newest content gets to the screen |
| Context loss | `main.cpp` 1260-1400; `browser.html` 735-770 | `g_gpuLost`, timer, reload flag | lost, restored, timeout, rebuild, reload | browser events race the timer and the page | every loss is answered, reloads end |
| Raster damage | `BibPageClients.h` 30-140; `main.cpp` 340-470, 900-1000, 1140-1260 | damage list, upload box, two mirrors of the frame | invalidate, scroll (blit or repaint), paint, push, probe | the mirrors change independently of painting; each step may fail | no stale pixel that nothing will repaint |
| Persistence | `BibStorage.h`; `main.cpp` 522-690; `browser.html` 302-376 | cookie jar, storage areas, pending import, detector, pending blob, the file | seed, open, set, dump, debounce, write, retry | writes fail and are overtaken; origins not opened this session | the file catches up, nothing unvisited is erased |
| Resource loading | `EmbedderStrategies.cpp` 120-420, 440-560 | `m_loads`, the request held, redirect count | schedule, response, redirect decision, cancel, complete, ping | WebCore answers later, callbacks of old legs are queued | one transfer, one ending, cookies and credentials right |
| WebSocket channel | `BibWebSocketChannel.h` | state, flags of the close handshake, receive buffer, continuation | connect, handshake, frames, send, close, fail, disconnect | any party may close, frames arrive in pieces, the stream dies inside its callback | the client contract, messages whole and in order |
| Curl stream | patch 2628-3026 | client list, task queue, send buffers | create, send, destroy, poll | callbacks are delivered later | no stream outlives its channel |
| Media player | `BibMediaPlayer.cpp`; `browser.html` 377-465 | fetch, network and ready state, seeking, ended; the page's elements and blob URLs | load, cancel, play, pause, seek, events from the page's element | late events of an old source, two queues, the fetch racing both | states belong to the current source, no URL is left behind, loading ends |
| Media stub | `media-stub.js` | source, load token, error, listeners, dispatches in progress | set src, load, add, remove, dispatch | queued failures of earlier loads, re-entrant dispatch | the state tells what will happen; only wanted listeners are called |
| WebAssembly polyfill | `engine-pre.js` 20-140, 260-277; `main.cpp` 1677-1754; `wasm-polyfill.js` | hooks, the text read once, the bridge on each window, binaryen | install, inject, compile, instantiate, validate, streaming | hooks may come late, binaryen later; binary pre-scan | every window gets the text and no bridge; answers on the module's merits |
| Development server | `tools/dev-server.mjs` | none but the file system under it | resolve, stat, tag, stream; cookie endpoints | a build writes what is being served; mounts and links | what a page runs is one build, from its mount |
| Acceptance tests | `tools/*-test.mjs` of gates 6, 8, 9, persistence, media; their guest pages | what was seen on the console or read | wait, poll, time out, judge | they see the system only from outside, late and by polling | PASS and FAIL for the right reasons |
| IndexedDB | `BibIDBServer.cpp` | connections, the server | tasks to the run loop, replies | teardown happens inline | requests in order, none after teardown |
| Work queues, workers, decoding | patch 272-402, 731-935, 1684-1727, 3146-3271 | run-loop tasks | dispatch, requeue, decode head | what was parallel is serial, in another order | order kept, no self-wait |
| Input, editing, chrome, boot | `main.cpp` 1464-1831, `browser.html` | little | one synchronous call each | - | - |

Interactions worth keeping in mind:

* The page calls exports; Emscripten proxies them to the engine's thread through
  one queue. `bib_tick` and the network poke are *collapsed*: a flag says one is
  already queued.
* The engine calls the page asynchronously (`MAIN_THREAD_ASYNC_EM_ASM`) for
  boxes, blobs and reload requests: FIFO, and never answered.
* GPU frames travel as `ImageBitmap`s over a `MessageChannel` of their own; only
  that path has flow control.
* Guest pages see two injected scripts: they are fetched by the worker's hooks, read
  once by the engine and evaluated in every new window before the page's own scripts.
* The acceptance tests read the console, the profile's file and `__bib`; what they
  conclude is part of the system's promises, so they are modelled with it.
* curl, WebSocket streams, timers, loaders and storage all run as tasks of the
  one run loop, so their handlers are atomic with respect to each other, and an
  action of the models is one whole handler.

## 2. The modules

| Module | Models | Composition |
|---|---|---|
| `GpuPresent` | engine side, port, page side and GL context of the GPU path | one module: the two ends share only the port's two queues, which are variables |
| `GpuGuard` | the boot in front of it: no context, no surfaces or a software renderer, and the reload into raster mode | two documents of one page, one after the other |
| `Gate8Test` | `gate8-gpu-test.mjs`: boot, readback, loss and restore, the second page with the guard on | extends `GpuPresent` (first page) and `GpuGuard` (second page) |
| `BibPersist` | engine, page and file of the persistence pipeline | same |
| `PersistTest` | `persist-test.mjs`: two boots around the profile's file | extends `BibPersist` |
| `DamageList` | `addDamage`, rectangles, merging, as pure operators | used by `BibRaster` |
| `BibRaster` | damage, scroll, paint, push, blit | extends `DamageList` |
| `EnginePump` | page and engine threads, run loop and curl scheduler | composes components that the source keeps in four files, because the property (nothing is left asleep) is only about their sum |
| `MainRunLoop` | a worker and an image decode queue as tasks of the main run loop | the run loop's tasks as one FIFO; that it runs them is `EnginePump`'s result |
| `WebSocketContract` | abstract: what a channel's client may rely on | - |
| `BibWebSocketChannel` | the channel with its stream, server and network | implements `WebSocketContract` (property `ClientContract`) |
| `BibResourceLoad` | loader strategy, loads, pings, curl transfers, cookies | - |
| `DevServer` | the server, a caching browser, a build, the cookie endpoints and gate 6 | one module |
| `WasmScan` | `definedTableCount` over the bytes of modules described by their sections | used by `WasmPolyfill` |
| `WasmPolyfill` | hooks, injection, bridge, `WebAssembly` of the guest | extends `WasmScan` |
| `Gate9Test` | `gate9-wasm-test.mjs` and its guest page | extends `WasmPolyfill` |
| `BibMediaPlayer` | the player, the page's elements, both queues | - |
| `MediaTest` | `media-test.mjs` and its guest page | extends `BibMediaPlayer` |
| `MediaStub` | the media element of builds without media | - |
| `GuestPage` | a guest page over all three, or one of the two tests | extends `Gate9Test`, `MediaTest`, `MediaStub` |
| `SequenceLemmas` | facts on `Append`, `Tail`, `SubSeq`, concatenation, short sequences | used by all proof modules |
| `GpuPresentProofs`, `BibPersistProofs`, `BibRasterProofs`, `EnginePumpProofs`, `WebSocketProofs`, `ResourceLoadProofs`, `GuestPageProofs` | theorems | each extends what a run checks: `Gate8Test`, `PersistTest`, `BibRaster`, `EnginePump` and `MainRunLoop`, `BibWebSocketChannel`, `BibResourceLoad`, `GuestPage` and `DevServer` |

Names of variables are the names of the code's variables wherever there is one;
variables the code does not have are under "bookkeeping of the model" in each
module. `PROJECT.json` maps each definition to the lines it models.

### GpuPresent

`dirty` is `BIB::g_frameDirty`, `inFlight`/`maxInFlight`/`wired` are fields of
`Module.__bibPresent`, `gpuLost` is `g_gpuLost`. Pictures are version numbers:
`content` is what layout would paint, `surface` what the texture holds,
`screen` what the page shows. `PaintGPUIfDirty` is an operator, not an action,
because `Push` and `Readback` call it with the same failures. The page
acknowledges a frame before it composites it, so `ReceiveFrame` does both and
may fail in between. `LoseContext` only changes the browser's context; the
engine learns of it in `HandleLost`, later. `dropped` names the causes by which
the code knowingly loses the newest frame (a readback probe, a composite that
threw). Not modelled: a loss during boot, before the handlers are installed.

A readback is the one way in which a good renderer loses a frame: `bib_render_readback`
(`main.cpp:1198`) paints and so clears the damage, presents nothing, and the next `Push`
finds nothing to do, against the comment at `engine-pre.js:164`. The screen
is behind until something changes again. `LatestFrameAccounted` names it as an exception.

### GpuGuard and Gate8Test

The engine finds out in two places that it cannot use the GPU (`GuardStarts`,
`GuardBenches`); it posts `fallback` and goes on in raster mode, and its page, which can
show only bitmaps, loads itself again with `?gpu=0` (`GuardFallback`, `GuardCommits`).
`guardLeaving` is the time between `location.replace` and its commit, in which the old
document lives on, receives `ready` and even judges a readback of the raster engine.

`Gate8Test` is a sequence of steps over the two pages; `seen` is what the console
showed. In a tested behaviour the test is the only one who takes the context away; in
the others everything of `GpuPresent` is possible. Two facts about the second page that the
test's comment (`gate8-gpu-test.mjs:88-91`: the page "must land green on ?gpu=0
raster") does not have: the verdict it waits for may be that of the document that is
being left, so that the gate passes before the raster document has painted anything; and
if the navigation commits between the wait and the next question, the gate fails
although nothing failed. `Gate8TellsTheTruth` therefore promises only the mode of the
second page, and `early` marks the second case.

### BibPersist

One `MaybePersist` is the tick's whole check: build the JSON, compare with
`lastJSON`, allocate, post. `Persist`, `TimerFires`, `WriteSucceeds` and
`WriteFails` are the page's queue with a single write in flight. `Restart`
covers reload, reopening and a crash of the tab: only the file survives.
Dumps that equal the last are left out of `MaybePersist`'s guard (they change
nothing). Not modelled: `?persist=clear` and `?persist=0`, the size caps of the
buffers, two tabs with one profile (`browser.html:310`: the last writer wins).

`PersistTest` puts the test beside it: `BlobHasState` is what the test looks for in the
file, and the reload in the middle of the test is `Restart`.

### DamageList and BibRaster

The frame is a small integer grid. For each mirror (`surface`, `g_blitPixels`,
`#screen`) the model keeps the set of pixels that are *stale*, which is all that
repainting is about. `ScrollBlit` moves the stale pixels with the picture, as
`scrollContents` moves the pending rectangles. A frame is a chain of steps
(`BeginPush`, `PaintRect` for each rectangle, `Push`) because WebCore may call
`invalidate` while painting. `g_frameDirty` is `damage # <<>>`: the code sets and
clears them together.

### EnginePump

The page is at one call of an export at a time (`pageAt`), the engine at one
task (`engineAt`). `RunTick`, `RunNetPump`, `WakeUpMessage` and
`PumpTimerFires` enter the pump; `HostPump` and the `Cycle...` actions are one
run-loop cycle, which works on the tasks that were there when it began; `CycleEnds`
hands the earliest timer to the host. Time is a few discrete steps and
`ClockSteps` moves every armed timer. A pump that throws (`engine-pre.js` 44-51: the hook is
disarmed after eight failures in a row and the page's fallback remains) and an `add` from a callback
inside a pass (patch 2496, a second pump chain) are not modelled. The readback and `bib_pump` entries have
the same collapse pattern and are not repeated.

### MainRunLoop

`queue` is the main run loop, which the patch puts behind every work queue,
decode and worker. `Startup` is what starting a worker leaves in it: the early
messages, then the bootstrap. `RunMessage` has the patch's requeue for a worker without
a scope, `DispatchDecode` the decoder check before the append, `RunDecode` the staleness
checks of the callback; `Stop` voids what is in flight. The requeue has a
consequence the code accepts: a message posted after the worker was started but
before its bootstrap ran stands behind the bootstrap already, and passes the early
messages, which are requeued behind it. `WorkerMessageOrder` names this window
and excludes any other.

### BibWebSocketChannel

The channel's flags are variables of their own; the stream is the client list,
a queue of tasks and a state; `callbacks` are what `callClientOnMainThread` has
queued. A stream's tasks begin with its creation and end with its destruction (`TasksInOrder`, part
of `TypeOK`). Frames are kinds and numbers; a *unit* of input may be half a frame, so
the receive buffer matters. Server, network and client are free: they may do at
any moment what the protocol or the API allows. Two facts the model makes
visible and the code accepts: there is no close timeout, so a server that
neither answers nor disconnects keeps the channel closing; and the echo of the
server's Close may be destroyed with the stream before it was written. The
`close` arm for a channel that is still connecting is kept (`CloseEarly`).

### BibResourceLoad

A load's `trail` is its chain of requests, `transfer` the state of each hop's
transfer (`running`, `parked` while a decision is awaited, ended). Callbacks
are queued and may belong to an older hop; `Ignored` is the code's guard
against them. WebCore's two completion handlers are `decision` and are called at any
later moment, also after a cancel. `jar` and `sent` follow which response's
cookies were stored when a request was built. Redirects may be refused (count,
`file:`) or answered with a null request. A parked transfer reports nothing, as
libcurl promises for a paused handle. `MaxRedirects` redirects are compared
before the increment, so one more than the constant is followed: `TypeOK` states
the bound the code has.

### DevServer

A request is `Resolve`d, stat'ed, tagged, opened and streamed in steps, and the build
may truncate and write the file between any two of them. An artifact is a sequence of
chunks, each the number of the build that wrote it, so a torn body shows. The tag is size
and milliseconds, as in the code; `LoadsAreFresh` excludes only what such a tag cannot tell
apart. Mounts nest, and one path is a link out of its root. The cookie endpoints and gate 6
share the server: the legs of the redirect are requests, and the browser has stored the
`Set-Cookie` of one before the next is sent (`LegAnswered` does both, and `carried` is what the
redirected leg has with it). A fetch may fail, and the gate polls at any time.

### WasmScan and WasmPolyfill

Modules are described by their sections (types, custom sections that look like tables, none, one or
two table sections, in any case with short and padded numbers); a module may be cut off at any byte
of its last section, have another head, or code that is invalid or not translatable. The bytes are made
from the description, and `definedTableCount` walks the bytes as the script does. `Tables` is the
reference: the count in the first table section, unless the bytes end before it. The scan is a
function over positions, with one `U32` for the one LEB128 reader.

`ScanTellsTables` is about every one of these modules and not only about those that are well-formed:
bytes that list several tables never reach binaryen and all others do, no module that can be
translated is refused and no readable one fails to validate. One thing is not as the script's
comment says (`wasm-polyfill.js` 129-130: "validate must not green-light malformed bytes via the
fast path"): of bytes that list several tables nothing else is looked at, so a module with a
table section of two that is cut off behind its count, whose code is invalid or which has a second
table section validates as true, while the same with one table goes to binaryen and validates as
false. The property excludes exactly these (`Readable(m) \/ several`) and promises nothing of them.
Such a module is refused by `compile`, as it would be without the scan.

A string that crosses from JavaScript needs memory of the engine. The bridge checks the allocation
(`main.cpp` 1698-1704) and returns null, so a translation is refused and a validation answers
false (`Short`). `wasmPolyfillSource` does not (`main.cpp` 1723-1728): where it fails, the empty text
is kept for the session, and no window gets the scripts (`ReadSource`); what else the write through
null does is not modelled. `TextNotFrozenEarly` names this as the only way to such a text.

`Attempt` is one of the four places that try to install the hooks; `NewWindow` and
`SameWindow` are the announcements of a window. The guest's calls run to their end inside
one action, since they are synchronous apart from the promise around them. Three more things the
model makes visible and the code leaves as they are: bytes that end inside the scan read as
"no table" and not as -1, "any parse uncertainty" (`wasm-polyfill.js` 119-120; a byte beyond the
end is `undefined`, which is 0 in the arithmetic), which comes to the same, as both go on
to binaryen; the hooks' `polyfill + media` text does not follow
"the same composition rule as browser.html's wasmShimReady" (`engine-pre.js:92`) when
binaryen fails, because the page then leaves the polyfill out (`browser.html` 927-930); and
gate 9's probe does not wait for binaryen, so it can fail for no other cause.

### BibMediaPlayer and MediaTest

`toPage` and `toEngine` are the two queues. Sources are numbered by `load`; `failed` is the set
of sources that did fail, which the property compares with what the player says.
`mediaPlayers` is the page's map of elements, `urls` counts its object URLs.
`NextCandidate` is WebCore's own reload of a player after a failure. The element is
external: it may announce data, play, stall, fail or end at any time. `m_ended` may stay
true after a `seek`, since only `play` and `load` reset it. The comment at
`browser.html` 377-382 says that the host fetches media URLs; the code below it and the
engine do what the model does. Not modelled: volume, mute, rate, times and
buffered ranges; the media clock and the engine's boot in `MediaTest`.

### MediaStub

`stack` holds the dispatches in progress: each has the snapshot it walks, and a listener
may call anything, which pushes another. `timers` are the failures queued by `load`, each with
its token. A listener stands in the list once, however often it is added (`ListedOnce`, part of
the type invariant). Not modelled: `play` and `canPlayType`, which always answer the same.

### GuestPage

One of the APIs, or one of the tests, is chosen at the start (`uses`): they share boot and
injection but no state, so their product would multiply states and show nothing.

## 3. What the runs check

States and times are of TLC with two workers.

| Run | Checks | Bounds | Size |
|---|---|---|---|
| `gpu_present` | credits, newest frame accounted for, screen catches up, reloads end, gate 8 | depths 3 and 2, 3 content versions, 1 fault, 1 deadline | 784 466 states, 1:10 |
| `websocket` | refinement of the client contract, messages whole and in order, the socket's use, server ends close | all 7 kinds of frames, 3 frames, 1 send, 2 units in the buffer | 1 124 426, 1:55 |
| `persist` | detector not ahead, unopened origins kept, the profile catches up, the persistence test | 2 origins, 2 values, 3 changes, 2 restarts, 2 faults, 1 failed allocation, 1 deadline | 215 496, 0:15 |
| `persist_seed` | finding: an unreadable profile counts as no profile | same, without the test | counterexample |
| `persist_memory` | finding: the detector advances before the allocation | same, without the test | counterexample |
| `raster` | surface, blit buffer and screen tracked | 2x2 frame, list of 2, scroll by 1, 3 changes, 1 fault, 1 box in transit | 728 070, 1:00 |
| `engine_pump` | nothing asleep or stranded, work taken up, pump yields | burst 1, delays 1 and 2, 2 pieces of work | 227 896, 0:52 |
| `resource_load` | loader contract, one transfer, cookies and credentials of every leg, every load ends | one load and one ping, 2 origins, up to 3 hops | 81 433, 0:16 |
| `resource_leak` | finding: a refused redirect leaves its transfer parked | one load | counterexample |
| `run_loop` | messages to a worker delivered once, in order but for one window; decoding never stalls | 3 messages, 2 requests, 3 decodes, 1 stop | 151 788, 0:17 |
| `dev_server` | fresh loads, mounts, gate 6 | 2 chunks, 2 builds, 2 ms, 3 loads, 1 fault | 168 000, 0:05 |
| `guest_page` | injection, pre-scan, load state, media state, dispatch, loading ends, gate 9 and the media test | 2 windows, 2 calls, 2 listeners, 4 stub calls, depth 2, 2 players, 2 sources, 1 fault | 728 314, 1:53 |

Why the bounds are enough: a credit pipeline of depth 2 with a larger default
shows both overrun and leak, and one fault can hit every step (faults are chosen
by the model, not placed). Two origins give one that is opened and one that is not;
two restarts give a session before and a session after the one that fails. A
damage list of 2 on a 2x2 grid overflows with the third rectangle, like the
code's list of 4 with the fifth. A burst of 1 distinguishes all three
outcomes of the pump's decision (immediate, delayed, stop). Three frames hold a whole
fragmented message (first, middle, last), one that is begun twice, and a message with a Close behind
it; a frame may come in two units. Three hops leave the first
origin and come back to it. Three messages put
one before the start, one into the window and one after it; three decodes of two
requests repeat a request across a stop. Loads interact only through `m_loads` and the cookie
jar, so one load with one ping covers what the code shares. Two chunks and two builds give a
file of each build, a mixture and two sizes; three loads fill a cache, meet a build and confirm.
A dispatch inside a dispatch (depth 2) is the deepest at which code and snapshot can
differ in a new way. Two players and two sources give each an old and a new one. One deadline
per test is enough for each of its waits to be the one that passes.

`CHECK_DEADLOCK FALSE` stands where the system may really stop: everything
bounded has been used, the channel is closed, the load is over, the test has judged. `raster` and
`engine_pump` never stop and are checked for deadlock.

The properties on tests (`Gate8TellsTheTruth`, `PersistTestTellsTheTruth`,
`GateTellsTheTruth`, `AcceptanceTellsTheTruth`) say in both directions what a verdict is
worth: PASS means that what the test is about did happen, by the model's own account
of it and not by the test's; FAIL has a cause that is named.

### Fairness

Fair are only steps that an event loop owes: queued messages and tasks are run,
armed timers expire, the engine ticks. `EnginePump` owes nothing to the rAF loop
(a hidden tab has none): the pump has to live from its own timers. In
`GpuPresent` `Push` is fair because ticks keep coming; in `BibPersist` so is
`MaybePersist`, and OPFS eventually answers. In `BibResourceLoad` the network
answers or breaks, WebCore calls its completion handlers and tears down loads that
were refused. In `MainRunLoop` only
the loop itself is fair. In `BibMediaPlayer` (`MediaFairness`) the fetch ends one way or another,
both queues are worked off and the page's element says what becomes of a source it was given; it
need not announce that it can play through, and nobody owes it a `play`. User, guest, tests and
server owe nothing, and failures are never fair.

## 4. What is proved

TLAPS checks the theorems below for every value of the constants that their assumptions
allow. The assumptions are those on the constants (`DepthAssumption`, `BoundAssumption`,
`ValueAssumption`, ...), which every run evaluates. The bounds (`MaxVersion`, `MaxFaults`,
`MaxFrames`, ...) are constants of the theorems too, so the theorems hold for any number of
faults, changes, frames or deadlines.

All follow one argument: an inductive invariant `IInv` with `Init => IInv`,
`IInv /\ [Next]_vars => IInv'`, one case per action, and the property from `IInv`. Each
`IInv` was model-checked before it was proved. What it adds to the property is the part a
reader of the code should know:

* `EnginePumpProofs`: `TypeCorrect`, `NeverStranded`. The invariant follows the one carrier
  of each collapse flag (`Carried`: the flag is up exactly while the call is with the page,
  in the proxying queue or taken by the engine, and never in two of these places), the
  wake-up that every dispatched task has (`TasksCalled`), the two flags of the scheduler
  (`FlagsTrue`), and that bytes come only to an engine that is up (`PokesNeedEngine`:
  otherwise a poke could be dropped). In the same module, of `MainRunLoop`: `RunLoopTypeCorrect`,
  `WorkerMessagesInOrder`. The order of the messages in the queue is not that in which they are
  handled, because what stands in front of the bootstrap is requeued; `Sooner` is the order it
  will be, and `Lined` says that the queue keeps it, with one bootstrap, and only early messages
  in front of that. `NothingIsForgotten` is the safety that the liveness of section 3,
  `TasksDone`, rests on: a posted message is handled, on the loop or with the proxy until the
  worker is terminated (`MessagesKept`), and the queued decodes have callbacks on the loop in
  the same order (`DecodesCalledBack`), so that a callback that finds another request at the
  head takes nothing from a request that waits. No run lists the two invariants: TLC checked
  them with the bounds of `MainRunLoop.cfg` before they were proved, and the theorem
  covers every bound.
* `WebSocketProofs`: `TypeCorrect`, `SocketUsed`, `MessagesAreDelivered`, and `KeepsContract`,
  the refinement: every step of the channel is a step of `WebSocketContract` or leaves the log alone. The contract
  speaks of the callbacks only, so `FieldsRemember` says what the channel's flags remember of
  them; `StreamLife` is the stream's life from the first task to the last, `AnswerFirst`
  that nothing is said before the opening response, `CloseIsLast` that nothing is written
  after our Close. For the messages there is a second invariant on top, `DInv`: after `h` parsed
  frames the rest of what the server said (`Wire`) lies without a gap in the receive buffer, the
  undelivered callbacks and the network (`OnTheWay`, with the position of each piece); what the
  client has been handed are the messages that end before the h-th frame (`HandedOver`), and what
  is kept of an unfinished one are its fragments so far (`Continued`). `Plumbing` is what the
  way of the bytes rests on: the stream is listed while the channel has it, and only data
  callbacks carry bytes.
* `ResourceLoadProofs`: `TypeCorrect`, `LoaderContractKept`, `OneTransferEver`,
  `LegsAreSound`. Callbacks are always late, so the invariant is about the queue:
  `HopsAgree` (it holds callbacks of the last hop only), `QueueFits` (what is queued fits
  how the transfer stands while somebody listens), `Quiet` (a load that is not loading has
  nothing left to hear), `HearsInOrder`, `Counts`, and for each leg `Sanitized` and
  `CookiesCarried`.
* `GpuPresentProofs`: `GpuTypeCorrect`, `GpuCreditsConserved`, `GpuDepthBound`,
  `GpuLatestFrameAccounted`, `GpuLossIsAnswered`. The invariant adds
  `Handshake` (which messages can be on the port at each stage: without it the
  config message could arrive after the first frame and credits would not add
  up) and `GlShape` (what the queue of context events can hold: without it a
  restore could be handled that nobody reported). `Gate8IsHonest` and `Gate8KeepsAccounts`
  carry this over to the composition with the test: `GuardShape` is the second page with the
  reload in front of it, `FirstPage`, `SecondPage` and `Verdicts` are what is true at
  each step of the test.
* `BibPersistProofs`: `PersistTypeCorrect`, `PersistDetectorNotAhead`,
  `PersistNothingStranded`, `PersistUnopenedOriginKept`. The last is an action
  property: a write puts into the file a blob dumped long before. The invariant
  `SeedKept` therefore follows the seed through every place a blob can be, and
  `Idle` says that nothing survives the page but the file. `PersistTestIsHonest` follows the
  test through its phases, and its cookies and values through page, blob and file.
* `BibRasterProofs`: `TypeCorrect`, `MirrorsTrackedHolds`. The properties are statements on unions
  over lists of rectangles; the proof is pointwise: `Tracked` says of each pixel that it is
  queued or about to be painted if a mirror has it wrong (`Backed`), and that something will
  repair the screen if the screen will have it wrong once the boxes in transit have been
  blitted (`Shown`). The lemmas say that `AddAll`, merging and clamping lose no pixel, for
  lists and frames of any size.
* `GuestPageProofs`: `TypeCorrect`, `InjectionIsSound`, `LoadStateHonest`, `OnlyWantedCalled`
  (an action property), `MediaStateIsSound`, `AcceptanceIsHonest`, `ScanTellsTheTables`. For the
  polyfill the invariant (`WInv`) says what each stage of boot and injection has, for the stub
  that only the element's own token can be that of a failure of its source and that the live
  list holds wanted listeners, each once (`TokensCount`, `ListWanted`). The pre-scan is a
  recursive function of positions: `ScanIsDefined` says that it satisfies its equation (every
  step looks ahead), `FlattenLayout` where the bytes of each section stand, and
  `ScanReadsSections` follows the scan from the last section to the first: for all sections
  whose length is below 128, so that the two bytes of LEB128 that the model reads are enough,
  whole or cut off anywhere in the last (`IsModule`), not only for the modules of the run.
  `ScanCountsTables` concludes that `definedTableCount` is the reference's `Tables` for every
  module of version 1, and `ScanTellsTheTables` that each call's answer follows.
  For the player it says that an element's messages lie between its creation and its destruction
  (`Lives`), what can be on its way in either queue while the current source is fetched, has no
  data, has data or has failed (`Fetching`, `Current`), and that `urls` counts the elements with
  a URL (`UrlsCounted`); for gate 9 and the media test what each step knows (`GInv`, `TInv`). In
  the same module, of `DevServer`: `ServerTypeCorrect`, `LoadsStayFresh`, `ServedFromMount`,
  `Gate6IsHonest`. A torn copy may stay in the browser's cache for good; `CopyHonest` and
  `StreamHonest` say that whatever differs from what stat saw is of a build that is over, so
  that its tag confirms nothing later but in the case the property names; `GateHonest` follows
  the two cookies along the legs.

`BibPersist`'s and `GpuPresent`'s type invariants, `DepthBound`, `LossIsAnswered` and
`NothingStranded` of persistence are proved and no longer listed in a run.

Induction over data: the library's induction theorems take an operator as a parameter, which
the provers cannot instantiate. Where a lemma needs induction (`BibRasterProofs`: lists of
rectangles; `GuestPageProofs`: the bytes of a module) it is obtained from the least element of
the set of counterexamples, with `NatLessThanWellFounded` and `WFMin` (`LeastElement`,
`Induction` and `LoopRuns` of `SequenceLemmas`).

The refinement: `BibWebSocketChannel` has `Contract == INSTANCE WebSocketContract WITH log
<- log`, the run checks `ClientContract == Contract!Spec` as a property, and `KeepsContract`
proves it: the channel with its frames, tasks and sockets does nothing that the contract, which
knows only the calls the client sees, does not allow.

Only model-checked: all liveness (TLAPS has no `ENABLED`), and the three runs that expect a
violation. The tree and the mounts of `DevServer` are definitions, so `ServedFromMount` is about
them; its lemmas `MountIsMostSpecific` and `RouteIsMounted` hold for every path.

## 5. Findings

* `persist_seed`: a failed read of the profile (`browser.html:330`) lets the next
  dump erase unopened origins, against `main.cpp:561`.
* `persist_memory`: the detector advances before `malloc` (`main.cpp:654`).
* `resource_leak`: refused redirects leave a parked transfer
  (`EmbedderStrategies.cpp:287` and 295), against the comment at line 330.

Differences between comments and code that have no run are told where their module is
described: the readback (`GpuPresent`), the second page of gate 8 (`Gate8Test`), the
pre-scan and the composition of the texts (`WasmPolyfill`), who fetches media (`BibMediaPlayer`).

## 6. Not modelled

* Hazards outside the models: two tabs that share a profile without a lock; a pump
  that keeps throwing; a second chain of the request pump; the page's own pump of builds
  without threads (`browser.html` 220-247); the port message `close` (`engine-pre.js:213`),
  which nobody sends; a loss of the context during boot.
* `Memory`, `Table` and `Global` of the polyfill, and what wasm2js emits.
* The IndexedDB bridge: requests and replies are forwarded in order over the one run loop; what
  could go wrong is in WebCore, outside this repository.
* Input and editing, blobs, subframes: one synchronous call each, without state of the embedder.
* Page chrome and heuristics; build, measuring and diagnosis tools; experiments; vendored code.

## 7. Plan

1. `GpuPresent`, `GpuGuard`, `Gate8Test` - done, proved
2. `BibWebSocketChannel` with `WebSocketContract` - done; refinement and safety proved
3. `BibPersist`, `PersistTest` - done, proved
4. `DamageList`, `BibRaster` - done, proved
5. `EnginePump` - done, safety proved
6. `BibResourceLoad` - done, safety proved
7. `BibMediaPlayer`, `MediaStub`, `WasmPolyfill`, `GuestPage` - done, safety proved
8. `MainRunLoop` for workers and image decoding - done, safety proved, also that the loop has a
   callback for every queued decode (why `DecodesDelivered` holds)
9. `DevServer` - done, proved
