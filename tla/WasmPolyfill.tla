----------------------------- MODULE WasmPolyfill -----------------------------
(***************************************************************************)
(* WebAssembly for guest pages.  The worker's hooks (web/engine-pre.js)    *)
(* fetch the two scripts that every window gets and load binaryen; the     *)
(* engine (main.cpp, injectWasmPolyfill) puts the bridge function on each  *)
(* new window and evaluates the scripts before the page's own; the         *)
(* polyfill (web/wasm-polyfill.js) takes the bridge off the window and     *)
(* defines WebAssembly over it.                                            *)
(***************************************************************************)
EXTENDS WasmScan

CONSTANTS
  None,          \* no text read yet, no call
  MaxWindows,    \* bound: windows the engine creates
  MaxWasmCalls,  \* bound: calls of the guest
  MaxFetchFaults \* bound: scripts that cannot be fetched, failed allocations

ASSUME WasmAssumption ==
  MaxWindows \in Nat \ {0} /\ MaxWasmCalls \in Nat /\ MaxFetchFaults \in Nat

VARIABLES
  \* worker
  moduleBuilt,  \* the pthread bootstrap has built Module
  attempts,     \* when engine-pre.js will still try to install the hooks
  hooks,        \* Module.__bibWorkerHooks
  text,         \* Module.bibWasmPolyfill: which halves it has
  binaryen,     \* the dynamic import
  mainRuns,
  source,       \* wasmPolyfillSource: the text, read once
  \* the current window
  windows,      \* number of windows so far
  global,       \* what is on its global object: the bridge, WebAssembly
  pageRuns,     \* the page's own scripts run
  compiled,     \* the guest has a Module
  instantiated,
  fetching,     \* a streaming compilation waits for its bytes
  \* bookkeeping of the model
  returned,     \* what the last call returned
  wasmCalls, fetchFaults

workerVars == <<moduleBuilt, attempts, hooks, text, binaryen, mainRuns, source>>
windowVars == <<windows, global, pageRuns, compiled, instantiated, fetching>>
wasmVars == <<workerVars, windowVars, returned, wasmCalls, fetchFaults>>

Halves == {"wasm", "media"}
Answers == {"ok", "TypeError", "CompileError", "LinkError", "true", "false"}
Returns == [op : {"compile", "validate", "instantiate"}, module : Modules \cup {None},
            answer : Answers, reached : BOOLEAN, ready : BOOLEAN]

WasmTypeOK ==
  /\ moduleBuilt \in BOOLEAN /\ hooks \in BOOLEAN /\ mainRuns \in BOOLEAN
  /\ attempts \subseteq {"script", "microtask", "timeout"}
  /\ text \subseteq Halves
  /\ binaryen \in {"not asked", "loading", "loaded", "failed"}
  /\ source \in {None} \cup SUBSET Halves
  /\ windows \in 0..MaxWindows
  /\ global \in [bridge : BOOLEAN, WebAssembly : BOOLEAN]
  /\ pageRuns \in BOOLEAN /\ compiled \in BOOLEAN /\ instantiated \in BOOLEAN
  /\ fetching \in BOOLEAN
  /\ returned \in Returns \cup {None}
  /\ wasmCalls \in 0..MaxWasmCalls /\ fetchFaults \in 0..MaxFetchFaults

\* n more scripts that cannot be fetched, or allocations that fail.
Spent(n) == fetchFaults + n <= MaxFetchFaults /\ fetchFaults' = fetchFaults + n

EmptyGlobal == [bridge |-> FALSE, WebAssembly |-> FALSE]

WasmInit ==
  /\ moduleBuilt \in BOOLEAN
  /\ attempts = {"script"} /\ hooks = FALSE /\ text = {} /\ binaryen = "not asked"
  /\ mainRuns = FALSE /\ source = None
  /\ windows = 0 /\ global = EmptyGlobal /\ pageRuns = FALSE
  /\ compiled = FALSE /\ instantiated = FALSE /\ fetching = FALSE
  /\ returned = None /\ wasmCalls = 0 /\ fetchFaults = 0

-----------------------------------------------------------------------------
(* The worker's hooks *)

\* syncFetchText, twice: a script that cannot be had is an empty text.
FetchTexts ==
  \E halves \in SUBSET Halves : Spent(Cardinality(Halves \ halves)) /\ text' = halves

\* installHooks: once, and not before there is a Module.
Install ==
  IF moduleBuilt /\ ~hooks
  THEN hooks' = TRUE /\ FetchTexts /\ binaryen' = "loading"
  ELSE UNCHANGED <<hooks, text, binaryen, fetchFaults>>

\* The script's own attempt; if there is no Module yet, two more are queued.
Attempt(when) ==
  /\ when \in attempts
  /\ attempts' = (attempts \ {when})
                   \cup IF when = "script" /\ ~moduleBuilt THEN {"microtask", "timeout"} ELSE {}
  /\ Install
  /\ UNCHANGED <<moduleBuilt, mainRuns, source, windowVars, returned, wasmCalls>>

BuildModule ==
  /\ ~moduleBuilt /\ "script" \notin attempts
  /\ moduleBuilt' = TRUE
  /\ UNCHANGED <<attempts, hooks, text, binaryen, mainRuns, source, windowVars, returned,
                 wasmCalls, fetchFaults>>

\* main's first statement.
InstallFromMain == Install

MainStarts ==
  /\ moduleBuilt /\ "script" \notin attempts /\ ~mainRuns
  /\ mainRuns' = TRUE
  /\ InstallFromMain
  /\ UNCHANGED <<moduleBuilt, attempts, source, windowVars, returned, wasmCalls>>

\* The import of binaryen.js ends.
BinaryenArrives ==
  /\ binaryen = "loading"
  /\ \/ binaryen' = "loaded" /\ UNCHANGED fetchFaults
     \/ binaryen' = "failed" /\ Spent(1)
  /\ UNCHANGED <<moduleBuilt, attempts, hooks, text, mainRuns, source, windowVars, returned,
                 wasmCalls>>

-----------------------------------------------------------------------------
(* A window: the bridge, the injected scripts, the page *)

\* A wrong form of the next: the early return comes first.
WasmHalfReturnsFirst(g) ==
  IF g.WebAssembly \/ ~g.bridge THEN g ELSE [bridge |-> FALSE, WebAssembly |-> TRUE]
\* The polyfill's script: it takes the bridge whatever it does next.
WasmHalf(g) == [bridge |-> FALSE, WebAssembly |-> g.WebAssembly \/ g.bridge]
\* The first lines of the media stub.
MediaHalf(g) == [g EXCEPT !.bridge = FALSE]

\* The text with the bridge on the global object; no text, no bridge.
Evaluated(halves, g) ==
  IF halves = {} THEN g
  ELSE LET put   == [g EXCEPT !.bridge = TRUE]
           first == IF "wasm" \in halves THEN WasmHalf(put) ELSE put
       IN IF "media" \in halves THEN MediaHalf(first) ELSE first

\* wasmPolyfillSource reads the text at the first use, and keeps it.  Its copy is
\* allocated without a check: where that fails, the empty text is kept.
ReadSource ==
  \/ source' = (IF source = None THEN text ELSE source) /\ UNCHANGED fetchFaults
  \/ /\ source = None /\ text # {}
     /\ source' = {} /\ Spent(1)

\* A new window object.
NewWindow ==
  /\ mainRuns /\ windows < MaxWindows
  /\ windows' = windows + 1
  /\ ReadSource
  /\ global' = Evaluated(source', EmptyGlobal)
  /\ pageRuns' = FALSE
  /\ compiled' = FALSE /\ instantiated' = FALSE /\ fetching' = FALSE /\ returned' = None
  /\ UNCHANGED <<moduleBuilt, attempts, hooks, text, binaryen, mainRuns, wasmCalls>>

\* The window is announced again, for a document that takes it over.
SameWindow ==
  /\ windows > 0
  /\ global' = Evaluated(source, global)
  /\ returned' = None
  /\ UNCHANGED <<workerVars, windows, pageRuns, compiled, instantiated, fetching, wasmCalls,
                 fetchFaults>>

PageStarts ==
  /\ windows > 0 /\ ~pageRuns
  /\ pageRuns' = TRUE
  /\ UNCHANGED <<workerVars, windows, global, compiled, instantiated, fetching, returned,
                 wasmCalls, fetchFaults>>

-----------------------------------------------------------------------------
(* The bridge: the host function and Module.bibWasm2js *)

Ready == hooks /\ binaryen = "loaded"
Readable(m) == WellFormed(m) /\ m.code # "invalid"
Translatable(m) == Readable(m) /\ m.code = "fine" /\ Tables(m) <= 1

\* What comes of the bytes; nothing that is no string.  A string is copied, and where
\* the copy cannot be allocated the bridge returns null: "no memory".
Result(m, mode) ==
  IF mode = "validate" THEN (IF Readable(m) THEN "1" ELSE "0")
  ELSE IF Translatable(m) THEN "factory" ELSE "null"
Bridge(m, mode) ==
  LET result == IF Ready THEN Result(m, mode) ELSE "null"
  IN IF result = "null" THEN {"null"} ELSE {result, "no memory"}
Short(result) == IF result = "no memory" THEN 1 ELSE 0

-----------------------------------------------------------------------------
(* The API *)

WasmCall ==
  /\ pageRuns /\ global.WebAssembly /\ wasmCalls < MaxWasmCalls
  /\ returned = None
  /\ wasmCalls' = wasmCalls + 1

\* The guest has its answer; nothing else runs on the engine's thread before.
CallReturns ==
  /\ returned # None
  /\ returned' = None
  /\ UNCHANGED <<workerVars, windowVars, wasmCalls, fetchFaults>>

Return(op, m, answer, reached, ready) ==
  returned' = [op |-> op, module |-> m, answer |-> answer, reached |-> reached,
               ready |-> ready]

\* new Module: modules with several tables are rejected without the bridge.
Compile(m) ==
  IF definedTableCount(m) > 1
  THEN Return("compile", m, "CompileError", FALSE, Ready) /\ UNCHANGED <<compiled, fetchFaults>>
  ELSE \E result \in Bridge(m, "translate") :
         /\ Spent(Short(result))
         /\ compiled' = (compiled \/ result = "factory")
         /\ Return("compile", m, IF result = "factory" THEN "ok" ELSE "CompileError",
                   TRUE, Ready /\ result # "no memory")

\* Module, compile, and instantiate of bytes.
NewModule(m) ==
  /\ WasmCall /\ Compile(m)
  /\ UNCHANGED <<workerVars, windows, global, pageRuns, instantiated, fetching>>

\* compileStreaming, instantiateStreaming: the bytes come later, if the response is good.
Stream ==
  /\ WasmCall /\ ~fetching
  /\ fetching' = TRUE
  /\ UNCHANGED <<workerVars, windows, global, pageRuns, compiled, instantiated, returned,
                 fetchFaults>>

StreamArrives ==
  /\ fetching
  /\ fetching' = FALSE
  /\ \/ \E m \in Modules : Compile(m)
     \/ Return("compile", None, "TypeError", FALSE, Ready) /\ UNCHANGED <<compiled, fetchFaults>>
  /\ UNCHANGED <<workerVars, windows, global, pageRuns, instantiated, wasmCalls>>

\* Instance of a Module or of something else; its factory may throw.
NewInstance ==
  /\ WasmCall
  /\ \/ /\ compiled
        /\ \/ Return("instantiate", None, "ok", FALSE, Ready) /\ instantiated' = TRUE
           \/ /\ \E error \in {"LinkError", "CompileError"} :
                   Return("instantiate", None, error, FALSE, Ready)
              /\ UNCHANGED instantiated
     \/ Return("instantiate", None, "TypeError", FALSE, Ready) /\ UNCHANGED instantiated
  /\ UNCHANGED <<workerVars, windows, global, pageRuns, compiled, fetching, fetchFaults>>

Validate(m) ==
  /\ WasmCall
  /\ \/ /\ m.head = "no magic"
        /\ Return("validate", m, "false", FALSE, Ready) /\ UNCHANGED fetchFaults
     \/ /\ m.head # "no magic" /\ definedTableCount(m) > 1
        /\ Return("validate", m, "true", FALSE, Ready) /\ UNCHANGED fetchFaults
     \/ /\ m.head # "no magic" /\ ~(definedTableCount(m) > 1)
        /\ \E result \in Bridge(m, "validate") :
             /\ Spent(Short(result))
             /\ Return("validate", m, IF result = "1" THEN "true" ELSE "false", TRUE,
                       Ready /\ result # "no memory")
  /\ UNCHANGED <<workerVars, windowVars>>

-----------------------------------------------------------------------------
BootStep == (\E when \in {"script", "microtask", "timeout"} : Attempt(when))
              \/ BuildModule \/ MainStarts \/ BinaryenArrives
WasmStep == (\E m \in Modules : NewModule(m) \/ Validate(m))
              \/ Stream \/ StreamArrives \/ NewInstance

-----------------------------------------------------------------------------
(* Properties *)

\* Whatever the scripts could be fetched and however often a window is announced,
\* the page's own scripts never run with the bridge on the global object.
BridgeTakenBack == pageRuns => ~global.bridge

\* The text every window gets is the one the hooks fetched: the first window cannot
\* freeze the emptiness from before the hooks for the rest of the session.  Only a
\* failed allocation can leave the session without it.
TextNotFrozenEarly ==
  source # None => hooks /\ (source = text \/ (source = {} /\ fetchFaults > 0))

\* Every page gets the scripts that could be fetched, and never the bridge itself.
InjectionSound == BridgeTakenBack /\ TextNotFrozenEarly

\* The pre-scan decides the right modules, whatever the bytes: short and padded
\* numbers, contents that look like sections, a section too many, cut off at any
\* byte, invalid inside.  No module whose bytes list several tables ever reaches
\* binaryen, which would grind through it for a minute, and every other is decided
\* there.  No false reject: what can be translated is compiled, and nothing else is;
\* what is readable validates.  Nothing unreadable validates either, except bytes
\* that list several tables and are broken elsewhere: the script says "true" of them
\* without looking further.
ScanTellsTables ==
  LET m == returned.module
      several == m.head = "v1" /\ Tables(m) > 1
  IN (returned # None /\ returned.module # None) =>
       /\ several => ~returned.reached
       /\ ~several /\ m.head # "no magic" => returned.reached
       /\ returned.op = "compile" =>
            /\ returned.answer = "ok" => Translatable(m)
            /\ Translatable(m) /\ returned.ready => returned.answer = "ok"
       /\ returned.op = "validate" =>
            /\ Readable(m) /\ (returned.ready \/ several) => returned.answer = "true"
            /\ returned.answer = "true" => Readable(m) \/ several
=============================================================================
