--------------------------- MODULE GuestPageProofs ---------------------------
(***************************************************************************)
(* Proofs about what a guest page finds in place of the web APIs that the  *)
(* engine lacks.  Each of the parts that GuestPage composes has an         *)
(* inductive invariant of its own: WInv for the injection of the polyfill, *)
(* SInv for the media stub, MInv for the media bridge, and one for each of *)
(* the two acceptance tests.  A step of the page changes the state of one  *)
(* part, or of several through the same operators.  The last part is about *)
(* the server that the page comes from (DevServer).                        *)
(***************************************************************************)
EXTENDS GuestPage, DevServer, SequenceLemmas, FiniteSetTheorems

-----------------------------------------------------------------------------
(* The polyfill's injection *)

WInv ==
  /\ WasmTypeOK
  /\ mainRuns => hooks
  /\ TextNotFrozenEarly
  /\ windows > 0 => mainRuns /\ source \in SUBSET Halves
  /\ pageRuns => windows > 0
  /\ ~global.bridge
  /\ fetchFaults = 0 /\ hooks => text = Halves
  /\ fetchFaults = 0 /\ windows > 0 => global.WebAssembly

LEMMA WInitWInv == WasmInit => WInv
<1> SUFFICES ASSUME WasmInit PROVE WInv
  OBVIOUS
<1>1. EmptyGlobal \in [bridge : BOOLEAN, WebAssembly : BOOLEAN] /\ ~EmptyGlobal.bridge
  BY DEF EmptyGlobal
<1>2. 0 \in 0..MaxWindows /\ 0 \in 0..MaxWasmCalls /\ 0 \in 0..MaxFetchFaults
  BY WasmAssumption
<1>3. WasmTypeOK
  BY <1>1, <1>2 DEF WasmInit, WasmTypeOK
<1>4. ~mainRuns /\ source = None /\ ~hooks /\ ~pageRuns /\ ~global.bridge /\ windows = 0
  BY <1>1 DEF WasmInit
<1>5. ~(windows > 0)
  BY <1>4
<1> QED
  BY <1>3, <1>4, <1>5 DEF WInv, TextNotFrozenEarly

\* Scripts that could not be fetched are counted, all of them.
LEMMA FetchCounts ==
  ASSUME FetchTexts, fetchFaults \in 0..MaxFetchFaults
  PROVE  /\ text' \subseteq Halves
         /\ fetchFaults' \in 0..MaxFetchFaults /\ fetchFaults' >= fetchFaults
         /\ fetchFaults' = 0 => text' = Halves
<1>1. PICK halves \in SUBSET Halves :
        /\ fetchFaults + Cardinality(Halves \ halves) <= MaxFetchFaults
        /\ fetchFaults' = fetchFaults + Cardinality(Halves \ halves)
        /\ text' = halves
  BY DEF FetchTexts, Spent
<1>2. IsFiniteSet(Halves)
  <2>1. IsFiniteSet({"wasm"}) /\ IsFiniteSet({"wasm"} \cup {"media"})
    BY FS_Singleton, FS_AddElement
  <2>2. Halves = {"wasm"} \cup {"media"}
    BY DEF Halves
  <2> QED
    BY <2>1, <2>2
<1>3. IsFiniteSet(Halves \ halves) /\ Cardinality(Halves \ halves) \in Nat
  BY <1>2, FS_Subset, FS_CardinalityType
<1>4. Cardinality(Halves \ halves) = 0 => halves = Halves
  BY <1>3, FS_EmptySet
<1> HIDE DEF Halves
<1>5. /\ MaxFetchFaults \in Nat /\ fetchFaults \in Nat
  BY WasmAssumption
<1> DEFINE missing == Cardinality(Halves \ halves)
<1>6. missing \in Nat /\ fetchFaults' = fetchFaults + missing
      /\ fetchFaults + missing <= MaxFetchFaults
  BY <1>1, <1>3
<1> HIDE DEF missing
<1>7. /\ fetchFaults' \in 0..MaxFetchFaults /\ fetchFaults' >= fetchFaults
      /\ fetchFaults' = 0 => missing = 0
  BY <1>5, <1>6
<1> QED
  BY <1>1, <1>4, <1>7 DEF missing

\* The evaluated scripts leave no bridge behind, and the API where its half is there.
LEMMA EvaluatedTakesBridge ==
  ASSUME NEW halves \in SUBSET Halves, NEW g \in [bridge : BOOLEAN, WebAssembly : BOOLEAN],
         ~g.bridge
  PROVE  /\ Evaluated(halves, g) \in [bridge : BOOLEAN, WebAssembly : BOOLEAN]
         /\ ~Evaluated(halves, g).bridge
         /\ halves = Halves \/ (halves # {} /\ g.WebAssembly) => Evaluated(halves, g).WebAssembly
         /\ g.WebAssembly => Evaluated(halves, g).WebAssembly
<1>1. CASE halves = {}
  BY <1>1 DEF Evaluated, Halves
<1>2. CASE halves # {}
  <2> DEFINE put == [g EXCEPT !.bridge = TRUE]
             first == IF "wasm" \in halves THEN WasmHalf(put) ELSE put
             last == IF "media" \in halves THEN MediaHalf(first) ELSE first
  <2> DEFINE G == [bridge : BOOLEAN, WebAssembly : BOOLEAN]
  <2>1. put \in G /\ put.bridge /\ put.WebAssembly = g.WebAssembly
    OBVIOUS
  <2> HIDE DEF put
  <2>2. /\ first \in G
        /\ "wasm" \in halves => ~first.bridge /\ first.WebAssembly
        /\ "wasm" \notin halves => first = put
    BY <2>1 DEF WasmHalf
  <2> HIDE DEF first
  <2>3. /\ last \in G /\ ~last.bridge
        /\ "wasm" \in halves => last.WebAssembly
        /\ "wasm" \notin halves => last.WebAssembly = g.WebAssembly
    <3>1. "wasm" \in halves \/ "media" \in halves
      BY <1>2 DEF Halves
    <3>2. CASE "media" \in halves
      BY <2>1, <2>2, <3>2 DEF MediaHalf
    <3>3. CASE "media" \notin halves
      BY <2>2, <3>1, <3>3
    <3> QED
      BY <3>2, <3>3
  <2>4. Evaluated(halves, g) = last
    BY <1>2 DEF Evaluated, last, first, put
  <2>5. halves = Halves => "wasm" \in halves
    BY DEF Halves
  <2> HIDE DEF last
  <2> QED
    BY <2>3, <2>4, <2>5
<1> QED
  BY <1>1, <1>2


\* The count of the failures only grows.
LEMMA FaultsGrow ==
  ASSUME NEW n \in Nat, fetchFaults \in 0..MaxFetchFaults, Spent(n)
  PROVE  /\ fetchFaults' \in 0..MaxFetchFaults /\ fetchFaults' >= fetchFaults + n
         /\ fetchFaults' = 0 => fetchFaults = 0
BY WasmAssumption DEF Spent

LEMMA WithFaults ==
  ASSUME NEW a \in 0..MaxFetchFaults, NEW b \in 0..MaxFetchFaults, b = 0 => a = 0
  PROVE  a > 0 => b > 0
BY WasmAssumption

\* A step of the page's own scripts, which may be short of memory but changes nothing
\* that was injected.
LEMMA CallsKeepWInv ==
  ASSUME WInv, UNCHANGED <<workerVars, windows, global, pageRuns>>,
         compiled' \in BOOLEAN, instantiated' \in BOOLEAN, fetching' \in BOOLEAN,
         returned' \in Returns \cup {None}, wasmCalls' \in 0..MaxWasmCalls,
         fetchFaults' \in 0..MaxFetchFaults, fetchFaults' = 0 => fetchFaults = 0
  PROVE  WInv'
<1>1. UNCHANGED <<moduleBuilt, attempts, hooks, text, binaryen, mainRuns, source>>
  BY DEF workerVars
<1>2. WasmTypeOK'
  BY <1>1 DEF WInv, WasmTypeOK
<1> QED
  BY <1>1, <1>2, WithFaults DEF WInv, WasmTypeOK, TextNotFrozenEarly

LEMMA InstallKeeps ==
  ASSUME WInv, Install
  PROVE  /\ hooks' \in BOOLEAN /\ text' \subseteq Halves /\ fetchFaults' \in 0..MaxFetchFaults
         /\ binaryen' \in {"not asked", "loading", "loaded", "failed"}
         /\ moduleBuilt => hooks'
         /\ hooks => hooks' /\ UNCHANGED <<text, binaryen, fetchFaults>>
         /\ fetchFaults' = 0 => fetchFaults = 0
         /\ fetchFaults' = 0 /\ hooks' => text' = Halves
<1>1. /\ hooks \in BOOLEAN /\ text \subseteq Halves /\ fetchFaults \in 0..MaxFetchFaults
      /\ binaryen \in {"not asked", "loading", "loaded", "failed"}
      /\ fetchFaults = 0 /\ hooks => text = Halves
  BY DEF WInv, WasmTypeOK
<1>2. CASE moduleBuilt /\ ~hooks
  <2>1. hooks' = TRUE /\ FetchTexts /\ binaryen' = "loading"
    BY <1>2 DEF Install
  <2>2. /\ text' \subseteq Halves
        /\ fetchFaults' \in 0..MaxFetchFaults /\ fetchFaults' >= fetchFaults
        /\ fetchFaults' = 0 => text' = Halves
    BY <1>1, <2>1, FetchCounts
  <2>3. fetchFaults' = 0 => fetchFaults = 0
    <3> DEFINE a == fetchFaults
               b == fetchFaults'
    <3>1. a \in 0..MaxFetchFaults /\ b >= a /\ b \in 0..MaxFetchFaults
      BY <1>1, <2>2
    <3> HIDE DEF a, b
    <3>2. b = 0 => a = 0
      BY <3>1, WasmAssumption
    <3> QED
      BY <3>2 DEF a, b
  <2> QED
    BY <1>2, <2>1, <2>2, <2>3
<1>3. CASE ~(moduleBuilt /\ ~hooks)
  BY <1>1, <1>3 DEF Install
<1> QED
  BY <1>2, <1>3

LEMMA BootKeepsWInv ==
  ASSUME WInv, BootStep
  PROVE  WInv' /\ UNCHANGED <<windowVars, returned, wasmCalls>> /\ (hooks => hooks')
         /\ (binaryen = "loaded" /\ hooks => binaryen' = "loaded")
         /\ (fetchFaults' = 0 => fetchFaults = 0)
<1> DEFINE Goal == /\ WInv' /\ UNCHANGED <<windowVars, returned, wasmCalls>> /\ (hooks => hooks')
                   /\ (binaryen = "loaded" /\ hooks => binaryen' = "loaded")
                   /\ (fetchFaults' = 0 => fetchFaults = 0)
<1>1. ASSUME Install, UNCHANGED <<moduleBuilt, source, windowVars, returned, wasmCalls>>,
             attempts' \subseteq {"script", "microtask", "timeout"},
             mainRuns' \in BOOLEAN, mainRuns => mainRuns', mainRuns' => mainRuns \/ moduleBuilt
      PROVE  Goal
  <2>1. UNCHANGED <<windows, global, pageRuns, compiled, instantiated, fetching>>
    BY <1>1 DEF windowVars
  <2>2. WasmTypeOK'
    BY <1>1, <2>1, InstallKeeps DEF WInv, WasmTypeOK
  <2>3. mainRuns' => hooks'
    BY <1>1, InstallKeeps DEF WInv
  <2>4. TextNotFrozenEarly'
    <3>1. TextNotFrozenEarly /\ fetchFaults \in 0..MaxFetchFaults
      BY DEF WInv, WasmTypeOK
    <3>2. hooks => UNCHANGED <<hooks, text, fetchFaults>>
      BY InstallKeeps, <1>1 DEF WInv, WasmTypeOK
    <3> QED
      BY <1>1, <3>1, <3>2 DEF TextNotFrozenEarly
  <2>5. windows' > 0 => mainRuns' /\ source' \in SUBSET Halves
    BY <1>1, <2>1, InstallKeeps DEF WInv
  <2>6. fetchFaults' = 0 => fetchFaults = 0
    BY <1>1, InstallKeeps
  <2>7. /\ fetchFaults' = 0 /\ hooks' => text' = Halves
        /\ hooks => hooks' /\ UNCHANGED <<text, binaryen, fetchFaults>>
    BY <1>1, InstallKeeps
  <2>8. WInv'
    BY <2>1, <2>2, <2>3, <2>4, <2>5, <2>6, <2>7 DEF WInv
  <2> QED
    BY <1>1, <2>6, <2>7, <2>8
<1>2. ASSUME NEW when \in {"script", "microtask", "timeout"}, Attempt(when) PROVE Goal
  <2>1. /\ Install /\ UNCHANGED <<moduleBuilt, mainRuns, source, windowVars, returned, wasmCalls>>
        /\ attempts' \subseteq {"script", "microtask", "timeout"}
    BY <1>2 DEF Attempt, WInv, WasmTypeOK
  <2>2. mainRuns \in BOOLEAN
    BY DEF WInv, WasmTypeOK
  <2> QED
    BY <1>1, <2>1, <2>2
<1>3. ASSUME MainStarts PROVE Goal
  <2>1. /\ Install /\ UNCHANGED <<moduleBuilt, attempts, source, windowVars, returned, wasmCalls>>
        /\ moduleBuilt /\ mainRuns' = TRUE
    BY <1>3 DEF MainStarts, InstallFromMain
  <2>2. attempts \subseteq {"script", "microtask", "timeout"}
    BY DEF WInv, WasmTypeOK
  <2> QED
    BY <1>1, <2>1, <2>2
<1>4. ASSUME BuildModule PROVE Goal
  <2>1. /\ moduleBuilt' = TRUE
        /\ UNCHANGED <<attempts, hooks, text, binaryen, mainRuns, source, windowVars, returned,
                       wasmCalls, fetchFaults>>
    BY <1>4 DEF BuildModule
  <2>2. UNCHANGED <<windows, global, pageRuns, compiled, instantiated, fetching>>
    BY <2>1 DEF windowVars
  <2>3. WasmTypeOK'
    BY <2>1, <2>2 DEF WInv, WasmTypeOK
  <2> QED
    BY <2>1, <2>2, <2>3 DEF WInv, TextNotFrozenEarly
<1>5. ASSUME BinaryenArrives PROVE Goal
  <2>1. /\ binaryen = "loading" /\ binaryen' \in {"loaded", "failed"}
        /\ UNCHANGED <<moduleBuilt, attempts, hooks, text, mainRuns, source, windowVars, returned,
                       wasmCalls>>
        /\ fetchFaults' = fetchFaults \/ Spent(1)
    BY <1>5 DEF BinaryenArrives
  <2>2. UNCHANGED <<windows, global, pageRuns, compiled, instantiated, fetching>>
    BY <2>1 DEF windowVars
  <2>3. fetchFaults \in 0..MaxFetchFaults /\ MaxFetchFaults \in Nat
    BY WasmAssumption DEF WInv, WasmTypeOK
  <2>4. fetchFaults' \in 0..MaxFetchFaults /\ (fetchFaults' = 0 => fetchFaults = 0)
    BY <2>1, <2>3, FaultsGrow
  <2>5. WasmTypeOK'
    BY <2>1, <2>2, <2>4 DEF WInv, WasmTypeOK
  <2>6. WInv'
    BY <2>1, <2>2, <2>3, <2>4, <2>5, WithFaults DEF WInv, TextNotFrozenEarly
  <2> QED
    BY <2>1, <2>4, <2>6
<1> QED
  BY <1>2, <1>3, <1>4, <1>5 DEF BootStep

LEMMA WindowsKeepWInv ==
  ASSUME WInv, NewWindow \/ SameWindow \/ PageStarts \/ CallReturns
  PROVE  WInv'
<1> DEFINE G == [bridge : BOOLEAN, WebAssembly : BOOLEAN]
<1>1. ASSUME NewWindow PROVE WInv'
  <2>1. /\ mainRuns /\ windows < MaxWindows /\ windows' = windows + 1 /\ ReadSource
        /\ global' = Evaluated(source', EmptyGlobal) /\ ~pageRuns'
        /\ pageRuns' = FALSE /\ compiled' = FALSE /\ instantiated' = FALSE /\ fetching' = FALSE
        /\ returned' = None
        /\ UNCHANGED <<moduleBuilt, attempts, hooks, text, binaryen, mainRuns, wasmCalls>>
    BY <1>1 DEF NewWindow
  <2>2. /\ hooks /\ text \in SUBSET Halves /\ fetchFaults \in 0..MaxFetchFaults
        /\ source # None => source = text \/ (source = {} /\ fetchFaults > 0)
    BY <2>1 DEF WInv, WasmTypeOK, TextNotFrozenEarly
  <2>3. /\ fetchFaults' \in 0..MaxFetchFaults /\ (fetchFaults' = 0 => fetchFaults = 0)
        /\ source' = text \/ (source' = {} /\ fetchFaults' > 0)
    <3>1. CASE source' = (IF source = None THEN text ELSE source) /\ UNCHANGED fetchFaults
      BY <2>2, <3>1
    <3>2. CASE source' = {} /\ Spent(1)
      <4>1. fetchFaults' \in 0..MaxFetchFaults /\ fetchFaults' >= fetchFaults + 1
            /\ (fetchFaults' = 0 => fetchFaults = 0)
        BY <2>2, <3>2, FaultsGrow
      <4>2. fetchFaults' > 0
        BY <2>2, <4>1, WasmAssumption
      <4> QED
        BY <3>2, <4>1, <4>2
    <3> QED
      BY <2>1, <3>1, <3>2 DEF ReadSource
  <2>4. EmptyGlobal \in G /\ ~EmptyGlobal.bridge
    BY DEF EmptyGlobal
  <2>5. /\ source' \in SUBSET Halves /\ global' \in G /\ ~global'.bridge
        /\ source' = Halves => global'.WebAssembly
    BY <2>1, <2>2, <2>3, <2>4, EvaluatedTakesBridge
  <2>6. windows' \in 0..MaxWindows
    <3>1. windows \in 0..MaxWindows /\ MaxWindows \in Nat
      BY WasmAssumption DEF WInv, WasmTypeOK
    <3> QED
      BY <2>1, <3>1
  <2>7. WasmTypeOK'
    BY <2>1, <2>2, <2>3, <2>5, <2>6 DEF WInv, WasmTypeOK
  <2>8. fetchFaults' = 0 => global'.WebAssembly /\ text' = Halves
    BY <2>1, <2>2, <2>3, <2>5 DEF WInv
  <2> QED
    BY <2>1, <2>2, <2>3, <2>5, <2>7, <2>8 DEF WInv, TextNotFrozenEarly
<1>2. ASSUME SameWindow PROVE WInv'
  <2>1. /\ windows > 0 /\ global' = Evaluated(source, global) /\ returned' = None
        /\ UNCHANGED <<workerVars, windows, pageRuns, compiled, instantiated, fetching, wasmCalls,
                       fetchFaults>>
    BY <1>2 DEF SameWindow
  <2>2. /\ source \in SUBSET Halves /\ global \in G /\ ~global.bridge
        /\ fetchFaults = 0 => global.WebAssembly
    BY <2>1 DEF WInv, WasmTypeOK
  <2>3. /\ global' \in G /\ ~global'.bridge
        /\ global.WebAssembly => global'.WebAssembly
    BY <2>1, <2>2, EvaluatedTakesBridge
  <2>4. UNCHANGED <<moduleBuilt, attempts, hooks, text, binaryen, mainRuns, source>>
    BY <2>1 DEF workerVars
  <2>5. WasmTypeOK'
    BY <2>1, <2>3, <2>4 DEF WInv, WasmTypeOK
  <2> QED
    BY <2>1, <2>2, <2>3, <2>4, <2>5 DEF WInv, TextNotFrozenEarly
<1>3. ASSUME PageStarts PROVE WInv'
  <2>1. /\ windows > 0 /\ pageRuns' = TRUE
        /\ UNCHANGED <<workerVars, windows, global, compiled, instantiated, fetching, returned,
                       wasmCalls, fetchFaults>>
    BY <1>3 DEF PageStarts
  <2>2. UNCHANGED <<moduleBuilt, attempts, hooks, text, binaryen, mainRuns, source>>
    BY <2>1 DEF workerVars
  <2>3. WasmTypeOK'
    BY <2>1, <2>2 DEF WInv, WasmTypeOK
  <2> QED
    BY <2>1, <2>2, <2>3 DEF WInv, TextNotFrozenEarly
<1>4. ASSUME CallReturns PROVE WInv'
  BY <1>4, CallsKeepWInv DEF CallReturns, windowVars, WInv, WasmTypeOK
<1> QED
  BY <1>1, <1>2, <1>3, <1>4

LEMMA CompileTyped ==
  ASSUME WInv, NEW m \in Modules, Compile(m)
  PROVE  /\ compiled' \in BOOLEAN /\ returned' \in Returns
         /\ fetchFaults' \in 0..MaxFetchFaults /\ (fetchFaults' = 0 => fetchFaults = 0)
<1>1. compiled \in BOOLEAN /\ fetchFaults \in 0..MaxFetchFaults /\ Ready \in BOOLEAN
  BY DEF WInv, WasmTypeOK, Ready
<1>2. ASSUME NEW outcome \in {"ok", "CompileError"}, NEW reached \in BOOLEAN, NEW ready \in BOOLEAN,
             Return("compile", m, outcome, reached, ready)
      PROVE  returned' \in Returns
  BY <1>2 DEF Return, Returns, Answers
<1>3. CASE definedTableCount(m) > 1
  BY <1>1, <1>2, <1>3 DEF Compile
<1>4. CASE ~(definedTableCount(m) > 1)
  <2>1. PICK result \in Bridge(m, "translate") :
          /\ Spent(Short(result))
          /\ compiled' = (compiled \/ result = "factory")
          /\ Return("compile", m, IF result = "factory" THEN "ok" ELSE "CompileError",
                    TRUE, Ready /\ result # "no memory")
    BY <1>4 DEF Compile
  <2>2. returned' \in Returns
    <3>1. (Ready /\ result # "no memory") \in BOOLEAN
      OBVIOUS
    <3>2. (IF result = "factory" THEN "ok" ELSE "CompileError") \in {"ok", "CompileError"}
      OBVIOUS
    <3> QED
      BY <1>2, <2>1, <3>1, <3>2
  <2>3. Short(result) \in Nat
    BY DEF Short
  <2>4. fetchFaults' \in 0..MaxFetchFaults /\ (fetchFaults' = 0 => fetchFaults = 0)
    BY <1>1, <2>1, <2>3, FaultsGrow
  <2> QED
    BY <1>1, <2>1, <2>2, <2>4
<1> QED
  BY <1>3, <1>4

LEMMA WasmStepKeepsWInv ==
  ASSUME WInv, WasmStep
  PROVE  WInv'
<1>1. /\ compiled \in BOOLEAN /\ instantiated \in BOOLEAN /\ fetching \in BOOLEAN
      /\ returned \in Returns \cup {None} /\ wasmCalls \in 0..MaxWasmCalls
      /\ fetchFaults \in 0..MaxFetchFaults /\ Ready \in BOOLEAN
  BY DEF WInv, WasmTypeOK, Ready
<1>2. ASSUME WasmCall PROVE wasmCalls' \in 0..MaxWasmCalls
  BY <1>1, <1>2, WasmAssumption DEF WasmCall
<1>3. ASSUME NEW op \in {"compile", "validate", "instantiate"}, NEW m \in Modules \cup {None},
             NEW outcome \in Answers, NEW reached \in BOOLEAN, NEW ready \in BOOLEAN,
             Return(op, m, outcome, reached, ready)
      PROVE  returned' \in Returns \cup {None}
  BY <1>1, <1>3 DEF Return, Returns
<1> HIDE DEF Modules
<1>4. ASSUME NEW m \in Modules, NewModule(m) PROVE WInv'
  BY <1>1, <1>2, <1>4, CompileTyped, CallsKeepWInv DEF NewModule
<1>5. ASSUME NEW m \in Modules, Validate(m) PROVE WInv'
  <2>1. WasmCall /\ UNCHANGED <<workerVars, windowVars>>
    BY <1>5 DEF Validate
  <2>2. (\E result : Spent(Short(result))) \/ UNCHANGED fetchFaults
    BY <1>5 DEF Validate
  <2>3. fetchFaults' \in 0..MaxFetchFaults /\ (fetchFaults' = 0 => fetchFaults = 0)
    <3>1. \A result : Short(result) \in Nat
      BY DEF Short
    <3> QED
      BY <1>1, <2>2, <3>1, FaultsGrow
  <2>4. \E outcome \in {"true", "false"}, reached \in BOOLEAN, ready \in BOOLEAN :
          Return("validate", m, outcome, reached, ready)
    BY <1>1, <1>5 DEF Validate
  <2>5. returned' \in Returns \cup {None}
    BY <1>3, <2>4 DEF Answers
  <2> QED
    BY <1>1, <1>2, <2>1, <2>3, <2>5, CallsKeepWInv DEF windowVars
<1>6. ASSUME Stream PROVE WInv'
  BY <1>1, <1>2, <1>6, CallsKeepWInv DEF Stream
<1>7. ASSUME StreamArrives PROVE WInv'
  <2>1. /\ fetching' = FALSE
        /\ UNCHANGED <<workerVars, windows, global, pageRuns, instantiated, wasmCalls>>
        /\ \/ \E m \in Modules : Compile(m)
           \/ Return("compile", None, "TypeError", FALSE, Ready) /\ UNCHANGED <<compiled, fetchFaults>>
    BY <1>7 DEF StreamArrives
  <2>2. CASE \E m \in Modules : Compile(m)
    BY <1>1, <2>1, <2>2, CompileTyped, CallsKeepWInv
  <2>3. CASE Return("compile", None, "TypeError", FALSE, Ready) /\ UNCHANGED <<compiled, fetchFaults>>
    <3>1. returned' \in Returns \cup {None}
      BY <1>1, <1>3, <2>3 DEF Answers
    <3> QED
      BY <1>1, <2>1, <2>3, <3>1, CallsKeepWInv
  <2> QED
    BY <2>1, <2>2, <2>3
<1>8. ASSUME NewInstance PROVE WInv'
  <2>1. /\ WasmCall
        /\ UNCHANGED <<workerVars, windows, global, pageRuns, compiled, fetching, fetchFaults>>
        /\ instantiated' \in BOOLEAN
        /\ \E outcome \in {"ok", "LinkError", "CompileError", "TypeError"} :
             Return("instantiate", None, outcome, FALSE, Ready)
    BY <1>1, <1>8 DEF NewInstance
  <2>2. returned' \in Returns \cup {None}
    BY <1>1, <1>3, <2>1 DEF Answers
  <2> QED
    BY <1>1, <1>2, <2>1, <2>2, CallsKeepWInv
<1> QED
  BY <1>4, <1>5, <1>6, <1>7, <1>8 DEF WasmStep


-----------------------------------------------------------------------------
(* The pre-scan of a module's sections.                                    *)
(*                                                                         *)
(* The scan is a recursive function on positions.  It satisfies the        *)
(* equation that defines it, because each of its steps looks ahead; where  *)
(* each section's bytes stand follows from the lengths of those before it; *)
(* and from the last section to the first, what the scan says at the start *)
(* of a section is what the sections from there on say.                    *)

Byte == 0..255

\* A loop over positions from the end of the bytes to their start: scan is what
\* ScanStep says everywhere.
IsScan(bytes, scan) == scan = [p \in 0..Len(bytes) |-> ScanStep(bytes, scan, p)]

LEMMA BytesAreSmall ==
  ASSUME NEW bytes \in Seq(Byte), NEW p \in Nat
  PROVE  ByteAt(bytes, p) \in 0..255
<1>1. Len(bytes) \in Nat /\ \A i \in 1..Len(bytes) : bytes[i] \in 0..255
  BY LenProperties, ElementOfSeq DEF Byte
<1>2. CASE p < Len(bytes)
  <2>1. p + 1 \in 1..Len(bytes)
    BY <1>1, <1>2
  <2> QED
    BY <1>1, <1>2, <2>1 DEF ByteAt
<1>3. CASE ~(p < Len(bytes))
  BY <1>3 DEF ByteAt
<1> QED
  BY <1>2, <1>3

\* A number read is a number, and reading goes forward.
LEMMA NumbersGoForward ==
  ASSUME NEW bytes \in Seq(Byte), NEW p \in Nat
  PROVE  /\ U32(bytes, p).value \in Nat
         /\ U32(bytes, p).next \in Nat
         /\ U32(bytes, p).next > p
<1> DEFINE b == ByteAt(bytes, p)
           c == ByteAt(bytes, p + 1)
<1>1. b \in 0..255 /\ c \in 0..255
  BY BytesAreSmall
<1>2. b % 128 \in 0..127 /\ c % 128 \in 0..127
  <2> HIDE DEF b, c
  <2> QED
    BY <1>1
<1>3. b \in Nat /\ (b % 128) + 128 * (c % 128) \in Nat
  <2> HIDE DEF b, c
  <2> QED
    BY <1>1, <1>2
<1>4. CASE b < 128
  <2>1. U32(bytes, p) = [value |-> b, next |-> p + 1]
    BY <1>4 DEF U32
  <2> HIDE DEF b
  <2> QED
    BY <1>3, <2>1
<1>5. CASE ~(b < 128)
  <2>1. U32(bytes, p) = [value |-> (b % 128) + 128 * (c % 128), next |-> p + 2]
    BY <1>5 DEF U32
  <2> HIDE DEF b, c
  <2> QED
    BY <1>3, <2>1
<1> QED
  BY <1>4, <1>5

\* What the scan says at p depends on the positions after p alone.
LEMMA ScanLooksAhead ==
  ASSUME NEW bytes \in Seq(Byte), NEW p \in 0..Len(bytes), NEW f, NEW g,
         \A q \in (p + 1)..Len(bytes) : f[q] = g[q]
  PROVE  ScanStep(bytes, f, p) = ScanStep(bytes, g, p)
<1>1. Len(bytes) \in Nat
  BY LenProperties
<1>2. CASE p = Len(bytes)
  BY <1>2 DEF ScanStep
<1>3. CASE p # Len(bytes)
  <2> DEFINE len == U32(bytes, p + 1)
             end == AfterContent(len)
  <2>1. len.value \in Nat /\ len.next \in Nat /\ len.next > p
    <3>1. p + 1 \in Nat
      BY <1>1
    <3>2. len.value \in Nat /\ len.next \in Nat /\ len.next > p + 1
      BY <3>1, NumbersGoForward
    <3> HIDE DEF len
    <3> QED
      BY <3>2, <1>1
  <2>2. end \in Nat /\ end > p
    <3>1. end = len.next + len.value
      BY DEF AfterContent
    <3> HIDE DEF len, end
    <3> QED
      BY <2>1, <3>1, <1>1
  <2>3. end > Len(bytes) \/ f[end] = g[end]
    <3> HIDE DEF end
    <3> QED
      BY <2>2, <1>1
  <2>4. \A h : ScanStep(bytes, h, p) =
                 IF bytes[p + 1] = TableSection THEN U32(bytes, len.next).value
                 ELSE IF end > Len(bytes) THEN 0 ELSE h[end]
    BY <1>3 DEF ScanStep
  <2> HIDE DEF len, end
  <2> QED
    BY <2>3, <2>4
<1> QED
  BY <1>2, <1>3

\* The scan satisfies the equation that defines it: it is there, because every step
\* looks ahead.
LEMMA ScanIsDefined ==
  ASSUME NEW bytes \in Seq(Byte)
  PROVE  \E scan : IsScan(bytes, scan) /\ ScanFrom(bytes) = scan[0]
<1> DEFINE L == Len(bytes)
           From(f, n) == \A p \in (L - n)..L : f[p] = ScanStep(bytes, f, p)
           S == {n \in 0..L : \E f : From(f, n)}
<1>1. L \in Nat
  BY LenProperties
<1> HIDE DEF L
<1>2. 0 \in S
  <2> DEFINE f == [p \in L..L |-> 0]
  <2>1. \A p \in (L - 0)..L : f[p] = ScanStep(bytes, f, p)
    <3> TAKE p \in (L - 0)..L
    <3>1. p = L /\ f[p] = 0
      BY <1>1
    <3>2. ScanStep(bytes, f, p) = 0
      <4> HIDE DEF f
      <4> QED
        BY <3>1 DEF ScanStep, L
    <3> QED
      BY <3>1, <3>2
  <2> HIDE DEF f
  <2>2. \E h : From(h, 0)
    BY <2>1
  <2> HIDE DEF From
  <2> QED
    BY <2>2, <1>1
<1>3. ASSUME NEW n \in 0..(L - 1), n \in S PROVE n + 1 \in S
  <2>1. PICK f : From(f, n)
    BY <1>3
  <2> DEFINE q == L - (n + 1)
             g == [p \in q..L |-> IF p = q THEN ScanStep(bytes, f, q) ELSE f[p]]
  <2>2. q \in 0..L /\ q + 1 = L - n
    BY <1>1
  <2>3. \A p \in (q + 1)..L : f[p] = g[p]
    BY <2>2, <1>1
  <2>4. g[q] = ScanStep(bytes, f, q)
    BY <2>2, <1>1
  <2> HIDE DEF q, g
  <2>5. \A p \in q..L : ScanStep(bytes, f, p) = ScanStep(bytes, g, p)
    <3> TAKE p \in q..L
    <3>1. p \in 0..Len(bytes) /\ \A r \in (p + 1)..Len(bytes) : f[r] = g[r]
      BY <2>2, <2>3, <1>1 DEF L
    <3> QED
      BY <3>1, ScanLooksAhead
  <2>6. \A p \in q..L : g[p] = ScanStep(bytes, g, p)
    <3> TAKE p \in q..L
    <3>1. CASE p = q
      BY <3>1, <2>4, <2>5
    <3>2. CASE p # q
      <4>1. p \in (q + 1)..L /\ p \in (L - n)..L
        BY <3>2, <2>2, <1>1
      <4>2. f[p] = ScanStep(bytes, f, p)
        BY <4>1, <2>1
      <4> QED
        BY <4>1, <4>2, <2>3, <2>5
    <3> QED
      BY <3>1, <3>2
  <2>7. From(g, n + 1)
    BY <2>6 DEF q
  <2>8. n + 1 \in 0..L /\ \E h : From(h, n + 1)
    <3> HIDE DEF From
    <3> QED
      BY <2>7, <1>1
  <2> HIDE DEF From
  <2> QED
    BY <2>8
<1>4. L \in S
  <2> HIDE DEF S
  <2>1. 0..L \subseteq S
    BY <1>1, <1>2, <1>3, Induction
  <2> QED
    BY <2>1, <1>1
<1>5. PICK f : From(f, L)
  BY <1>4
<1> DEFINE h == [p \in 0..Len(bytes) |-> f[p]]
<1>6. IsScan(bytes, h)
  <2>1. \A p \in 0..Len(bytes) : f[p] = h[p] /\ f[p] = ScanStep(bytes, f, p)
    BY <1>5, <1>1 DEF L
  <2> HIDE DEF h
  <2>2. ASSUME NEW p \in 0..Len(bytes) PROVE h[p] = ScanStep(bytes, h, p)
    <3>1. \A q \in (p + 1)..Len(bytes) : f[q] = h[q]
      BY <2>1, <1>1 DEF L
    <3>2. ScanStep(bytes, f, p) = ScanStep(bytes, h, p)
      BY <3>1, ScanLooksAhead
    <3> QED
      BY <3>2, <2>1
  <2>3. h = [p \in 0..Len(bytes) |-> h[p]]
    BY DEF h
  <2> QED
    BY <2>2, <2>3 DEF IsScan
<1>7. \E scan : IsScan(bytes, scan)
  <2> HIDE DEF h
  <2> QED
    BY <1>6
<1> DEFINE c == CHOOSE scan : IsScan(bytes, scan)
<1>8. IsScan(bytes, c)
  <2> QED
    BY <1>7
<1>9. ScanFrom(bytes) = c[0]
  BY Zenon DEF ScanFrom, IsScan
<1> HIDE DEF c
<1> QED
  BY <1>8, <1>9


\* Where the elements of seqs[k] stand in the concatenation flat of all of seqs: from
\* at[k] + 1 to at[k + 1].
Layout(seqs, flat, at) ==
  /\ at \in [1..(Len(seqs) + 1) -> Nat]
  /\ at[1] = 0 /\ at[Len(seqs) + 1] = Len(flat)
  /\ \A k \in 1..Len(seqs) : at[k + 1] = at[k] + Len(seqs[k])
  /\ \A k \in 1..Len(seqs) : \A j \in 1..Len(seqs[k]) : flat[at[k] + j] = seqs[k][j]

\* FlattenSeq satisfies its equation.
LEMMA FlattenIsDefined ==
  ASSUME NEW S, NEW seqs \in Seq(Seq(S)), Len(seqs) # 0
  PROVE  \E h \in [1..Len(seqs) -> Seq(S)] :
           /\ h[1] = seqs[1]
           /\ \A i \in 2..Len(seqs) : h[i] = h[i - 1] \o seqs[i]
           /\ FlattenSeq(seqs) = h[Len(seqs)]
<1> DEFINE L == Len(seqs)
           Flat(h) == h = [i \in 1..L |-> IF i = 1 THEN seqs[i] ELSE h[i - 1] \o seqs[i]]
           X == Seq(S)
           step == [n \in 1..(L - 1) |-> [x \in X |-> x \o seqs[n + 1]]]
<1>1. L \in Nat \ {0} /\ \A i \in 1..L : seqs[i] \in X
  BY LenProperties, ElementOfSeq
<1>2. step \in [1..(L - 1) -> [X -> X]]
  <2>1. ASSUME NEW n \in 1..(L - 1), NEW x \in X PROVE x \o seqs[n + 1] \in X
    <3>1. n + 1 \in 1..L
      BY <1>1
    <3>2. seqs[n + 1] \in X
      BY <3>1, <1>1
    <3> QED
      BY <3>2, ConcatProperties
  <2> HIDE DEF X, L
  <2> QED
    BY <2>1
<1>3. L - 1 \in Nat /\ 1 \in 1..L
  BY <1>1
<1>4. PICK f : LoopRun(f, X, seqs[1], L - 1, step)
  <2> HIDE DEF X, L, step
  <2> QED
    BY <1>1, <1>2, <1>3, LoopRuns
<1>5. f \in [0..(L - 1) -> X] /\ f[0] = seqs[1]
      /\ \A n \in 1..(L - 1) : f[n] = f[n - 1] \o seqs[n + 1]
  <2>1. f \in [0..(L - 1) -> X] /\ f[0] = seqs[1]
        /\ \A n \in 1..(L - 1) : f[n] = step[n][f[n - 1]]
    BY <1>4 DEF LoopRun
  <2>2. ASSUME NEW n \in 1..(L - 1) PROVE step[n][f[n - 1]] = f[n - 1] \o seqs[n + 1]
    <3>1. n - 1 \in 0..(L - 1)
      BY <1>3
    <3>2. f[n - 1] \in X
      BY <2>1, <3>1
    <3> HIDE DEF X
    <3> QED
      BY <3>2
  <2> HIDE DEF step
  <2> QED
    BY <2>1, <2>2
<1> DEFINE g == [i \in 1..L |-> f[i - 1]]
<1>6. Flat(g)
  <2>1. ASSUME NEW i \in 1..L PROVE g[i] = IF i = 1 THEN seqs[i] ELSE g[i - 1] \o seqs[i]
    <3>1. CASE i = 1
      BY <3>1, <1>5
    <3>2. CASE i # 1
      <4>1. i - 1 \in 1..(L - 1) /\ (i - 1) + 1 = i /\ i - 1 \in 1..L
        BY <3>2, <1>3
      <4>2. g[i] = f[i - 1] /\ g[i - 1] = f[(i - 1) - 1]
        BY <4>1
      <4>3. f[i - 1] = f[(i - 1) - 1] \o seqs[i]
        BY <4>1, <1>5
      <4> HIDE DEF g
      <4> QED
        BY <3>2, <4>2, <4>3
    <3> QED
      BY <3>1, <3>2
  <2>2. g = [i \in 1..L |-> g[i]]
    OBVIOUS
  <2> HIDE DEF g, L
  <2> QED
    BY <2>1, <2>2
<1> DEFINE c == CHOOSE h : Flat(h)
<1>7. Flat(c)
  <2>1. \E h : Flat(h)
    <3> HIDE DEF g
    <3> QED
      BY <1>6
  <2> HIDE DEF Flat
  <2> QED
    BY <2>1
<1>8. FlattenSeq(seqs) = c[L]
  BY Zenon DEF FlattenSeq
<1> HIDE DEF c
<1>9. DOMAIN c = 1..L /\ c[1] = seqs[1] /\ \A i \in 2..L : c[i] = c[i - 1] \o seqs[i]
  <2>1. c = [i \in 1..L |-> IF i = 1 THEN seqs[i] ELSE c[i - 1] \o seqs[i]]
    BY <1>7
  <2>2. \A i \in 1..L : c[i] = IF i = 1 THEN seqs[i] ELSE c[i - 1] \o seqs[i]
    BY <2>1, Zenon
  <2>3. DOMAIN c = 1..L
    BY <2>1, Zenon
  <2>4. \A i \in 2..L : i \in 1..L /\ i # 1
    BY <1>3
  <2> QED
    BY <2>2, <2>3, <2>4, <1>3
<1>10. c \in [1..L -> X]
  <2> DEFINE T == {n \in 0..(L - 1) : c[n + 1] \in X}
  <2>1. 0 \in T
    BY <1>3, <1>9, <1>1
  <2>2. ASSUME NEW n \in 0..((L - 1) - 1), n \in T PROVE n + 1 \in T
    <3>1. (n + 1) + 1 \in 2..L /\ ((n + 1) + 1) - 1 = n + 1 /\ (n + 1) + 1 \in 1..L
          /\ n + 1 \in 0..(L - 1)
      BY <1>3
    <3>2. c[(n + 1) + 1] = c[n + 1] \o seqs[(n + 1) + 1]
      BY <3>1, <1>9
    <3>3. c[n + 1] \in X /\ seqs[(n + 1) + 1] \in X
      BY <2>2, <1>1, <3>1
    <3>4. c[n + 1] \o seqs[(n + 1) + 1] \in X
      BY <3>3, ConcatProperties
    <3> QED
      BY <3>1, <3>2, <3>4
  <2>3. 0..(L - 1) \subseteq T
    <3> HIDE DEF T
    <3> QED
      BY <1>3, <2>1, <2>2, Induction
  <2>4. ASSUME NEW i \in 1..L PROVE c[i] \in X
    <3>1. i - 1 \in 0..(L - 1) /\ (i - 1) + 1 = i
      BY <1>3
    <3> QED
      BY <3>1, <2>3
  <2>5. c = [i \in 1..L |-> c[i]]
    BY <1>7, <1>9
  <2> QED
    BY <2>4, <2>5
<1> HIDE DEF X
<1> QED
  BY <1>8, <1>9, <1>10 DEF X

\* Each of the sequences is where its predecessors' lengths put it.
LEMMA FlattenLayout ==
  ASSUME NEW S, NEW seqs \in Seq(Seq(S))
  PROVE  FlattenSeq(seqs) \in Seq(S) /\ \E at : Layout(seqs, FlattenSeq(seqs), at)
<1> DEFINE L == Len(seqs)
           X == Seq(S)
           flat == FlattenSeq(seqs)
<1>1. L \in Nat /\ \A i \in 1..L : seqs[i] \in X /\ Len(seqs[i]) \in Nat
  BY LenProperties, ElementOfSeq
<1>2. CASE L = 0
  <2>1. seqs = <<>>
    BY <1>2, EmptySeq
  <2>2. flat = <<>> /\ Len(flat) = 0
    BY <1>2, <2>1 DEF FlattenSeq
  <2>3. <<>> \in Seq(S)
    OBVIOUS
  <2> DEFINE at == [k \in 1..1 |-> 0]
  <2>4. at \in [1..(0 + 1) -> Nat] /\ at[1] = 0 /\ at[0 + 1] = 0
    OBVIOUS
  <2>5. Layout(seqs, flat, at)
    <3> HIDE DEF at, flat
    <3> QED
      BY <1>2, <2>2, <2>4 DEF Layout
  <2> HIDE DEF at
  <2> QED
    BY <2>2, <2>3, <2>5
<1>3. CASE L # 0
  <2>1. PICK h \in [1..L -> X] :
           h[1] = seqs[1] /\ (\A i \in 2..L : h[i] = h[i - 1] \o seqs[i]) /\ flat = h[L]
    BY <1>3, FlattenIsDefined
  <2> DEFINE at == [k \in 1..(L + 1) |-> IF k = 1 THEN 0 ELSE Len(h[k - 1])]
  <2> HIDE DEF flat
  <2>2. L \in Nat \ {0} /\ \A i \in 1..L : h[i] \in X /\ Len(h[i]) \in Nat
    <3>1. \A i \in 1..L : h[i] \in X
      BY <2>1
    <3> QED
      BY <1>1, <1>3, <3>1, LenProperties
  <2>3. at[1] = 0 /\ \A k \in 1..L : at[k + 1] = Len(h[k]) /\ k + 1 \in 1..(L + 1)
    <3>1. 1 \in 1..(L + 1) /\ \A k \in 1..L : k + 1 \in 1..(L + 1) /\ k + 1 # 1 /\ (k + 1) - 1 = k
      BY <2>2
    <3> HIDE DEF L
    <3> QED
      BY <3>1
  <2>4. at \in [1..(L + 1) -> Nat]
    <3>1. ASSUME NEW k \in 1..(L + 1), k # 1 PROVE k - 1 \in 1..L
      BY <3>1, <2>2
    <3> QED
      BY <3>1, <2>2
  <2> HIDE DEF at
  \* one round
  <2>5. ASSUME NEW k \in 1..L
        PROVE  /\ at[k + 1] = at[k] + Len(seqs[k])
               /\ \A j \in 1..Len(seqs[k]) : h[k][at[k] + j] = seqs[k][j]
               /\ k > 1 => \A i \in 1..at[k] : h[k][i] = h[k - 1][i]
    <3>1. CASE k = 1
      <4>1. at[k + 1] = Len(h[k]) /\ h[k] = seqs[k] /\ at[k] = 0 /\ Len(seqs[k]) \in Nat
        BY <3>1, <2>1, <2>3, <1>1
      <4> QED
        BY <4>1, <3>1
    <3>2. CASE k # 1
      <4>1. k \in 2..L /\ k - 1 \in 1..L /\ (k - 1) + 1 = k
        BY <3>2, <2>2
      <4> DEFINE a == h[k - 1]
                 b == seqs[k]
      <4>2. a \in X /\ b \in X /\ h[k] = a \o b /\ at[k] = Len(a) /\ at[k + 1] = Len(h[k])
        BY <4>1, <2>1, <2>2, <2>3, <1>1
      <4>3. Len(a) \in Nat /\ Len(b) \in Nat
        BY <4>1, <2>2, <1>1
      <4> HIDE DEF a, b
      <4>4. Len(a \o b) = Len(a) + Len(b)
            /\ \A i \in 1..(Len(a) + Len(b)) :
                 (a \o b)[i] = IF i <= Len(a) THEN a[i] ELSE b[i - Len(a)]
        BY <4>2, ConcatProperties
      <4>5. \A j \in 1..Len(b) : (a \o b)[Len(a) + j] = b[j]
        <5> TAKE j \in 1..Len(b)
        <5>1. Len(a) + j \in 1..(Len(a) + Len(b)) /\ ~(Len(a) + j <= Len(a))
              /\ (Len(a) + j) - Len(a) = j
          BY <4>3
        <5> QED
          BY <5>1, <4>4
      <4>6. \A i \in 1..Len(a) : (a \o b)[i] = a[i]
        <5> TAKE i \in 1..Len(a)
        <5>1. i \in 1..(Len(a) + Len(b)) /\ i <= Len(a)
          BY <4>3
        <5> QED
          BY <5>1, <4>4
      <4> QED
        BY <4>2, <4>4, <4>5, <4>6 DEF a, b
    <3> QED
      BY <3>1, <3>2
  \* what a round has placed stays
  <2> DEFINE Placed(n) == \A k \in 1..(n + 1) : /\ at[k + 1] <= at[n + 2]
                                                /\ \A j \in 1..Len(seqs[k]) :
                                                     h[n + 1][at[k] + j] = seqs[k][j]
             T == {n \in 0..(L - 1) : Placed(n)}
  <2>6. 0 \in T
    <3>1. 0 \in 0..(L - 1) /\ 1 \in 1..L /\ 0 + 1 = 1 /\ 0 + 2 = 2 /\ 1 + 1 = 2
      BY <2>2
    <3>2. at[2] \in Nat
      BY <2>3, <2>2, <3>1
    <3>3. \A k \in 1..(0 + 1) : k = 1
      OBVIOUS
    <3>4. at[1 + 1] <= at[2] /\ \A j \in 1..Len(seqs[1]) : h[1][at[1] + j] = seqs[1][j]
      <4>1. ASSUME NEW x \in Nat PROVE x <= x
        OBVIOUS
      <4>2. at[1 + 1] <= at[2]
        BY <3>1, <3>2, <4>1
      <4> QED
        BY <3>1, <2>5, <4>2
    <3>5. Placed(0)
      BY <3>1, <3>3, <3>4
    <3> QED
      BY <3>1, <3>5
  <2>7. ASSUME NEW n \in 0..((L - 1) - 1), n \in T PROVE n + 1 \in T
    <3> DEFINE m == n + 2
    <3>1. m \in 1..L /\ m > 1 /\ n + 1 \in 1..L /\ n + 1 \in 0..(L - 1) /\ m - 1 = n + 1
          /\ (n + 1) + 1 = m /\ (n + 1) + 2 = m + 1 /\ m \in Nat
      BY <2>2
    <3>2. Placed(n)
      BY <2>7
    <3> HIDE DEF m
    <3>3. at[m] = Len(h[n + 1]) /\ at[m] \in Nat /\ at[m + 1] \in Nat
      BY <3>1, <2>3, <2>2
    <3>4. at[m + 1] = at[m] + Len(seqs[m]) /\ Len(seqs[m]) \in Nat
          /\ (\A j \in 1..Len(seqs[m]) : h[m][at[m] + j] = seqs[m][j])
          /\ \A i \in 1..at[m] : h[m][i] = h[n + 1][i]
      BY <3>1, <2>5, <1>1
    <3>5. at[m] <= at[m + 1]
      <4>1. ASSUME NEW x \in Nat, NEW y \in Nat, NEW z \in Nat, z = x + y PROVE x <= z
        BY <4>1
      <4> QED
        BY <4>1, <3>3, <3>4
    <3>6. ASSUME NEW k \in 1..m
          PROVE  /\ at[k + 1] <= at[m + 1]
                 /\ \A j \in 1..Len(seqs[k]) : h[m][at[k] + j] = seqs[k][j]
      <4>1. CASE k = m
        BY <4>1, <3>3, <3>4
      <4>2. CASE k # m
        <5>1. k \in 1..(n + 1) /\ k \in 1..L
          BY <4>2, <3>1, <2>2
        <5>2. at[k + 1] <= at[m] /\ \A j \in 1..Len(seqs[k]) : h[n + 1][at[k] + j] = seqs[k][j]
          BY <3>2, <5>1 DEF m
        <5>3. at[k + 1] \in Nat /\ at[k] \in Nat /\ Len(seqs[k]) \in Nat
              /\ at[k + 1] = at[k] + Len(seqs[k])
          <6>1. k \in 1..(L + 1) /\ k + 1 \in 1..(L + 1)
            BY <5>1, <2>2
          <6> QED
            BY <6>1, <5>1, <2>4, <2>5, <1>1
        <5>4. ASSUME NEW j \in 1..Len(seqs[k]) PROVE h[m][at[k] + j] = seqs[k][j]
          <6>1. at[k] + j \in 1..at[m]
            <7> DEFINE x == at[k]
                       y == at[k + 1]
                       z == at[m]
                       l == Len(seqs[k])
            <7>1. x \in Nat /\ y \in Nat /\ z \in Nat /\ l \in Nat /\ y = x + l /\ y <= z
              BY <5>2, <5>3, <3>3
            <7>2. j \in 1..l
              OBVIOUS
            <7> HIDE DEF x, y, z, l
            <7>3. x + j \in 1..z
              BY <7>1, <7>2
            <7> QED
              BY <7>3 DEF x, z
          <6> QED
            BY <6>1, <5>2, <3>4
        <5>5. at[k + 1] <= at[m + 1]
          <6>1. ASSUME NEW x \in Nat, NEW y \in Nat, NEW z \in Nat, x <= y, y <= z
                PROVE  x <= z
            BY <6>1
          <6> QED
            BY <6>1, <5>2, <5>3, <3>3, <3>5
        <5> QED
          BY <5>4, <5>5
      <4> QED
        BY <4>1, <4>2
    <3>7. Placed(n + 1)
      BY <3>6, <3>1
    <3> QED
      BY <3>1, <3>7
  <2>8. Placed(L - 1)
    <3>1. L - 1 \in Nat /\ L - 1 \in 0..(L - 1)
      BY <2>2
    <3> HIDE DEF Placed
    <3>2. 0..(L - 1) \subseteq T
      <4> HIDE DEF T
      <4> QED
        BY <3>1, <2>6, <2>7, Induction
    <3> QED
      BY <3>1, <3>2
  <2>9. (L - 1) + 1 = L /\ L \in 1..L
    BY <2>2
  <2>10. \A k \in 1..L : \A j \in 1..Len(seqs[k]) : flat[at[k] + j] = seqs[k][j]
    BY <2>8, <2>9, <2>1
  <2>11. flat \in Seq(S) /\ at[L + 1] = Len(flat)
    BY <2>1, <2>2, <2>3, <2>9
  <2>12. Layout(seqs, flat, at)
    BY <2>3, <2>4, <2>5, <2>10, <2>11 DEF Layout
  <2> HIDE DEF at, Layout
  <2> QED
    BY <2>11, <2>12 DEF flat
<1> QED
  BY <1>2, <1>3


\* A section of a module, which the scan's reading of two bytes of a length covers;
\* the content of a table section starts with their number.
IsSection(s) ==
  /\ s.id \in 0..127 /\ s.padded \in BOOLEAN
  /\ s.content \in Seq(Byte) /\ Len(s.content) \in 0..127
  /\ s.id = TableSection =>
       \E padded \in BOOLEAN, rest \in Seq(Byte) :
         s.tables \in 0..127 /\ s.content = Leb(s.tables, padded) \o rest

LEMMA LebFacts ==
  ASSUME NEW n \in 0..127, NEW padded \in BOOLEAN
  PROVE  /\ Leb(n, padded) \in Seq(Byte)
         /\ Len(Leb(n, padded)) = IF padded THEN 2 ELSE 1
         /\ Len(Leb(n, padded)) \in 1..2
         /\ Leb(n, padded)[1] = IF padded THEN n + 128 ELSE n
         /\ padded => Leb(n, padded)[2] = 0
<1>1. CASE padded
  <2>1. Leb(n, padded) = <<n + 128, 0>>
    BY <1>1 DEF Leb
  <2>2. n + 128 \in Byte /\ 0 \in Byte
    BY DEF Byte
  <2>3. <<n + 128, 0>> \in Seq(Byte) /\ Len(<<n + 128, 0>>) = 2 /\ 2 \in 1..2
        /\ <<n + 128, 0>>[1] = n + 128 /\ <<n + 128, 0>>[2] = 0
    BY <2>2
  <2> QED
    BY <1>1, <2>1, <2>3
<1>2. CASE ~padded
  <2>1. Leb(n, padded) = <<n>>
    BY <1>2 DEF Leb
  <2>2. n \in Byte
    BY DEF Byte
  <2>3. <<n>> \in Seq(Byte) /\ Len(<<n>>) = 1 /\ 1 \in 1..2 /\ <<n>>[1] = n
    BY <2>2
  <2> QED
    BY <1>2, <2>1, <2>3
<1> QED
  BY <1>1, <1>2

\* What the reader makes of a padded number: its low seven bits, and none of the padding.
LEMMA PaddedByte ==
  ASSUME NEW n \in 0..127
  PROVE  ~(n + 128 < 128) /\ ((n + 128) % 128) + 128 * (0 % 128) = n
<1>1. n \in Int /\ 0 <= n /\ n <= 127
  OBVIOUS
<1>2. (n + 128) % 128 = n
  BY <1>1, Z3
<1>3. 0 % 128 = 0 /\ n + 128 * 0 = n /\ ~(n + 128 < 128)
  BY <1>1
<1> QED
  BY <1>2, <1>3

\* Reading a number gives what was written, short or padded, even if the padding is
\* cut off.
LEMMA ReadsLeb ==
  ASSUME NEW bytes \in Seq(Byte), NEW p \in Nat, NEW n \in 0..127, NEW padded \in BOOLEAN,
         p < Len(bytes),
         \A j \in 1..Len(Leb(n, padded)) :
           p + j <= Len(bytes) => bytes[p + j] = Leb(n, padded)[j]
  PROVE  U32(bytes, p) = [value |-> n, next |-> p + Len(Leb(n, padded))]
<1>1. Len(bytes) \in Nat
  BY LenProperties
<1>2. CASE padded
  <2>1. Len(Leb(n, padded)) = 2 /\ Leb(n, padded)[1] = n + 128 /\ Leb(n, padded)[2] = 0
    BY <1>2, LebFacts
  <2>2. bytes[p + 1] = n + 128 /\ (p + 2 <= Len(bytes) => bytes[p + 2] = 0)
    BY <1>1, <2>1
  <2>3. (p + 1) + 1 = p + 2 /\ (p + 1 < Len(bytes) => p + 2 <= Len(bytes))
    BY <1>1
  <2>4. ByteAt(bytes, p) = n + 128 /\ ByteAt(bytes, p + 1) = 0
    BY <2>2, <2>3 DEF ByteAt
  <2>5. ~(n + 128 < 128) /\ ((n + 128) % 128) + 128 * (0 % 128) = n
    BY PaddedByte
  <2> QED
    BY <2>1, <2>4, <2>5 DEF U32
<1>3. CASE ~padded
  <2>1. Len(Leb(n, padded)) = 1 /\ Leb(n, padded)[1] = n
    BY <1>3, LebFacts
  <2>2. bytes[p + 1] = n
    BY <1>1, <2>1
  <2>3. ByteAt(bytes, p) = n /\ n < 128
    BY <2>2 DEF ByteAt
  <2> QED
    BY <2>1, <2>3 DEF U32
<1> QED
  BY <1>2, <1>3

\* The bytes of each section.
BytesOf(sections) == [i \in DOMAIN sections |-> SectionBytes(sections[i])]

\* They are the id, the length and the content, one after the other.
LEMMA SectionLayout ==
  ASSUME NEW s, IsSection(s)
  PROVE  LET l == Leb(Len(s.content), s.padded) IN
         /\ SectionBytes(s) \in Seq(Byte)
         /\ l \in Seq(Byte) /\ Len(l) \in 1..2
         /\ Len(SectionBytes(s)) = 1 + Len(l) + Len(s.content)
         /\ SectionBytes(s)[1] = s.id
         /\ \A j \in 1..Len(l) : SectionBytes(s)[1 + j] = l[j]
         /\ \A j \in 1..Len(s.content) : SectionBytes(s)[1 + Len(l) + j] = s.content[j]
<1> DEFINE l == Leb(Len(s.content), s.padded)
           a == <<s.id>>
           c == s.content
<1>1. c \in Seq(Byte) /\ Len(c) \in 0..127 /\ s.padded \in BOOLEAN /\ s.id \in 0..127
  BY DEF IsSection
<1>2. l \in Seq(Byte) /\ Len(l) \in 1..2
  BY <1>1, LebFacts
<1>3. a \in Seq(Byte) /\ Len(a) = 1 /\ a[1] = s.id
  <2>1. s.id \in Byte
    BY <1>1 DEF Byte
  <2> QED
    BY <2>1, SingletonSeq
<1>4. SectionBytes(s) = (a \o l) \o c
  BY DEF SectionBytes
<1> HIDE DEF a, l, c
<1>5. a \o l \in Seq(Byte) /\ Len(a \o l) = 1 + Len(l)
      /\ \A i \in 1..(1 + Len(l)) : (a \o l)[i] = IF i <= 1 THEN a[i] ELSE l[i - 1]
  <2>1. a \o l \in Seq(Byte) /\ Len(a \o l) = Len(a) + Len(l)
        /\ \A i \in 1..(Len(a) + Len(l)) :
             (a \o l)[i] = IF i <= Len(a) THEN a[i] ELSE l[i - Len(a)]
    BY <1>2, <1>3, ConcatProperties
  <2> QED
    BY <2>1, <1>3
<1> DEFINE d == a \o l
<1>6. Len(d) \in Nat /\ d \in Seq(Byte) /\ Len(d) = 1 + Len(l)
  BY <1>5, LenProperties
<1>7. d[1] = s.id /\ \A j \in 1..Len(l) : d[1 + j] = l[j]
  <2>1. 1 \in 1..(1 + Len(l))
    BY <1>2
  <2>2. ASSUME NEW j \in 1..Len(l) PROVE d[1 + j] = l[j]
    <3>1. 1 + j \in 1..(1 + Len(l)) /\ ~(1 + j <= 1) /\ (1 + j) - 1 = j
      BY <1>2
    <3> QED
      BY <3>1, <1>5
  <2> QED
    BY <2>1, <2>2, <1>5, <1>3
<1> HIDE DEF d
<1>8. d \o c \in Seq(Byte) /\ Len(d \o c) = Len(d) + Len(c)
      /\ \A i \in 1..(Len(d) + Len(c)) : (d \o c)[i] = IF i <= Len(d) THEN d[i] ELSE c[i - Len(d)]
  <2>1. c \in Seq(Byte) /\ d \in Seq(Byte)
    BY <1>1, <1>6
  <2> QED
    BY <2>1, ConcatProperties
<1>9. Len(c) \in Nat
  BY <1>1 DEF c
<1>10. \A j \in 1..Len(d) : (d \o c)[j] = d[j]
  <2> TAKE j \in 1..Len(d)
  <2>1. j \in 1..(Len(d) + Len(c)) /\ j <= Len(d)
    BY <1>6, <1>9
  <2> QED
    BY <2>1, <1>8
<1>11. \A j \in 1..Len(c) : (d \o c)[Len(d) + j] = c[j]
  <2> TAKE j \in 1..Len(c)
  <2>1. Len(d) + j \in 1..(Len(d) + Len(c)) /\ ~(Len(d) + j <= Len(d)) /\ (Len(d) + j) - Len(d) = j
    BY <1>6, <1>9
  <2> QED
    BY <2>1, <1>8
<1>12. SectionBytes(s) = d \o c
  BY <1>4 DEF d
<1>13. SectionBytes(s)[1] = s.id /\ \A j \in 1..Len(l) : SectionBytes(s)[1 + j] = l[j]
  <2>1. 1 \in 1..Len(d) /\ \A j \in 1..Len(l) : 1 + j \in 1..Len(d)
    BY <1>6, <1>2
  <2> QED
    BY <2>1, <1>7, <1>10, <1>12
<1>14. Len(SectionBytes(s)) = 1 + Len(l) + Len(c) /\ SectionBytes(s) \in Seq(Byte)
       /\ \A j \in 1..Len(c) : SectionBytes(s)[1 + Len(l) + j] = c[j]
  BY <1>8, <1>11, <1>12, <1>6
<1> QED
  BY <1>2, <1>13, <1>14 DEF l, c

\* At the start of a section, whole or cut off, the scan answers its table count, if it
\* is one and the count is there, or goes to the start of the next.
LEMMA OneSection ==
  ASSUME NEW bytes \in Seq(Byte), NEW scan, IsScan(bytes, scan), NEW p \in Nat, NEW s,
         IsSection(s), p < Len(bytes),
         \A j \in 1..Len(SectionBytes(s)) :
           p + j <= Len(bytes) => bytes[p + j] = SectionBytes(s)[j]
  PROVE  scan[p] =
           IF s.id = TableSection
           THEN IF p + 1 + Len(Leb(Len(s.content), s.padded)) < Len(bytes) THEN s.tables ELSE 0
           ELSE IF p + Len(SectionBytes(s)) > Len(bytes) THEN 0
                ELSE scan[p + Len(SectionBytes(s))]
<1> DEFINE l == Leb(Len(s.content), s.padded)
           b == SectionBytes(s)
           c == s.content
           len == U32(bytes, p + 1)
           R == Len(bytes)
<1>1. R \in Nat /\ p < R
  BY LenProperties
<1>2. b \in Seq(Byte) /\ l \in Seq(Byte) /\ Len(l) \in 1..2 /\ Len(b) = 1 + Len(l) + Len(c)
      /\ b[1] = s.id /\ (\A j \in 1..Len(l) : b[1 + j] = l[j])
      /\ \A j \in 1..Len(c) : b[1 + Len(l) + j] = c[j]
  BY SectionLayout
<1>3. c \in Seq(Byte) /\ Len(c) \in 0..127 /\ s.padded \in BOOLEAN /\ s.id \in 0..127
  BY DEF IsSection
<1>4. \A j \in 1..Len(b) : p + j <= R => bytes[p + j] = b[j]
  OBVIOUS
<1> HIDE DEF b, R
<1>5. p \in 0..R /\ p # R /\ bytes[p + 1] = s.id
  <2> HIDE DEF l, c
  <2>1. 1 \in 1..Len(b) /\ p + 1 <= R
    BY <1>1, <1>2, <1>3
  <2>2. bytes[p + 1] = b[1]
    BY <2>1, <1>4
  <2> QED
    BY <2>2, <1>1, <1>2
<1>6. scan[p] = IF s.id = TableSection THEN U32(bytes, len.next).value
                ELSE IF AfterContent(len) > R THEN 0 ELSE scan[AfterContent(len)]
  <2>1. scan[p] = ScanStep(bytes, scan, p)
    BY <1>5 DEF IsScan, R
  <2> QED
    BY <1>5, <2>1 DEF ScanStep, R
<1> DEFINE Goal == scan[p] = IF s.id = TableSection
                             THEN IF p + 1 + Len(l) < R THEN s.tables ELSE 0
                             ELSE IF p + Len(b) > R THEN 0 ELSE scan[p + Len(b)]
<1>7. CASE R = p + 1
  <2>1. ByteAt(bytes, p + 1) = 0
    BY <1>1, <1>7 DEF ByteAt, R
  <2>2. len = [value |-> 0, next |-> p + 2]
    BY <2>1 DEF U32
  <2>3. ByteAt(bytes, p + 2) = 0
    BY <1>1, <1>7 DEF ByteAt, R
  <2>4. U32(bytes, p + 2).value = 0
    BY <2>3 DEF U32
  <2>5. len.next = p + 2 /\ AfterContent(len) = p + 2
    BY <2>2 DEF AfterContent
  <2> HIDE DEF len, l, c
  <2>6. ~(p + 1 + Len(l) < R) /\ p + Len(b) > R /\ p + 2 > R
    BY <1>1, <1>2, <1>3, <1>7
  <2>7. Goal
    BY <1>6, <2>4, <2>5, <2>6
  <2> QED
    BY <2>7 DEF l, b, R, c
<1>8. CASE R # p + 1
  <2> DEFINE q == p + 1 + Len(l)
  <2>1. p + 1 < R
    BY <1>1, <1>8
  <2>2. len = [value |-> Len(c), next |-> q]
    <3>1. ASSUME NEW j \in 1..Len(l), (p + 1) + j <= R PROVE bytes[(p + 1) + j] = l[j]
      <4> HIDE DEF l, c
      <4>1. 1 + j \in 1..Len(b) /\ p + (1 + j) = (p + 1) + j
        BY <1>2, <1>3
      <4>2. bytes[p + (1 + j)] = b[1 + j]
        BY <4>1, <3>1, <1>4
      <4> QED
        BY <4>1, <4>2, <1>2
    <3>2. Len(c) \in 0..127 /\ p + 1 \in Nat
      BY <1>3
    <3> QED
      BY <2>1, <3>1, <3>2, <1>3, ReadsLeb DEF R
  <2>3. len.next = q /\ AfterContent(len) = q + Len(c)
    BY <2>2 DEF AfterContent
  <2>4. q \in Nat /\ q + Len(c) = p + Len(b)
    <3> HIDE DEF l, c
    <3>1. p \in Nat /\ Len(l) \in 1..2 /\ Len(c) \in 0..127 /\ Len(b) = 1 + Len(l) + Len(c)
      BY <1>2, <1>3
    <3> QED
      BY <3>1
  <2> HIDE DEF q
  <2>5. ASSUME ~(q < R) PROVE U32(bytes, q).value = 0
    <3>1. ByteAt(bytes, q) = 0
      BY <2>5 DEF ByteAt, R
    <3> QED
      BY <3>1 DEF U32
  <2>6. ASSUME q < R, s.id = TableSection PROVE U32(bytes, q).value = s.tables
    <3>1. PICK padded \in BOOLEAN, rest \in Seq(Byte) :
             s.tables \in 0..127 /\ c = Leb(s.tables, padded) \o rest
      BY <2>6 DEF IsSection
    <3> DEFINE t == Leb(s.tables, padded)
    <3>2. t \in Seq(Byte) /\ Len(t) \in 1..2
      BY <3>1, LebFacts
    <3> HIDE DEF t, c, l, len
    <3>3. Len(c) = Len(t) + Len(rest) /\ Len(rest) \in Nat
          /\ \A i \in 1..(Len(t) + Len(rest)) : c[i] = IF i <= Len(t) THEN t[i] ELSE rest[i - Len(t)]
      <4>1. c = t \o rest
        BY <3>1 DEF t
      <4> QED
        BY <4>1, <3>2, ConcatProperties, LenProperties
    <3>4. ASSUME NEW j \in 1..Len(t), q + j <= R PROVE bytes[q + j] = t[j]
      <4>1. j \in 1..(Len(t) + Len(rest)) /\ j <= Len(t) /\ j \in 1..Len(c)
        BY <3>2, <3>3
      <4>2. 1 + Len(l) + j \in 1..Len(b) /\ q + j = p + (1 + Len(l) + j)
        BY <4>1, <1>2, <1>3 DEF q
      <4>3. c[j] = t[j]
        BY <4>1, <3>3
      <4>4. b[1 + Len(l) + j] = c[j]
        BY <4>1, <1>2
      <4>5. bytes[p + (1 + Len(l) + j)] = b[1 + Len(l) + j]
        BY <4>2, <3>4, <1>4
      <4> QED
        BY <4>2, <4>3, <4>4, <4>5
    <3>5. U32(bytes, q) = [value |-> s.tables, next |-> q + Len(t)]
      BY <2>4, <2>6, <3>1, <3>4, ReadsLeb DEF t, R
    <3> QED
      BY <3>5
  <2>7. p + 1 + Len(l) = q
    BY DEF q
  <2> HIDE DEF len
  <2>8. scan[p] = IF s.id = TableSection THEN IF q < R THEN s.tables ELSE 0
                  ELSE IF p + Len(b) > R THEN 0 ELSE scan[p + Len(b)]
    BY <1>6, <2>3, <2>4, <2>5, <2>6
  <2> QED
    BY <2>7, <2>8 DEF b, R
<1> QED
  BY <1>7, <1>8

\* What the scan should say of the sections of m from k on.
Says(m, k, n) ==
  /\ (\A j \in k..Len(m.sections) : ~Listed(m, j)) => n = 0
  /\ \A j \in k..Len(m.sections) :
       (Listed(m, j) /\ \A i \in k..(j - 1) : ~Listed(m, i)) => n = m.sections[j].tables

\* A module of L sections, cut off in the last of them or not at all.
IsModule(m, L) ==
  /\ DOMAIN m.sections = 1..L /\ Len(m.sections) = L
  /\ \A k \in 1..L : IsSection(m.sections[k])
  /\ m.cut \in Nat
  /\ m.cut > 0 => L > 0 /\ m.cut < Len(SectionBytes(m.sections[L]))

\* Where the sections of a module stand in its bytes.
Placed(m, L, at) ==
  LET R == Len(Body(m)) IN
  /\ Body(m) \in Seq(Byte)
  /\ at \in [1..(L + 1) -> Nat] /\ at[1] = 0 /\ R + m.cut = at[L + 1]
  /\ \A k \in 1..L : at[k + 1] = at[k] + Len(SectionBytes(m.sections[k]))
  /\ \A k \in 1..L : \A j \in 1..Len(SectionBytes(m.sections[k])) :
       at[k] + j <= R => Body(m)[at[k] + j] = SectionBytes(m.sections[k])[j]

LEMMA SectionsPlaced ==
  ASSUME NEW m, NEW L \in Nat, IsModule(m, L)
  PROVE  \E at : Placed(m, L, at)
<1> DEFINE sections == m.sections
           bytes == Bytes(sections)
           seqs == BytesOf(sections)
<1>1. seqs \in Seq(Seq(Byte)) /\ Len(seqs) = L /\ \A k \in 1..L : seqs[k] = SectionBytes(sections[k])
  <2>1. \A k \in 1..L : SectionBytes(sections[k]) \in Seq(Byte)
    BY SectionLayout DEF IsModule
  <2>2. seqs \in [1..L -> Seq(Byte)] /\ \A k \in 1..L : seqs[k] = SectionBytes(sections[k])
    BY <2>1 DEF BytesOf, IsModule
  <2> HIDE DEF seqs
  <2>3. seqs \in Seq(Seq(Byte)) /\ Len(seqs) = L
    BY <2>2
  <2> QED
    BY <2>2, <2>3
<1>2. bytes = FlattenSeq(seqs)
  BY DEF Bytes, BytesOf
<1> HIDE DEF seqs
<1>3. PICK at : Layout(seqs, FlattenSeq(seqs), at)
  BY <1>1, FlattenLayout
<1>4. bytes \in Seq(Byte)
  BY <1>1, <1>2, FlattenLayout
<1> DEFINE R == Len(bytes) - m.cut
<1>5. Body(m) = SubSeq(bytes, 1, R)
  BY DEF Body
<1> HIDE DEF bytes
<1>6. at \in [1..(L + 1) -> Nat] /\ at[1] = 0 /\ at[L + 1] = Len(bytes)
      /\ (\A k \in 1..L : at[k + 1] = at[k] + Len(seqs[k]))
      /\ \A k \in 1..L : \A j \in 1..Len(seqs[k]) : bytes[at[k] + j] = seqs[k][j]
  BY <1>1, <1>2, <1>3 DEF Layout
<1>7. Len(bytes) \in Nat /\ \A k \in 1..L : Len(seqs[k]) \in Nat
  <2>1. \A k \in 1..L : seqs[k] \in Seq(Byte)
    BY <1>1, ElementOfSeq
  <2> QED
    BY <1>4, <2>1, LenProperties
<1>8. R \in Nat /\ R <= Len(bytes) /\ R + m.cut = Len(bytes)
  <2>1. m.cut \in Nat
    BY DEF IsModule
  <2>2. m.cut <= Len(bytes)
    <3>1. CASE m.cut = 0
      BY <1>7, <3>1
    <3>2. CASE m.cut # 0
      <4>1. L \in 1..L /\ L \in 1..(L + 1) /\ m.cut < Len(SectionBytes(sections[L]))
        BY <2>1, <3>2 DEF IsModule
      <4>2. at[L] \in Nat /\ Len(bytes) = at[L] + Len(seqs[L]) /\ m.cut < Len(seqs[L])
            /\ Len(seqs[L]) \in Nat
        BY <4>1, <1>1, <1>6, <1>7
      <4> QED
        BY <4>2, <2>1
    <3> QED
      BY <3>1, <3>2
  <2> QED
    BY <2>1, <2>2, <1>7
<1> HIDE DEF R
<1>9. Body(m) \in Seq(Byte) /\ Len(Body(m)) = R /\ \A i \in 1..R : Body(m)[i] = bytes[i]
  <2>1. \A i \in 1..R : bytes[i] \in Byte
    <3>1. \A i \in 1..R : i \in 1..Len(bytes)
      BY <1>7, <1>8
    <3> QED
      BY <3>1, <1>4, ElementOfSeq
  <2>2. /\ SubSeq(bytes, 1, R) \in Seq(Byte)
        /\ Len(SubSeq(bytes, 1, R)) = IF 1 <= R THEN R - 1 + 1 ELSE 0
        /\ \A i \in 1..(R - 1 + 1) : SubSeq(bytes, 1, R)[i] = bytes[1 + i - 1]
    <3>1. 1 \in Int /\ R \in Int
      BY <1>8
    <3> QED
      BY <2>1, <3>1, SubSeqProperties
  <2>3. (IF 1 <= R THEN R - 1 + 1 ELSE 0) = R /\ R - 1 + 1 = R /\ \A i \in 1..R : 1 + i - 1 = i
    BY <1>8
  <2> QED
    BY <1>5, <2>2, <2>3
<1>10. ASSUME NEW k \in 1..L, NEW j \in 1..Len(SectionBytes(sections[k])), at[k] + j <= Len(Body(m))
       PROVE  Body(m)[at[k] + j] = SectionBytes(sections[k])[j]
  <2>1. seqs[k] = SectionBytes(sections[k]) /\ k \in 1..(L + 1) /\ Len(seqs[k]) \in Nat
    BY <1>1, <1>7
  <2>2. at[k] \in Nat /\ bytes[at[k] + j] = seqs[k][j]
    BY <2>1, <1>6
  <2>3. at[k] + j \in 1..R
    BY <2>1, <2>2, <1>8, <1>9, <1>10
  <2> QED
    BY <2>1, <2>2, <2>3, <1>9
<1>11. \A k \in 1..L : at[k + 1] = at[k] + Len(SectionBytes(sections[k]))
  BY <1>1, <1>6
<1>12. Placed(m, L, at)
  BY <1>6, <1>8, <1>9, <1>10, <1>11 DEF Placed
<1> QED
  BY <1>12

\* From the sections after the k-th to those from the k-th on.
LEMMA SaysBefore ==
  ASSUME NEW m, NEW L \in Nat, Len(m.sections) = L, NEW k \in 1..L, NEW w, NEW v,
         Says(m, k + 1, w), v = IF Listed(m, k) THEN m.sections[k].tables ELSE w
  PROVE  Says(m, k, v)
<1>1. k \in k..L /\ (\A j \in k..L : j = k \/ j \in (k + 1)..L)
      /\ \A j \in (k + 1)..L : /\ j \in k..L /\ k \in k..(j - 1)
                               /\ \A i \in (k + 1)..(j - 1) : i \in k..(j - 1)
  OBVIOUS
<1>2. ASSUME \A j \in k..L : ~Listed(m, j) PROVE v = 0
  <2>1. ~Listed(m, k) /\ \A j \in (k + 1)..L : ~Listed(m, j)
    BY <1>1, <1>2
  <2>2. w = 0
    BY <2>1 DEF Says
  <2> QED
    BY <2>1, <2>2
<1>3. ASSUME NEW j \in k..L, Listed(m, j), \A i \in k..(j - 1) : ~Listed(m, i)
      PROVE  v = m.sections[j].tables
  <2>1. CASE j = k
    BY <2>1, <1>3
  <2>2. CASE j # k
    <3>1. j \in (k + 1)..L
      BY <2>2, <1>1
    <3>2. ~Listed(m, k) /\ \A i \in (k + 1)..(j - 1) : ~Listed(m, i)
      BY <3>1, <1>1, <1>3
    <3>3. w = m.sections[j].tables
      BY <3>1, <3>2, <1>3 DEF Says
    <3> QED
      BY <3>2, <3>3
  <2> QED
    BY <2>1, <2>2
<1> QED
  BY <1>2, <1>3 DEF Says

\* At the start of any section the scan answers that section's count if it lists one,
\* and what it answers after it otherwise: nothing after the last, whole or cut off.
LEMMA SectionAnswers ==
  ASSUME NEW m, NEW L \in Nat, IsModule(m, L), NEW at, Placed(m, L, at),
         NEW scan, IsScan(Body(m), scan), NEW k \in 1..L,
         k < L => at[k + 1] < Len(Body(m))
  PROVE  /\ at[k] < Len(Body(m))
         /\ scan[at[k]] = IF Listed(m, k) THEN m.sections[k].tables
                          ELSE IF k = L THEN 0 ELSE scan[at[k + 1]]
<1> DEFINE s == m.sections[k]
           l == Leb(Len(s.content), s.padded)
           b == SectionBytes(s)
           c == Len(s.content)
           R == Len(Body(m))
           p == at[k]
<1>1. IsSection(s) /\ m.cut \in Nat /\ (k = L /\ m.cut > 0 => m.cut < Len(b)) /\ Len(m.sections) = L
  BY DEF IsModule
<1>2. Body(m) \in Seq(Byte) /\ p \in Nat /\ at[k + 1] = p + Len(b) /\ R + m.cut = at[L + 1]
  <2>1. k \in 1..(L + 1)
    OBVIOUS
  <2> QED
    BY <2>1 DEF Placed
<1>3. R \in Nat
  BY <1>2, LenProperties
<1>4. Len(l) \in 1..2 /\ Len(b) = 1 + Len(l) + c /\ c \in Nat
  <2>1. Len(l) \in 1..2 /\ Len(b) = 1 + Len(l) + c
    BY <1>1, SectionLayout
  <2>2. c \in 0..127
    BY <1>1 DEF IsSection
  <2> HIDE DEF l, b, c
  <2> QED
    BY <2>1, <2>2
<1>5. s.id = TableSection => c > 0
  <2>1. ASSUME s.id = TableSection PROVE c > 0
    <3>1. PICK padded \in BOOLEAN, rest \in Seq(Byte) :
             s.tables \in 0..127 /\ s.content = Leb(s.tables, padded) \o rest
      BY <1>1, <2>1 DEF IsSection
    <3> DEFINE t == Leb(s.tables, padded)
    <3>2. t \in Seq(Byte) /\ Len(t) \in 1..2
      BY <3>1, LebFacts
    <3> HIDE DEF t
    <3>3. Len(t \o rest) = Len(t) + Len(rest) /\ Len(rest) \in Nat
      BY <3>2, ConcatProperties, LenProperties
    <3>4. c = Len(t \o rest)
      BY <3>1 DEF t
    <3>5. Len(t \o rest) > 0
      BY <3>2, <3>3
    <3> HIDE DEF c
    <3> QED
      BY <3>4, <3>5
  <2> QED
    BY <2>1
<1> DEFINE listed == s.id = TableSection /\ (k = L => m.cut < c)
<1>6. Listed(m, k) <=> listed
  BY <1>1 DEF Listed
<1> HIDE DEF s, l, b, c, R, p
<1>7. p < R
  <2>1. CASE k < L
    <3>1. at[k + 1] < R
      BY <2>1 DEF R
    <3>2. p + Len(b) < R
      BY <3>1, <1>2
    <3>3. p \in Nat /\ Len(b) \in Nat
      BY <1>2, <1>4
    <3> QED
      BY <3>2, <3>3, <1>3
  <2>2. CASE k = L
    <3>1. R + m.cut = p + Len(b) /\ m.cut < Len(b)
      BY <1>1, <1>2, <1>4, <2>2
    <3> QED
      BY <3>1, <1>1, <1>2, <1>3, <1>4
  <2> QED
    BY <2>1, <2>2
<1>8. scan[p] = IF s.id = TableSection THEN IF p + 1 + Len(l) < R THEN s.tables ELSE 0
                ELSE IF p + Len(b) > R THEN 0 ELSE scan[p + Len(b)]
  <2>1. \A j \in 1..Len(b) : p + j <= R => Body(m)[p + j] = b[j]
    BY DEF Placed, b, s, p, R
  <2> QED
    BY <1>1, <1>2, <1>7, <2>1, OneSection DEF l, b, R
<1>9. CASE k < L
  <2>1. at[k + 1] < R /\ p + Len(b) < R
    <3>1. at[k + 1] < R
      BY <1>9 DEF R
    <3> QED
      BY <3>1, <1>2
  <2>2. p + 1 + Len(l) < R /\ ~(p + Len(b) > R)
    BY <2>1, <1>2, <1>3, <1>4
  <2>3. listed <=> s.id = TableSection
    BY <1>9
  <2>4. k # L
    BY <1>9
  <2> QED
    BY <2>2, <2>3, <2>4, <1>2, <1>6, <1>7, <1>8 DEF p, R, s
<1>10. CASE k = L
  <2>1. R + m.cut = p + 1 + Len(l) + c
    BY <1>2, <1>4, <1>10
  <2>2. p + 1 + Len(l) < R <=> m.cut < c
    BY <2>1, <1>1, <1>2, <1>3, <1>4
  <2>3. p + Len(b) > R \/ (p + Len(b) = R /\ scan[R] = 0)
    <3>1. m.cut > 0 \/ m.cut = 0
      BY <1>1
    <3>2. ASSUME m.cut > 0 PROVE p + Len(b) > R
      BY <2>1, <3>2, <1>1, <1>2, <1>3, <1>4
    <3>3. ASSUME m.cut = 0 PROVE p + Len(b) = R
      BY <2>1, <3>3, <1>2, <1>3, <1>4
    <3>4. scan[R] = ScanStep(Body(m), scan, R)
      <4>1. R \in 0..R
        BY <1>3
      <4> QED
        BY <4>1 DEF IsScan, R
    <3>5. scan[R] = 0
      BY <3>4 DEF ScanStep, R
    <3> QED
      BY <3>1, <3>2, <3>3, <3>5
  <2>4. listed <=> s.id = TableSection /\ m.cut < c
    BY <1>10
  <2>5. scan[p] = IF listed THEN s.tables ELSE 0
    <3>1. CASE s.id = TableSection
      BY <3>1, <2>2, <2>4, <1>8
    <3>2. CASE s.id # TableSection
      BY <3>2, <2>3, <2>4, <1>8
    <3> QED
      BY <3>1, <3>2
  <2> QED
    BY <2>5, <1>6, <1>7, <1>10 DEF p, R, s
<1>11. k < L \/ k = L
  OBVIOUS
<1> QED
  BY <1>9, <1>10, <1>11

\* The scan of definedTableCount, on the bytes of any sections whatever, whole or cut
\* off anywhere in the last: it answers the number of tables that the first table
\* section lists, with short and padded lengths, whatever the contents look like, and 0
\* if there is no such section or the bytes end before its count.
THEOREM ScanReadsSections ==
  ASSUME NEW m, NEW L \in Nat, IsModule(m, L)
  PROVE  Says(m, 1, ScanFrom(Body(m)))
<1>1. PICK at : Placed(m, L, at)
  BY SectionsPlaced
<1> DEFINE R == Len(Body(m))
<1>2. Body(m) \in Seq(Byte) /\ at[1] = 0 /\ R + m.cut = at[L + 1] /\ m.cut \in Nat
      /\ Len(m.sections) = L
  BY <1>1 DEF Placed, IsModule
<1>3. PICK scan : IsScan(Body(m), scan) /\ ScanFrom(Body(m)) = scan[0]
  BY <1>2, ScanIsDefined
<1>4. R \in Nat
  BY <1>2, LenProperties
<1> DEFINE W(k) == IF k = L + 1 THEN 0 ELSE scan[at[k]]
           T == {n \in 0..L : /\ n > 0 => at[(L + 1) - n] < R
                              /\ Says(m, (L + 1) - n, W((L + 1) - n))}
<1>5. 0 \in T
  <2>1. (L + 1) - 0 = L + 1 /\ 0 \in 0..L /\ ~(0 > 0)
    OBVIOUS
  <2>2. \A j \in (L + 1)..Len(m.sections) : FALSE
    BY <1>2
  <2>3. Says(m, L + 1, 0)
    BY <2>2 DEF Says
  <2> QED
    BY <2>1, <2>3
<1>6. ASSUME NEW n \in 0..(L - 1), n \in T PROVE n + 1 \in T
  <2> DEFINE k == L - n
  <2>1. k \in 1..L /\ (L + 1) - n = k + 1 /\ (L + 1) - (n + 1) = k /\ n + 1 \in 0..L
        /\ (k < L => n > 0) /\ k # L + 1 /\ (k = L <=> k + 1 = L + 1)
    OBVIOUS
  <2> HIDE DEF k
  <2>2. (k < L => at[k + 1] < R) /\ Says(m, k + 1, W(k + 1))
    BY <1>6, <2>1
  <2>3. at[k] < R
        /\ scan[at[k]] = IF Listed(m, k) THEN m.sections[k].tables
                         ELSE IF k = L THEN 0 ELSE scan[at[k + 1]]
    BY <1>1, <1>3, <2>1, <2>2, SectionAnswers
  <2>4. W(k + 1) = IF k = L THEN 0 ELSE scan[at[k + 1]]
    BY <2>1
  <2>5. W(k) = scan[at[k]]
    BY <2>1
  <2> HIDE DEF W
  <2>6. W(k) = IF Listed(m, k) THEN m.sections[k].tables ELSE W(k + 1)
    BY <2>3, <2>4, <2>5
  <2>7. Says(m, k, W(k))
    BY <1>2, <2>1, <2>2, <2>6, SaysBefore
  <2> QED
    BY <2>1, <2>3, <2>7
<1>7. L \in T
  <2> HIDE DEF T
  <2>1. 0..L \subseteq T
    BY <1>5, <1>6, Induction
  <2> QED
    BY <2>1
<1>8. (L + 1) - L = 1
  OBVIOUS
<1>9. Says(m, 1, W(1))
  BY <1>7, <1>8
<1>10. W(1) = scan[0]
  <2>1. CASE L = 0
    <3>1. R = 0
      BY <2>1, <1>2, <1>4
    <3>2. 0 \in 0..R /\ scan[0] = ScanStep(Body(m), scan, 0)
      BY <3>1, <1>3 DEF IsScan
    <3>3. scan[0] = 0
      BY <3>1, <3>2 DEF ScanStep
    <3> QED
      BY <2>1, <3>3
  <2>2. CASE L # 0
    BY <2>2, <1>2
  <2> QED
    BY <2>1, <2>2
<1> QED
  BY <1>3, <1>9, <1>10

\* The smallest of a set of numbers.
LEMMA MinIs ==
  ASSUME NEW S \in SUBSET Nat, NEW j \in S, \A i \in S : j <= i
  PROVE  Min(S) = j
<1>1. Min(S) \in S /\ \A i \in S : Min(S) <= i
  BY DEF Min
<1> DEFINE x == Min(S)
<1>2. x \in Nat /\ j \in Nat /\ x <= j /\ j <= x
  BY <1>1
<1> HIDE DEF x
<1>3. x = j
  BY <1>2
<1> QED
  BY <1>3 DEF x

\* So definedTableCount answers what the reference does, of every module of version 1,
\* well-formed or not.
THEOREM ScanCountsTables ==
  ASSUME NEW m, NEW L \in Nat, IsModule(m, L), m.head = "v1"
  PROVE  definedTableCount(m) = Tables(m)
<1> DEFINE n == ScanFrom(Body(m))
           at == {i \in DOMAIN m.sections : Listed(m, i)}
<1>1. Says(m, 1, n) /\ definedTableCount(m) = n
  BY ScanReadsSections DEF definedTableCount
<1>2. Tables(m) = IF at = {} THEN 0 ELSE m.sections[Min(at)].tables
  BY DEF Tables
<1>3. DOMAIN m.sections = 1..L /\ Len(m.sections) = L
  BY DEF IsModule
<1> HIDE DEF n
<1>4. CASE at = {}
  <2>1. \A j \in 1..Len(m.sections) : ~Listed(m, j)
    BY <1>3, <1>4
  <2>2. n = 0
    BY <2>1, <1>1 DEF Says
  <2> QED
    BY <1>1, <1>2, <1>4, <2>2
<1>5. CASE at # {}
  <2>1. at \in SUBSET Nat
    BY <1>3
  <2>2. PICK j \in at : \A i \in at : j <= i
    BY <1>5, <2>1, LeastElement
  <2>3. j \in 1..Len(m.sections) /\ Listed(m, j)
    BY <1>3, <2>2
  <2>4. ASSUME NEW i \in 1..(j - 1) PROVE ~Listed(m, i)
    <3>1. i \in 1..L /\ ~(j <= i)
      BY <1>3, <2>3
    <3> QED
      BY <3>1, <2>2, <1>3
  <2>5. n = m.sections[j].tables
    BY <2>3, <2>4, <1>1 DEF Says
  <2> HIDE DEF at
  <2>6. Min(at) = j
    BY <2>1, <2>2, MinIs
  <2> QED
    BY <1>1, <1>2, <1>5, <2>5, <2>6
<1> QED
  BY <1>4, <1>5

\* The sections that the guest's modules are made of.
Section == {s \in [id : 0..127, padded : BOOLEAN, content : Seq(Byte), tables : 0..127] :
              IsSection(s)}

LEMMA SectionsGiven ==
  /\ \A p \in BOOLEAN : Custom(p) \in Section
  /\ [id |-> 1, padded |-> FALSE, content |-> <<0>>, tables |-> 0] \in Section
  /\ \A n \in 0..2, p \in BOOLEAN :
       [id |-> TableSection, padded |-> p, content |-> Leb(n, p) \o <<112, 0, 1>>, tables |-> n]
         \in Section
<1>1. ASSUME NEW p \in BOOLEAN PROVE Custom(p) \in Section
  <2> DEFINE c == <<TableSection, 1, 2>>
  <2>1. c \in Seq(Byte) /\ Len(c) \in 0..127
    BY DEF Byte, TableSection
  <2>2. Custom(p) = [id |-> 0, padded |-> p, content |-> c, tables |-> 0]
    BY DEF Custom
  <2> HIDE DEF c
  <2> QED
    BY <2>1, <2>2 DEF Section, IsSection, TableSection
<1>2. [id |-> 1, padded |-> FALSE, content |-> <<0>>, tables |-> 0] \in Section
  <2> DEFINE c == <<0>>
  <2>1. c \in Seq(Byte) /\ Len(c) \in 0..127
    BY DEF Byte
  <2> DEFINE s == [id |-> 1, padded |-> FALSE, content |-> c, tables |-> 0]
  <2> HIDE DEF c
  <2>2. s \in [id : 0..127, padded : BOOLEAN, content : Seq(Byte), tables : 0..127]
        /\ s.id = 1 /\ s.padded = FALSE /\ s.content = c
    BY <2>1
  <2> HIDE DEF s
  <2>3. IsSection(s)
    BY <2>1, <2>2 DEF IsSection, TableSection
  <2> QED
    BY <2>2, <2>3 DEF Section, s, c
<1>3. ASSUME NEW n \in 0..2, NEW p \in BOOLEAN
      PROVE  [id |-> TableSection, padded |-> p, content |-> Leb(n, p) \o <<112, 0, 1>>,
              tables |-> n] \in Section
  <2> DEFINE rest == <<112, 0, 1>>
             c == Leb(n, p) \o rest
             s == [id |-> TableSection, padded |-> p, content |-> c, tables |-> n]
  <2>1. rest \in Seq(Byte) /\ Len(rest) = 3
    BY DEF Byte
  <2>2. n \in 0..127
    OBVIOUS
  <2>3. Leb(n, p) \in Seq(Byte) /\ Len(Leb(n, p)) \in 1..2
    BY <2>2, LebFacts
  <2> HIDE DEF rest
  <2>4. c \in Seq(Byte) /\ Len(c) = Len(Leb(n, p)) + Len(rest)
    BY <2>1, <2>3, ConcatProperties
  <2>5. Len(c) \in 0..127
    <3>1. \A x \in 1..2 : x + 3 \in 0..127
      OBVIOUS
    <3>2. Len(c) = Len(Leb(n, p)) + 3
      BY <2>1, <2>4
    <3> HIDE DEF c
    <3> QED
      BY <2>3, <3>1, <3>2
  <2>6. \E padded \in BOOLEAN, r \in Seq(Byte) : n \in 0..127 /\ c = Leb(n, padded) \o r
    BY <2>1, <2>2
  <2> HIDE DEF c
  <2>7. s \in [id : 0..127, padded : BOOLEAN, content : Seq(Byte), tables : 0..127]
        /\ s.id = TableSection /\ s.padded = p /\ s.content = c /\ s.tables = n
    BY <2>2, <2>4 DEF TableSection
  <2> HIDE DEF s
  <2>8. IsSection(s)
    BY <2>4, <2>5, <2>6, <2>7 DEF IsSection, TableSection
  <2> QED
    BY <2>7, <2>8 DEF Section, s, c, rest
<1> QED
  BY <1>1, <1>2, <1>3

LEMMA ModulesHaveSections ==
  ASSUME NEW m \in Modules
  PROVE  m.sections \in Seq(Section)
<1>1. Leading \subseteq Seq(Section)
  <2>1. \A s \in Section : <<s>> \in Seq(Section)
    BY SingletonSeq
  <2>2. <<>> \in Seq(Section)
    OBVIOUS
  <2> DEFINE one == [id |-> 1, padded |-> FALSE, content |-> <<0>>, tables |-> 0]
  <2>3. one \in Section /\ \A p \in BOOLEAN : Custom(p) \in Section
    BY SectionsGiven
  <2>4. Leading = {<<>>, <<one>>} \cup {<<Custom(p)>> : p \in BOOLEAN}
    BY DEF Leading
  <2> HIDE DEF one
  <2> QED
    BY <2>1, <2>2, <2>3, <2>4
<1>2. \A n \in 0..2, p \in BOOLEAN : TableSections(n, p) \in Seq(Section)
  BY SectionsGiven, SingletonSeq DEF TableSections
<1>3. Rest \subseteq Seq(Section)
  <2>1. <<>> \in Seq(Section)
    OBVIOUS
  <2>2. ASSUME NEW n \in 1..2
        PROVE  TableSections(n, FALSE) \o TableSections(3 - n, FALSE) \in Seq(Section)
    <3>1. n \in 0..2 /\ 3 - n \in 0..2 /\ FALSE \in BOOLEAN
      OBVIOUS
    <3>2. TableSections(n, FALSE) \in Seq(Section) /\ TableSections(3 - n, FALSE) \in Seq(Section)
      BY <3>1, <1>2
    <3> QED
      BY <3>2, ConcatProperties
  <2>3. TwoTableSections \subseteq Seq(Section)
    BY <2>2 DEF TwoTableSections
  <2> SUFFICES ASSUME NEW r \in Rest PROVE r \in Seq(Section)
    OBVIOUS
  <2>4. r = <<>> \/ r \in TwoTableSections \/ r \in OneTableSection
    BY DEF Rest
  <2>5. r \in OneTableSection => \E n \in 0..2, p \in BOOLEAN : r = TableSections(n, p)
    BY DEF OneTableSection
  <2> QED
    BY <2>1, <2>3, <2>4, <2>5, <1>2
<1>4. \A p \in Leading, r \in Rest : p \o r \in Seq(Section)
  BY <1>1, <1>3, ConcatProperties
<1>5. m.sections = <<>> \/ \E p \in Leading, r \in Rest : m.sections = p \o r
  <2>1. m.sections = <<>> \/ m.sections \in SectionLists
    <3>1. CASE m \in Whole
      BY <3>1 DEF Whole
    <3>2. CASE m \in Truncated
      BY <3>2 DEF Truncated
    <3>3. CASE m \in Heads
      BY <3>3 DEF Heads
    <3> QED
      BY <3>1, <3>2, <3>3 DEF Modules
  <2>2. m.sections \in SectionLists => \E p \in Leading, r \in Rest : m.sections = p \o r
    BY DEF SectionLists
  <2> QED
    BY <2>1, <2>2
<1>6. <<>> \in Seq(Section)
  OBVIOUS
<1> QED
  BY <1>4, <1>5, <1>6

LEMMA ModuleIsCounted ==
  ASSUME NEW m \in Modules
  PROVE  /\ m.head = "v1" => definedTableCount(m) = Tables(m)
         /\ Tables(m) \in Nat
<1> DEFINE s == m.sections
           L == Len(s)
<1>1. s \in Seq(Section)
  BY ModulesHaveSections
<1>2. m.cut \in Nat /\ (m.cut > 0 => s # <<>> /\ m.cut < Len(SectionBytes(s[Len(s)])))
  <2>1. CASE m \in Whole
    BY <2>1 DEF Whole
  <2>2. CASE m \in Truncated
    BY <2>2 DEF Truncated
  <2>3. CASE m \in Heads
    <3>1. m.cut \in {0}
      BY <2>3 DEF Heads
    <3>2. m.cut = 0
      BY <3>1
    <3> HIDE DEF s
    <3> QED
      BY <3>2
  <2> QED
    BY <2>1, <2>2, <2>3 DEF Modules
<1> HIDE DEF s
<1>3. L \in Nat /\ DOMAIN s = 1..L /\ (\A k \in 1..L : s[k] \in Section) /\ (s # <<>> => L > 0)
  <2>1. s # <<>> => Len(s) # 0
    BY <1>1, EmptySeq
  <2>2. Len(s) \in Nat /\ DOMAIN s = 1..Len(s) /\ \A k \in 1..Len(s) : s[k] \in Section
    BY <1>1, LenProperties, ElementOfSeq
  <2> QED
    BY <2>1, <2>2
<1>4. \A k \in 1..L : IsSection(s[k]) /\ s[k].tables \in 0..127
  BY <1>3 DEF Section
<1>5. IsModule(m, L)
  BY <1>2, <1>3, <1>4 DEF IsModule, s
<1>6. Tables(m) \in Nat
  <2> DEFINE at == {i \in DOMAIN s : Listed(m, i)}
  <2>1. Tables(m) = IF at = {} THEN 0 ELSE s[Min(at)].tables
    BY DEF Tables, s
  <2>2. at \subseteq 1..L /\ at \in SUBSET Nat
    BY <1>3
  <2>3. CASE at = {}
    BY <2>1, <2>3
  <2>4. CASE at # {}
    <3>1. PICK j \in at : \A i \in at : j <= i
      BY <2>2, <2>4, LeastElement
    <3> HIDE DEF at
    <3>2. Min(at) = j
      BY <2>2, <3>1, MinIs
    <3>3. s[j].tables \in 0..127
      BY <2>2, <3>1, <1>4
    <3> QED
      BY <2>1, <2>4, <3>2, <3>3
  <2> QED
    BY <2>3, <2>4
<1>7. m.head = "v1" => definedTableCount(m) = Tables(m)
  BY <1>3, <1>5, ScanCountsTables
<1> QED
  BY <1>6, <1>7

\* The pre-scan picks the modules that list several tables, and none that is readable
\* only with another head or translatable.
LEMMA SeveralArePicked ==
  ASSUME NEW m \in Modules
  PROVE  /\ definedTableCount(m) > 1 <=> (m.head = "v1" /\ Tables(m) > 1)
         /\ Readable(m) => m.head = "v1"
         /\ Translatable(m) => Readable(m) /\ ~(Tables(m) > 1)
<1>1. m.head = "v1" => definedTableCount(m) = Tables(m)
  BY ModuleIsCounted
<1>2. m.head # "v1" => ~(definedTableCount(m) > 1)
  BY DEF definedTableCount
<1>3. Translatable(m) => Readable(m) /\ ~(Tables(m) > 1)
  BY ModuleIsCounted DEF Translatable
<1>4. Readable(m) => m.head = "v1"
  BY DEF Readable, WellFormed
<1> QED
  BY <1>1, <1>2, <1>3, <1>4

\* What the guest is told of a module is what the reference says of it.
LEMMA CompileTells ==
  ASSUME NEW m \in Modules, Compile(m)
  PROVE  ScanTellsTables'
<1> DEFINE several == m.head = "v1" /\ Tables(m) > 1
<1>1. /\ definedTableCount(m) > 1 <=> several
      /\ Translatable(m) => ~several
  BY SeveralArePicked
<1> HIDE DEF several
<1>2. CASE several
  <2>1. returned' = [op |-> "compile", module |-> m, answer |-> "CompileError",
                     reached |-> FALSE, ready |-> Ready]
    BY <1>1, <1>2 DEF Compile, Return
  <2> QED
    BY <2>1, <1>1, <1>2 DEF ScanTellsTables, several
<1>3. CASE ~several
  <2>1. PICK result \in Bridge(m, "translate") :
           returned' = [op |-> "compile", module |-> m,
                        answer |-> IF result = "factory" THEN "ok" ELSE "CompileError",
                        reached |-> TRUE, ready |-> Ready /\ result # "no memory"]
    BY <1>1, <1>3 DEF Compile, Return
  <2>2. /\ Ready /\ result # "no memory" => (result = "factory" <=> Translatable(m))
        /\ result = "factory" => Translatable(m)
    BY DEF Bridge, Result
  <2> QED
    BY <2>1, <2>2, <1>3 DEF ScanTellsTables, several
<1> QED
  BY <1>2, <1>3

LEMMA ValidateTells ==
  ASSUME NEW m \in Modules, Validate(m)
  PROVE  ScanTellsTables'
<1> DEFINE several == m.head = "v1" /\ Tables(m) > 1
<1>1. definedTableCount(m) > 1 <=> several
  BY SeveralArePicked
<1>2. Readable(m) => m.head # "no magic"
  BY SeveralArePicked
<1>3. several => m.head # "no magic"
  OBVIOUS
<1> HIDE DEF several
<1>4. CASE m.head = "no magic"
  <2>1. returned' = [op |-> "validate", module |-> m, answer |-> "false",
                     reached |-> FALSE, ready |-> Ready]
    BY <1>4 DEF Validate, Return
  <2> QED
    BY <2>1, <1>2, <1>3, <1>4 DEF ScanTellsTables, several
<1>5. CASE m.head # "no magic" /\ several
  <2>1. returned' = [op |-> "validate", module |-> m, answer |-> "true",
                     reached |-> FALSE, ready |-> Ready]
    BY <1>1, <1>5 DEF Validate, Return
  <2> QED
    BY <2>1, <1>5 DEF ScanTellsTables, several
<1>6. CASE m.head # "no magic" /\ ~several
  <2>1. PICK result \in Bridge(m, "validate") :
           returned' = [op |-> "validate", module |-> m,
                        answer |-> IF result = "1" THEN "true" ELSE "false",
                        reached |-> TRUE, ready |-> Ready /\ result # "no memory"]
    BY <1>1, <1>6 DEF Validate, Return
  <2>2. /\ Ready /\ result # "no memory" => (result = "1" <=> Readable(m))
        /\ result = "1" => Readable(m)
    BY DEF Bridge, Result
  <2> QED
    BY <2>1, <2>2, <1>6 DEF ScanTellsTables, several
<1> QED
  BY <1>4, <1>5, <1>6

LEMMA WasmStepTells ==
  ASSUME ScanTellsTables, WasmStep
  PROVE  ScanTellsTables'
<1>1. ASSUME NEW m \in Modules, NewModule(m) PROVE ScanTellsTables'
  BY <1>1, CompileTells DEF NewModule
<1>2. ASSUME NEW m \in Modules, Validate(m) PROVE ScanTellsTables'
  BY <1>2, ValidateTells
<1>3. ASSUME Stream PROVE ScanTellsTables'
  <2>1. returned' = returned
    BY <1>3 DEF Stream
  <2> QED
    BY <2>1 DEF ScanTellsTables
<1>4. ASSUME NEW op, NEW outcome, Return(op, None, outcome, FALSE, Ready) PROVE ScanTellsTables'
  <2>1. returned'.module = None
    BY <1>4 DEF Return
  <2> QED
    BY <2>1 DEF ScanTellsTables
<1>5. ASSUME StreamArrives PROVE ScanTellsTables'
  BY <1>4, <1>5, CompileTells DEF StreamArrives
<1>6. ASSUME NewInstance PROVE ScanTellsTables'
  BY <1>4, <1>6 DEF NewInstance
<1> HIDE DEF Modules
<1> QED
  BY <1>1, <1>2, <1>3, <1>5, <1>6 DEF WasmStep

-----------------------------------------------------------------------------
(* The media stub *)

StubElements ==
  [src : {"", "a", "b"}, currentSrc : {"", "a", "b"}, token : 0..MaxCalls,
   error : {NoError, MEDIA_ERR_SRC_NOT_SUPPORTED},
   networkState : {NETWORK_EMPTY, NETWORK_LOADING, NETWORK_NO_SOURCE}]

\* Tokens are counted up, and only the element's own can be that of a failure queued
\* for the source that it has.
TokensCount ==
  /\ el.token <= calls /\ nextEntry <= calls
  /\ \A token \in timers : token <= el.token
  /\ el.token \in timers => el.currentSrc # ""

\* The live list holds each listener that is wanted at most once, and no other.
ListWanted ==
  /\ \A i \in DOMAIN listeners :
       /\ wanted[listeners[i].listener] # "no"
       /\ wanted[listeners[i].listener] = "once" => listeners[i].once
  /\ \A i, j \in DOMAIN listeners : listeners[i].listener = listeners[j].listener => i = j

SInv == StubTypeOK /\ LoadStateIsHonest /\ TokensCount /\ ListWanted

\* What is left of a sequence without one of its elements.
LEMMA RemoveAtElements ==
  ASSUME NEW S, NEW s \in Seq(S), NEW k \in DOMAIN s
  PROVE  /\ RemoveAt(s, k) \in Seq(S)
         /\ DOMAIN RemoveAt(s, k) = 1..(Len(s) - 1)
         /\ \A j \in 1..(Len(s) - 1) :
              RemoveAt(s, k)[j] = IF j < k THEN s[j] ELSE s[j + 1]
<1> DEFINE before == SubSeq(s, 1, k - 1)
           after == SubSeq(s, k + 1, Len(s))
<1>1. k \in 1..Len(s) /\ Len(s) \in Nat /\ DOMAIN s = 1..Len(s)
  BY LenProperties
<1>2. /\ before \in Seq(S) /\ Len(before) = k - 1
      /\ \A i \in 1..(k - 1) : before[i] = s[i]
  <2>1. /\ 1 \in 1..(Len(s) + 1) /\ k - 1 \in 0..Len(s)
    BY <1>1
  <2> QED
    BY <1>1, <2>1, SubSeqProperties
<1>3. /\ after \in Seq(S) /\ Len(after) = Len(s) - k
      /\ \A i \in 1..(Len(s) - k) : after[i] = s[k + i]
  BY <1>1, SubSeqProperties
<1> HIDE DEF before, after
<1> DEFINE c == before \o after
<1>4. /\ c \in Seq(S) /\ Len(c) = (k - 1) + (Len(s) - k)
      /\ \A i \in 1..(k - 1) : c[i] = before[i]
      /\ \A i \in 1..(Len(s) - k) : c[(k - 1) + i] = after[i]
  <2>1. /\ c \in Seq(S) /\ Len(c) = Len(before) + Len(after)
        /\ \A i \in 1..Len(before) : c[i] = before[i]
        /\ \A i \in 1..Len(after) : c[Len(before) + i] = after[i]
    <3>1. before \in Seq(S) /\ after \in Seq(S)
      BY <1>2, <1>3
    <3> QED
      BY <3>1, ConcatElements
  <2> HIDE DEF c
  <2> QED
    BY <1>2, <1>3, <2>1
<1> HIDE DEF c
<1>5. Len(c) = Len(s) - 1 /\ DOMAIN c = 1..(Len(s) - 1)
  BY <1>1, <1>4, LenProperties
<1>6. ASSUME NEW j \in 1..(Len(s) - 1)
      PROVE  c[j] = IF j < k THEN s[j] ELSE s[j + 1]
  <2>1. CASE j < k
    <3>1. j \in 1..(k - 1)
      BY <1>1, <2>1
    <3>2. c[j] = before[j]
      BY <1>4, <3>1
    <3>3. before[j] = s[j]
      BY <1>2, <3>1
    <3> QED
      BY <2>1, <3>2, <3>3
  <2>2. CASE ~(j < k)
    <3>1. PICK i \in 1..(Len(s) - k) : j = (k - 1) + i /\ j + 1 = k + i
      <4>1. j - (k - 1) \in 1..(Len(s) - k) /\ j = (k - 1) + (j - (k - 1))
            /\ j + 1 = k + (j - (k - 1))
        BY <1>1, <2>2
      <4> QED
        BY <4>1
    <3>2. c[(k - 1) + i] = after[i]
      BY <1>4, <3>1
    <3>3. after[i] = s[k + i]
      BY <1>3, <3>1
    <3>4. c[j] = s[j + 1]
      BY <3>1, <3>2, <3>3
    <3> QED
      BY <2>2, <3>4
  <2> QED
    BY <2>1, <2>2
<1> QED
  BY <1>4, <1>5, <1>6 DEF c, before, after, RemoveAt

\* A list without one of its listeners has the others, in their order.
LEMMA WithoutListener ==
  ASSUME SInv, NEW f \in Listeners
  PROVE  /\ Without(listeners, f) \in Seq(Entries)
         /\ \A i \in DOMAIN Without(listeners, f) :
              /\ Without(listeners, f)[i].listener # f
              /\ \E k \in DOMAIN listeners : Without(listeners, f)[i] = listeners[k]
         /\ \A i, j \in DOMAIN Without(listeners, f) :
              Without(listeners, f)[i].listener = Without(listeners, f)[j].listener => i = j
<1> DEFINE at == {i \in DOMAIN listeners : listeners[i].listener = f}
<1>1. /\ listeners \in Seq(Entries)
      /\ \A i, j \in DOMAIN listeners : listeners[i].listener = listeners[j].listener => i = j
  BY DEF SInv, StubTypeOK, ListWanted
<1>2. CASE at = {}
  BY <1>1, <1>2 DEF Without
<1>3. CASE at # {}
  <2>1. PICK k \in at : \A j \in at : j = k
    BY <1>1, <1>3
  <2>2. (CHOOSE i \in at : \A j \in at : i <= j) = k
    <3>1. k \in Nat /\ DOMAIN listeners = 1..Len(listeners)
      BY <1>1, <2>1, LenProperties
    <3>2. k <= k
      BY <3>1
    <3>3. \A j \in at : k <= j
      BY <2>1, <3>2
    <3> HIDE DEF at
    <3> QED
      BY <2>1, <3>3
  <2>3. Without(listeners, f) = RemoveAt(listeners, k)
    BY <1>3, <2>2 DEF Without
  <2> DEFINE rest == RemoveAt(listeners, k)
  <2>4. /\ rest \in Seq(Entries) /\ DOMAIN rest = 1..(Len(listeners) - 1)
        /\ \A j \in 1..(Len(listeners) - 1) :
             rest[j] = IF j < k THEN listeners[j] ELSE listeners[j + 1]
        /\ k \in DOMAIN listeners /\ listeners[k].listener = f
        /\ DOMAIN listeners = 1..Len(listeners) /\ Len(listeners) \in Nat /\ k \in Nat
    BY <1>1, <2>1, RemoveAtElements, LenProperties
  <2> HIDE DEF rest
  <2> DEFINE At(j) == IF j < k THEN j ELSE j + 1
  <2>5. \A j \in DOMAIN rest : At(j) \in DOMAIN listeners /\ At(j) # k /\ rest[j] = listeners[At(j)]
    BY <2>4
  <2>6. \A i, j \in DOMAIN rest : At(i) = At(j) => i = j
    BY <2>4
  <2> HIDE DEF At
  <2>7. \A i \in DOMAIN rest : rest[i].listener # f
    BY <1>1, <2>4, <2>5
  <2>8. \A i, j \in DOMAIN rest : rest[i].listener = rest[j].listener => i = j
    BY <1>1, <2>5, <2>6
  <2> QED
    BY <2>3, <2>4, <2>5, <2>7, <2>8 DEF rest
<1> QED
  BY <1>2, <1>3

LEMMA NewElementFacts ==
  /\ NewElement \in StubElements
  /\ NewElement.token = 0 /\ NewElement.currentSrc = ""
  /\ NewElement.error = NoError /\ NewElement.networkState = NETWORK_EMPTY
  /\ 0 \in 0..MaxCalls /\ <<>> \in Seq(Entries) /\ <<>> \in Seq(Dispatches)
  /\ Len(<<>>) = 0 /\ 0 <= MaxDepth /\ DOMAIN <<>> = {} /\ 0 <= 0
  /\ [f \in Listeners |-> "no"] \in [Listeners -> {"no", "always", "once"}]
<1>1. NewElement \in StubElements
  BY StubAssumption DEF NewElement, StubElements, NoError, NETWORK_EMPTY
<1>2. /\ NewElement.token = 0 /\ NewElement.currentSrc = ""
      /\ NewElement.error = NoError /\ NewElement.networkState = NETWORK_EMPTY
  BY DEF NewElement
<1>3. /\ 0 \in 0..MaxCalls /\ <<>> \in Seq(Entries) /\ <<>> \in Seq(Dispatches)
      /\ Len(<<>>) = 0 /\ 0 <= MaxDepth /\ DOMAIN <<>> = {} /\ 0 <= 0
  BY StubAssumption, EmptySeq
<1>4. [f \in Listeners |-> "no"] \in [Listeners -> {"no", "always", "once"}]
  OBVIOUS
<1> QED
  BY <1>1, <1>2, <1>3, <1>4

\* The three network states are told apart by their numbers.
LEMMA NetworkStates ==
  /\ NETWORK_EMPTY # NETWORK_LOADING /\ NETWORK_EMPTY # NETWORK_NO_SOURCE
  /\ NETWORK_LOADING # NETWORK_NO_SOURCE /\ MEDIA_ERR_SRC_NOT_SUPPORTED # NoError
BY DEF NETWORK_EMPTY, NETWORK_LOADING, NETWORK_NO_SOURCE, MEDIA_ERR_SRC_NOT_SUPPORTED, NoError

LEMMA SInitSInv == StubInit => SInv
<1> SUFFICES ASSUME StubInit PROVE SInv
  OBVIOUS
<1>1. StubTypeOK
  BY NewElementFacts DEF StubInit, StubTypeOK, StubElements
<1>2. /\ el.token = 0 /\ el.currentSrc = "" /\ el.error = NoError
      /\ el.networkState = NETWORK_EMPTY /\ timers = {}
  BY NewElementFacts DEF StubInit
<1>3. LoadStateIsHonest
  BY <1>2, NetworkStates DEF LoadStateIsHonest
<1>4. TokensCount
  BY <1>2, NewElementFacts DEF StubInit, TokensCount
<1>5. ListWanted
  BY NewElementFacts DEF StubInit, ListWanted
<1> QED
  BY <1>1, <1>3, <1>4, <1>5 DEF SInv


LEMMA ElementFields ==
  ASSUME NEW e \in StubElements
  PROVE  e.token \in 0..MaxCalls /\ e.token \in Nat /\ e.src \in {"", "a", "b"}
<1>1. e.token \in 0..MaxCalls
  BY DEF StubElements
<1>2. e.token \in Nat
  BY <1>1, StubAssumption
<1>3. e.src \in {"", "a", "b"}
  BY DEF StubElements
<1> QED
  BY <1>1, <1>2, <1>3

LEMMA EntryFields ==
  ASSUME NEW list \in Seq(Entries)
  PROVE  \A i \in DOMAIN list : list[i] \in Entries /\ list[i].listener \in Listeners
<1>1. ASSUME NEW i \in DOMAIN list PROVE list[i] \in Entries
  BY ElementOfSeq, LenProperties
<1>2. ASSUME NEW e \in Entries PROVE e.listener \in Listeners
  BY DEF Entries
<1> QED
  BY <1>1, <1>2

\* load() counts its failure up and leaves exactly that one to come.
LEMMA LoadKeepsSInv ==
  ASSUME SInv, NEW e \in StubElements, e.token = el.token, Load(e),
         calls < MaxCalls, calls' = calls + 1, calling' = NoListener,
         UNCHANGED <<defined, listeners, onerror, stack, wanted, nextEntry>>
  PROVE  SInv'
<1>1. /\ el \in StubElements /\ calls \in 0..MaxCalls /\ timers \subseteq 1..MaxCalls
      /\ el.token <= calls /\ nextEntry <= calls /\ nextEntry \in 0..MaxCalls
      /\ \A token \in timers : token <= el.token
      /\ MaxCalls \in Nat
  BY StubAssumption DEF SInv, StubTypeOK, StubElements, TokensCount
<1>2. e.token \in Nat /\ e.token = el.token /\ e.src \in {"", "a", "b"} /\ el.token \in Nat
  BY <1>1, ElementFields
<1>3. /\ NextToken(e) \in 1..MaxCalls /\ NextToken(e) = el.token + 1 /\ NextToken(e) <= calls'
      /\ calls' \in 0..MaxCalls /\ nextEntry' <= calls'
  <2>1. /\ NextToken(e) = el.token + 1 /\ el.token \in Nat /\ calls \in Nat /\ calls < MaxCalls
        /\ el.token <= calls /\ MaxCalls \in Nat /\ calls' = calls + 1
        /\ nextEntry' = nextEntry /\ nextEntry \in Nat /\ nextEntry <= calls
    <3>1. NextToken(e) = el.token + 1
      BY <1>2 DEF NextToken
    <3>2. calls \in Nat /\ nextEntry \in Nat
      BY <1>1
    <3> QED
      BY <1>1, <1>2, <3>1, <3>2
  <2> QED
    BY <2>1
<1>4. \A token \in timers : token <= NextToken(e) /\ token # NextToken(e)
  <2>1. /\ NextToken(e) = el.token + 1 /\ el.token \in Nat
        /\ \A token \in timers : token <= el.token /\ token \in Nat
    <3>1. \A token \in timers : token \in Nat
      BY <1>1
    <3> QED
      BY <1>1, <1>2, <1>3, <3>1
  <2> QED
    BY <2>1
<1>5. /\ el'.token = NextToken(e) /\ el'.error = NoError /\ el'.currentSrc = e.src
      /\ el'.networkState = IF e.src = "" THEN NETWORK_EMPTY ELSE NETWORK_LOADING
      /\ el' \in StubElements
  <2>1. el' = Loaded(e)
    BY DEF Load
  <2>2. NextToken(e) \in 0..MaxCalls
    BY <1>3
  <2> HIDE DEF NextToken
  <2>3. CASE e.src = ""
    BY <2>1, <2>2, <2>3 DEF Loaded, StubElements
  <2>4. CASE e.src # ""
    BY <1>2, <2>1, <2>2, <2>4 DEF Loaded, StubElements
  <2> QED
    BY <2>3, <2>4
<1>6. timers' = IF e.src = "" THEN timers ELSE timers \cup {NextToken(e)}
  BY DEF Load
<1> HIDE DEF NextToken
<1>7. /\ timers' \subseteq 1..MaxCalls
      /\ \A token \in timers' : token <= el'.token
      /\ el'.token \in timers' <=> e.src # ""
  <2>1. NextToken(e) \notin timers
    BY <1>4
  <2>2. CASE e.src = ""
    BY <1>1, <1>4, <1>5, <1>6, <2>1, <2>2
  <2>3. CASE e.src # ""
    <3>1. timers' = timers \cup {NextToken(e)} /\ el'.token = NextToken(e)
      BY <1>5, <1>6, <2>3
    <3>2. NextToken(e) <= NextToken(e)
      BY <1>3
    <3> QED
      BY <1>1, <1>3, <1>4, <2>3, <3>1, <3>2
  <2> QED
    BY <2>2, <2>3
<1>8. StubTypeOK'
  BY <1>3, <1>5, <1>7 DEF SInv, StubTypeOK, StubElements
<1>9. LoadStateIsHonest'
  BY <1>5, <1>7, NetworkStates DEF LoadStateIsHonest
<1>10. TokensCount'
  BY <1>3, <1>5, <1>7 DEF TokensCount
<1>11. ListWanted'
  BY DEF SInv, ListWanted
<1> QED
  BY <1>8, <1>9, <1>10, <1>11 DEF SInv

\* A step that leaves the element alone.
LEMMA ListKeepsSInv ==
  ASSUME SInv, UNCHANGED <<el, timers>>, defined' \in BOOLEAN,
         listeners' \in Seq(Entries), onerror' \in Listeners \cup {NoListener},
         stack' \in Seq(Dispatches), Len(stack') <= MaxDepth,
         wanted' \in [Listeners -> {"no", "always", "once"}],
         calling' \in Listeners \cup {NoListener},
         nextEntry' \in 0..MaxCalls, calls' \in 0..MaxCalls,
         calls' >= calls, nextEntry' <= calls',
         ListWanted'
  PROVE  SInv'
<1>1. StubTypeOK' /\ LoadStateIsHonest'
  BY DEF SInv, StubTypeOK, LoadStateIsHonest
<1>2. TokensCount'
  <2>1. el.token \in Nat
    <3>1. el \in StubElements
      BY DEF SInv, StubTypeOK, StubElements
    <3> QED
      BY <3>1, ElementFields
  <2>2. calls \in 0..MaxCalls /\ el.token <= calls
    BY DEF SInv, TokensCount, StubTypeOK
  <2>3. el.token <= calls'
    BY <2>1, <2>2
  <2> QED
    BY <2>3 DEF SInv, TokensCount
<1> QED
  BY <1>1, <1>2 DEF SInv

LEMMA GuestStepKeepsSInv ==
  ASSUME SInv, GuestStep
  PROVE  SInv' /\ calling' = NoListener
<1>1. /\ el \in StubElements /\ calls \in 0..MaxCalls /\ nextEntry \in 0..MaxCalls
      /\ listeners \in Seq(Entries) /\ onerror \in Listeners \cup {NoListener}
      /\ stack \in Seq(Dispatches) /\ Len(stack) <= MaxDepth /\ defined \in BOOLEAN
      /\ wanted \in [Listeners -> {"no", "always", "once"}] /\ ListWanted
      /\ nextEntry <= calls /\ MaxCalls \in Nat
  BY StubAssumption DEF SInv, StubTypeOK, StubElements, TokensCount
<1>2. ASSUME GuestCalls
      PROVE  /\ calls < MaxCalls /\ calls' = calls + 1 /\ calling' = NoListener
             /\ calls' \in 0..MaxCalls /\ calls' >= calls /\ nextEntry <= calls'
             /\ nextEntry < MaxCalls
  BY <1>1, <1>2 DEF GuestCalls
<1>3. ASSUME NEW value \in {"", "a", "b"}, SetSrc(value)
      PROVE  SInv' /\ calling' = NoListener
  <2> DEFINE e == [el EXCEPT !.src = value]
  <2>1. e \in StubElements /\ e.token = el.token
    BY <1>1 DEF StubElements
  <2>2. Load(e) /\ GuestCalls /\ UNCHANGED <<defined, listeners, onerror, stack, wanted, nextEntry>>
    BY <1>3 DEF SetSrc
  <2> HIDE DEF e
  <2> QED
    BY <1>2, <2>1, <2>2, LoadKeepsSInv
<1>4. ASSUME CallLoad PROVE SInv' /\ calling' = NoListener
  BY <1>1, <1>2, <1>4, LoadKeepsSInv DEF CallLoad
<1>5. ASSUME DispatchEvent PROVE SInv' /\ calling' = NoListener
  <2>1. /\ GuestCalls /\ Len(stack) < MaxDepth /\ BeginDispatch
        /\ UNCHANGED <<defined, el, listeners, onerror, timers, wanted, nextEntry>>
    BY <1>5 DEF DispatchEvent
  <2>2. [fresh |-> TRUE, todo |-> <<>>, inGuest |-> onerror # NoListener] \in Dispatches
    BY EmptySeq DEF Dispatches
  <2>3. stack' \in Seq(Dispatches) /\ Len(stack') <= MaxDepth
    <3>1. stack' \in Seq(Dispatches) /\ Len(stack') = Len(stack) + 1 /\ Len(stack) \in Nat
      BY <1>1, <2>1, <2>2, OneMore DEF BeginDispatch
    <3> QED
      BY <2>1, <3>1, StubAssumption
  <2>4. ListWanted'
    BY <1>1, <2>1 DEF ListWanted
  <2> QED
    BY <1>1, <1>2, <2>1, <2>3, <2>4, ListKeepsSInv
<1>6. ASSUME NEW f \in Listeners \cup {NoListener}, SetOnError(f)
      PROVE  SInv' /\ calling' = NoListener
  <2>1. ListWanted'
    BY <1>1, <1>6 DEF SetOnError, ListWanted
  <2> QED
    BY <1>1, <1>2, <1>6, <2>1, ListKeepsSInv DEF SetOnError
<1>7. ASSUME NEW f \in Listeners, NEW once \in BOOLEAN, AddEventListener(f, once)
      PROVE  SInv' /\ calling' = NoListener
  <2>1. GuestCalls /\ UNCHANGED <<defined, el, onerror, timers, stack>>
    BY <1>7 DEF AddEventListener
  <2>2. CASE Registered(f)
    <3>1. UNCHANGED <<listeners, nextEntry, wanted>>
      BY <1>7, <2>2 DEF AddEventListener
    <3>2. ListWanted'
      BY <1>1, <3>1 DEF ListWanted
    <3> QED
      BY <1>1, <1>2, <2>1, <3>1, <3>2, ListKeepsSInv
  <2>3. CASE ~Registered(f)
    <3> DEFINE entry == [id |-> nextEntry, listener |-> f, once |-> once]
    <3>1. /\ listeners' = Append(listeners, entry) /\ nextEntry' = nextEntry + 1
          /\ wanted' = [wanted EXCEPT ![f] = IF once THEN "once" ELSE "always"]
      BY <1>7, <2>3 DEF AddEventListener
    <3>2. entry \in Entries /\ entry.listener = f /\ (once => entry.once)
      BY <1>1 DEF Entries
    <3> HIDE DEF entry
    <3>3. /\ listeners' \in Seq(Entries) /\ DOMAIN listeners = 1..Len(listeners)
          /\ DOMAIN listeners' = 1..(Len(listeners) + 1) /\ Len(listeners) \in Nat
          /\ \A i \in 1..Len(listeners) : listeners'[i] = listeners[i]
          /\ listeners'[Len(listeners) + 1] = entry
      BY <1>1, <3>1, <3>2, OneMore
    <3>4. \A i \in DOMAIN listeners : listeners[i].listener # f
      BY <2>3 DEF Registered
    <3>5. /\ wanted' \in [Listeners -> {"no", "always", "once"}] /\ wanted'[f] # "no"
          /\ wanted'[f] = "once" => once
          /\ \A g \in Listeners : g # f => wanted'[g] = wanted[g]
      BY <1>1, <3>1
    <3>6. \A i \in DOMAIN listeners : listeners[i].listener \in Listeners
      BY <1>1, EntryFields
    <3>7. ASSUME NEW i \in DOMAIN listeners'
          PROVE  /\ wanted'[listeners'[i].listener] # "no"
                 /\ wanted'[listeners'[i].listener] = "once" => listeners'[i].once
      <4>1. CASE i \in DOMAIN listeners
        BY <1>1, <3>3, <3>4, <3>5, <3>6, <4>1 DEF ListWanted
      <4>2. CASE i = Len(listeners) + 1
        BY <3>2, <3>3, <3>5, <4>2
      <4> QED
        BY <3>3, <4>1, <4>2
    <3>8. ASSUME NEW i \in DOMAIN listeners', NEW j \in DOMAIN listeners',
                 listeners'[i].listener = listeners'[j].listener
          PROVE  i = j
      <4>1. i \in DOMAIN listeners \/ i = Len(listeners) + 1
        BY <3>3
      <4>2. j \in DOMAIN listeners \/ j = Len(listeners) + 1
        BY <3>3
      <4>3. CASE i \in DOMAIN listeners /\ j \in DOMAIN listeners
        BY <1>1, <3>3, <3>8, <4>3 DEF ListWanted
      <4>4. CASE i = Len(listeners) + 1 /\ j \in DOMAIN listeners
        BY <3>2, <3>3, <3>4, <3>8, <4>4
      <4>5. CASE j = Len(listeners) + 1 /\ i \in DOMAIN listeners
        BY <3>2, <3>3, <3>4, <3>8, <4>5
      <4> QED
        BY <4>1, <4>2, <4>3, <4>4, <4>5
    <3>9. ListWanted'
      BY <3>7, <3>8 DEF ListWanted
    <3>10. nextEntry' \in 0..MaxCalls /\ nextEntry' <= calls'
      BY <1>1, <1>2, <2>1, <3>1
    <3> QED
      BY <1>1, <1>2, <2>1, <3>3, <3>5, <3>9, <3>10, ListKeepsSInv
  <2> QED
    BY <2>2, <2>3
<1>8. ASSUME NEW f \in Listeners, RemoveEventListener(f)
      PROVE  SInv' /\ calling' = NoListener
  <2>1. /\ GuestCalls /\ listeners' = Without(listeners, f)
        /\ wanted' = [wanted EXCEPT ![f] = "no"]
        /\ UNCHANGED <<defined, el, onerror, timers, stack, nextEntry>>
    BY <1>8 DEF RemoveEventListener
  <2>2. /\ wanted' \in [Listeners -> {"no", "always", "once"}]
        /\ \A g \in Listeners : g # f => wanted'[g] = wanted[g]
    BY <1>1, <2>1
  <2>3. /\ listeners' \in Seq(Entries)
        /\ \A i \in DOMAIN listeners' :
             /\ listeners'[i].listener # f
             /\ \E k \in DOMAIN listeners : listeners'[i] = listeners[k]
        /\ \A i, j \in DOMAIN listeners' :
             listeners'[i].listener = listeners'[j].listener => i = j
    BY <2>1, WithoutListener
  <2>4. \A i \in DOMAIN listeners : listeners[i].listener \in Listeners
    BY <1>1, EntryFields
  <2>5. ListWanted'
    BY <1>1, <2>2, <2>3, <2>4 DEF ListWanted
  <2> QED
    BY <1>1, <1>2, <2>1, <2>2, <2>3, <2>5, ListKeepsSInv
<1> QED
  BY <1>3, <1>4, <1>5, <1>6, <1>7, <1>8 DEF GuestStep


LEMMA TopFacts ==
  ASSUME SInv, stack # <<>>
  PROVE  /\ Top \in Dispatches /\ Len(stack) \in Nat \ {0} /\ stack \in Seq(Dispatches)
         /\ \A d \in Dispatches : SetTop(d) => stack' \in Seq(Dispatches) /\ Len(stack') = Len(stack)
<1>1. stack \in Seq(Dispatches) /\ Len(stack) \in Nat \ {0} /\ Len(stack) \in DOMAIN stack
  <2>1. stack \in Seq(Dispatches)
    BY DEF SInv, StubTypeOK
  <2>2. Len(stack) \in Nat \ {0} /\ DOMAIN stack = 1..Len(stack)
    BY <2>1, OneLess
  <2> QED
    BY <2>1, <2>2
<1>2. Top \in Dispatches
  BY <1>1, ElementOfSeq DEF Top
<1>3. ASSUME NEW d \in Dispatches, SetTop(d)
      PROVE  stack' \in Seq(Dispatches) /\ Len(stack') = Len(stack)
  BY <1>1, <1>3, OneChanged DEF SetTop
<1> QED
  BY <1>1, <1>2, <1>3

LEMMA StubStepKeepsSInv ==
  ASSUME SInv, StubStep
  PROVE  /\ SInv'
         /\ calling' # NoListener => calling' \in Listeners /\ wanted[calling'] # "no"
<1> DEFINE Goal == /\ SInv'
                   /\ calling' # NoListener => calling' \in Listeners /\ wanted[calling'] # "no"
<1>1. /\ calls \in 0..MaxCalls /\ nextEntry \in 0..MaxCalls
      /\ listeners \in Seq(Entries) /\ onerror \in Listeners \cup {NoListener}
      /\ stack \in Seq(Dispatches) /\ Len(stack) <= MaxDepth /\ defined \in BOOLEAN
      /\ wanted \in [Listeners -> {"no", "always", "once"}] /\ ListWanted
      /\ nextEntry <= calls
  BY DEF SInv, StubTypeOK, TokensCount
<1> calls >= calls
  BY <1>1
<1>2. ASSUME GuestReturns PROVE Goal
  <2>1. /\ stack # <<>> /\ SetTop([Top EXCEPT !.inGuest = FALSE]) /\ calling' = NoListener
        /\ UNCHANGED <<defined, el, listeners, onerror, timers, wanted, nextEntry, calls>>
    BY <1>2 DEF GuestReturns
  <2>2. [Top EXCEPT !.inGuest = FALSE] \in Dispatches
    BY <2>1, TopFacts DEF Dispatches
  <2>3. stack' \in Seq(Dispatches) /\ Len(stack') = Len(stack)
    BY <2>1, <2>2, TopFacts
  <2>4. ListWanted'
    BY <1>1, <2>1 DEF ListWanted
  <2> QED
    BY <1>1, <2>1, <2>3, <2>4, ListKeepsSInv
<1>3. ASSUME TakeListeners PROVE Goal
  <2>1. /\ stack # <<>> /\ SetTop([Top EXCEPT !.fresh = FALSE, !.todo = listeners])
        /\ calling' = NoListener
        /\ UNCHANGED <<defined, el, listeners, onerror, timers, wanted, nextEntry, calls>>
    BY <1>3 DEF TakeListeners
  <2>2. [Top EXCEPT !.fresh = FALSE, !.todo = listeners] \in Dispatches
    BY <1>1, <2>1, TopFacts DEF Dispatches
  <2>3. stack' \in Seq(Dispatches) /\ Len(stack') = Len(stack)
    BY <2>1, <2>2, TopFacts
  <2>4. ListWanted'
    BY <1>1, <2>1 DEF ListWanted
  <2> QED
    BY <1>1, <2>1, <2>3, <2>4, ListKeepsSInv
<1>4. ASSUME NextListener PROVE Goal
  <2> DEFINE entry == Head(Top.todo)
             rest == [Top EXCEPT !.todo = Tail(@)]
  <2>1. /\ stack # <<>> /\ Top.todo # <<>>
        /\ UNCHANGED <<defined, el, onerror, timers, nextEntry, calls>>
    BY <1>4 DEF NextListener
  <2>2. Top \in Dispatches /\ Top.todo \in Seq(Entries)
    BY <2>1, TopFacts DEF Dispatches
  <2>3. entry \in Entries /\ Tail(Top.todo) \in Seq(Entries)
    BY <2>1, <2>2, OneLess
  <2>4. rest \in Dispatches /\ [rest EXCEPT !.inGuest = TRUE] \in Dispatches
    <3>1. rest \in Dispatches
      BY <2>2, <2>3 DEF Dispatches
    <3> HIDE DEF rest
    <3> QED
      BY <3>1 DEF Dispatches
  <2>5. CASE IsLive(entry)
    <3>1. /\ SetTop([rest EXCEPT !.inGuest = TRUE])
          /\ listeners' = IF entry.once THEN Without(listeners, entry.listener) ELSE listeners
          /\ calling' = entry.listener
          /\ wanted' = IF wanted[entry.listener] = "once"
                       THEN [wanted EXCEPT ![entry.listener] = "no"] ELSE wanted
      BY <1>4, <2>5 DEF NextListener
    <3>2. stack' \in Seq(Dispatches) /\ Len(stack') = Len(stack)
      BY <2>1, <2>4, <3>1, TopFacts
    <3> HIDE DEF entry, rest
    <3>3. PICK i \in DOMAIN listeners : listeners[i] = entry
      BY <2>5 DEF IsLive
    <3>4. entry.listener \in Listeners /\ wanted[entry.listener] # "no"
      BY <1>1, <3>3, EntryFields DEF ListWanted
    <3>5. /\ wanted' \in [Listeners -> {"no", "always", "once"}]
          /\ \A f \in Listeners : f # entry.listener => wanted'[f] = wanted[f]
          /\ wanted[entry.listener] # "once" => wanted' = wanted
      BY <1>1, <3>1, <3>4
    <3>6. CASE entry.once
      <4>1. listeners' = Without(listeners, entry.listener)
        BY <3>1, <3>6
      <4>2. /\ listeners' \in Seq(Entries)
            /\ \A k \in DOMAIN listeners' :
                 /\ listeners'[k].listener # entry.listener
                 /\ \E j \in DOMAIN listeners : listeners'[k] = listeners[j]
            /\ \A k, j \in DOMAIN listeners' :
                 listeners'[k].listener = listeners'[j].listener => k = j
        BY <3>4, <4>1, WithoutListener
      <4>3. ListWanted'
        BY <1>1, <3>5, <4>2, EntryFields DEF ListWanted
      <4> QED
        BY <1>1, <2>1, <3>1, <3>2, <3>4, <3>5, <4>2, <4>3, ListKeepsSInv
    <3>7. CASE ~entry.once
      <4>1. listeners' = listeners /\ wanted' = wanted
        BY <1>1, <3>1, <3>3, <3>5, <3>7 DEF ListWanted
      <4>2. ListWanted'
        BY <1>1, <4>1 DEF ListWanted
      <4> QED
        BY <1>1, <2>1, <3>1, <3>2, <3>4, <4>1, <4>2, ListKeepsSInv
    <3> QED
      BY <3>6, <3>7
  <2>6. CASE ~IsLive(entry)
    <3>1. SetTop(rest) /\ calling' = NoListener /\ UNCHANGED <<listeners, wanted>>
      BY <1>4, <2>6 DEF NextListener
    <3>2. stack' \in Seq(Dispatches) /\ Len(stack') = Len(stack)
      BY <2>1, <2>4, <3>1, TopFacts
    <3>3. ListWanted'
      BY <1>1, <3>1 DEF ListWanted
    <3> QED
      BY <1>1, <2>1, <3>1, <3>2, <3>3, ListKeepsSInv
  <2> QED
    BY <2>5, <2>6
<1>5. ASSUME DispatchEnds PROVE Goal
  <2>1. /\ stack # <<>> /\ stack' = Front(stack) /\ calling' = NoListener
        /\ UNCHANGED <<defined, el, listeners, onerror, timers, wanted, nextEntry, calls>>
    BY <1>5 DEF DispatchEnds
  <2>2. stack' \in Seq(Dispatches) /\ Len(stack') <= MaxDepth
    <3>1. Len(stack) \in Nat \ {0}
      BY <2>1, TopFacts
    <3>2. 1 \in 1..(Len(stack) + 1) /\ Len(stack) - 1 \in 0..Len(stack)
      BY <3>1
    <3>3. stack' \in Seq(Dispatches) /\ Len(stack') = Len(stack) - 1
      <4>1. stack' = SubSeq(stack, 1, Len(stack) - 1)
        BY <2>1 DEF Front
      <4>2. \A i \in 1..(Len(stack) - 1) : stack[i] \in Dispatches
        BY <1>1, <3>1
      <4>3. /\ SubSeq(stack, 1, Len(stack) - 1) \in Seq(Dispatches)
            /\ Len(SubSeq(stack, 1, Len(stack) - 1))
                 = IF 1 <= Len(stack) - 1 THEN (Len(stack) - 1) - 1 + 1 ELSE 0
        BY <3>1, <4>2, SubSeqProperties
      <4>4. (IF 1 <= Len(stack) - 1 THEN (Len(stack) - 1) - 1 + 1 ELSE 0) = Len(stack) - 1
        <5>1. \A n \in Nat \ {0} : (IF 1 <= n - 1 THEN (n - 1) - 1 + 1 ELSE 0) = n - 1
          OBVIOUS
        <5> QED
          BY <3>1, <5>1
      <4> QED
        BY <4>1, <4>3, <4>4
    <3> QED
      BY <1>1, <3>1, <3>3, StubAssumption
  <2>3. ListWanted'
    BY <1>1, <2>1 DEF ListWanted
  <2> QED
    BY <1>1, <2>1, <2>2, <2>3, ListKeepsSInv
<1>6. ASSUME NEW token \in timers, LoadFails(token) PROVE Goal
  <2>1. /\ stack = <<>> /\ timers' = timers \ {token} /\ calling' = NoListener
        /\ UNCHANGED <<defined, listeners, onerror, wanted, nextEntry, calls>>
    BY <1>6 DEF LoadFails
  <2>2. /\ el \in StubElements /\ timers \subseteq 1..MaxCalls /\ LoadStateIsHonest /\ TokensCount
    BY DEF SInv, StubTypeOK, StubElements
  <2>3. /\ el' \in StubElements /\ el'.token = el.token /\ el'.currentSrc = el.currentSrc
        /\ LoadStateIsHonest'
        /\ stack' \in Seq(Dispatches) /\ Len(stack') <= MaxDepth
    <3>1. CASE el.token = token
      <4>1. /\ el' = [el EXCEPT !.error = MEDIA_ERR_SRC_NOT_SUPPORTED,
                                !.networkState = NETWORK_NO_SOURCE]
            /\ BeginDispatch
        BY <1>6, <3>1 DEF LoadFails, IsCurrent
      <4>2. /\ el' \in StubElements /\ el'.token = el.token /\ el'.currentSrc = el.currentSrc
            /\ el'.error = MEDIA_ERR_SRC_NOT_SUPPORTED /\ el'.networkState = NETWORK_NO_SOURCE
        BY <2>2, <4>1 DEF StubElements
      <4>3. el.currentSrc # "" /\ token \notin timers'
        BY <2>1, <2>2, <3>1 DEF TokensCount
      <4>4. LoadStateIsHonest'
        BY <3>1, <4>2, <4>3, NetworkStates DEF LoadStateIsHonest
      <4>5. [fresh |-> TRUE, todo |-> <<>>, inGuest |-> onerror # NoListener] \in Dispatches
        BY EmptySeq DEF Dispatches
      <4>6. stack' \in Seq(Dispatches) /\ Len(stack') = 1
        <5>1. stack' \in Seq(Dispatches) /\ Len(stack') = Len(stack) + 1 /\ Len(stack) = 0
          BY <1>1, <2>1, <4>1, <4>5, OneMore, EmptySeq DEF BeginDispatch
        <5> QED
          BY <5>1
      <4>7. 1 <= MaxDepth
        BY StubAssumption
      <4> QED
        BY <4>2, <4>4, <4>6, <4>7
    <3>2. CASE el.token # token
      <4>1. UNCHANGED <<el, stack>>
        BY <1>6, <3>2 DEF LoadFails, IsCurrent
      <4> QED
        BY <1>1, <2>1, <2>2, <3>2, <4>1 DEF LoadStateIsHonest
    <3> QED
      BY <3>1, <3>2
  <2>4. StubTypeOK'
    BY <1>1, <2>1, <2>2, <2>3 DEF StubTypeOK, StubElements
  <2>5. TokensCount'
    BY <2>1, <2>2, <2>3 DEF TokensCount
  <2>6. ListWanted'
    BY <1>1, <2>1 DEF ListWanted
  <2> QED
    BY <2>1, <2>3, <2>4, <2>5, <2>6 DEF SInv
<1> QED
  BY <1>2, <1>3, <1>4, <1>5, <1>6 DEF StubStep

LEMMA ScriptKeepsSInv ==
  ASSUME SInv, NEW halves, StubInWindow(halves) \/ StubInNewWindow(halves)
  PROVE  SInv' /\ (stack' # stack => calling' = NoListener)
<1>1. CASE UNCHANGED stubVars \/ (defined' \in BOOLEAN
            /\ UNCHANGED <<el, listeners, onerror, timers, stack, wanted, calling, nextEntry, calls>>)
  <2>1. UNCHANGED <<el, listeners, onerror, timers, stack, wanted, calling, nextEntry, calls>>
        /\ defined' \in BOOLEAN
    BY <1>1 DEF stubVars, SInv, StubTypeOK
  <2> QED
    BY <2>1 DEF SInv, StubTypeOK, LoadStateIsHonest, TokensCount, ListWanted
<1>2. CASE StubInNewWindow(halves)
  <2>1. /\ defined' \in BOOLEAN /\ el' = NewElement /\ listeners' = <<>> /\ onerror' = NoListener
        /\ timers' = {} /\ stack' = <<>> /\ wanted' = [f \in Listeners |-> "no"]
        /\ calling' = NoListener /\ nextEntry' = 0 /\ calls' = calls
    BY <1>2 DEF StubInNewWindow
  <2>2. calls \in 0..MaxCalls
    BY DEF SInv, StubTypeOK
  <2>3. StubTypeOK'
    BY <2>1, <2>2, NewElementFacts DEF StubTypeOK, StubElements
  <2>4. LoadStateIsHonest'
    BY <2>1, NewElementFacts, NetworkStates DEF LoadStateIsHonest
  <2>5. TokensCount'
    <3>1. 0 <= calls
      BY <2>2
    <3> QED
      BY <2>1, <3>1, NewElementFacts DEF TokensCount
  <2>6. ListWanted'
    BY <2>1, NewElementFacts DEF ListWanted
  <2> QED
    BY <2>1, <2>3, <2>4, <2>5, <2>6 DEF SInv
<1>3. CASE StubInWindow(halves)
  <2>1. UNCHANGED stubVars \/ EvaluateStub(RealElements)
    BY <1>3 DEF StubInWindow
  <2>2. (defined \/ ~RealElements) \in BOOLEAN
    OBVIOUS
  <2> QED
    BY <1>1, <2>1, <2>2 DEF EvaluateStub
<1> QED
  BY <1>2, <1>3


-----------------------------------------------------------------------------
(* Gate 9 *)

\* A check that failed had a cause, one that was made saw binaryen, and the verdict
\* is the probe's last line.
GInv ==
  /\ probe \in {"sync", "async", "streaming", "verdict", "over"}
  /\ failures \in BOOLEAN /\ tooEarly \in BOOLEAN
  /\ probe = "sync" => ~failures
  /\ probe # "sync" => failures \/ Ready
  /\ failures => tooEarly \/ fetchFaults > 0
  /\ gateVerdict \in {"none", "PASS", "FAIL"}
  /\ gateVerdict # "none" => probe = "over"
  /\ gateVerdict = "PASS" => ~failures
  /\ gateVerdict = "FAIL" => failures
  /\ gateEnd \in {"running", "PASS", "FAIL"}
  /\ gateEnd = "PASS" => gateVerdict = "PASS"
  /\ gateEnd = "FAIL" => gateLate \/ failures

LEMMA GInitGInv == Gate9Init => GInv
  BY DEF Gate9Init, GInv

LEMMA GInvTellsTheTruth == GInv => Gate9TellsTheTruth
  BY DEF GInv, Gate9TellsTheTruth

\* The probe's module is one that binaryen reads and translates, and the one that it
\* wants to see refused is not.
LEMMA ProbeModules == Readable(Good) /\ Translatable(Good) /\ ~Readable(Bad) /\ ~Translatable(Bad)
<1>1. /\ Good.head = "v1" /\ Good.cut = 0 /\ Good.code = "fine" /\ Good.sections = <<>>
      /\ Bad.code = "invalid"
  BY DEF Good, Bad
<1>2. DOMAIN Good.sections = {}
  BY <1>1
<1> HIDE DEF Good, Bad
<1>3. WellFormed(Good) /\ Tables(Good) = 0
  BY <1>1, <1>2 DEF WellFormed, Tables
<1> QED
  BY <1>1, <1>3 DEF Readable, Translatable

\* A line of the console is the verdict or it is not.
LEMMA ChecksAreNoVerdict ==
  ASSUME NEW checks, Hear([i \in DOMAIN checks |-> Line("check", checks[i])])
  PROVE  gateVerdict' = gateVerdict
<1> DEFINE lines == [i \in DOMAIN checks |-> Line("check", checks[i])]
<1>1. {i \in DOMAIN lines : IsVerdict(lines[i])} = {}
  BY DEF IsVerdict, Line
<1> HIDE DEF lines
<1>2. Hear(lines)
  BY DEF lines
<1> QED
  BY <1>1, <1>2 DEF Hear

LEMMA VerdictIsHeard ==
  ASSUME NEW ok \in BOOLEAN, Hear(<<Line("verdict", ok)>>)
  PROVE  gateVerdict' = IF ok THEN "PASS" ELSE "FAIL"
<1> DEFINE line == Line("verdict", ok)
<1> DEFINE lines == <<line>>
<1>1. line.type = "verdict" /\ line.ok = ok
  BY DEF Line
<1> HIDE DEF line
<1>2. DOMAIN lines = {1} /\ lines[1] = line
  OBVIOUS
<1> HIDE DEF lines
<1>3. {i \in DOMAIN lines : IsVerdict(lines[i])} = {1}
  BY <1>1, <1>2 DEF IsVerdict
<1>4. Max({1}) = 1
  BY DEF Max
<1>5. Hear(lines)
  BY DEF lines, line
<1> QED
  BY <1>1, <1>2, <1>3, <1>4, <1>5 DEF Hear

\* The boot and the windows take nothing back that the probe has seen.
LEMMA GInvStable ==
  ASSUME GInv, UNCHANGED gate9Vars, Ready => Ready', fetchFaults' = 0 => fetchFaults = 0,
         fetchFaults \in Nat, fetchFaults' \in Nat
  PROVE  GInv'
<1>1. UNCHANGED <<probe, failures, tooEarly, gateVerdict, gateEnd, gateLate>>
  BY DEF gate9Vars, probeVars
<1>2. fetchFaults > 0 => fetchFaults' > 0
  OBVIOUS
<1> QED
  BY <1>1, <1>2 DEF GInv


\* What a stretch of the script leaves behind.
LEMMA ProceedsKeepsGInv ==
  ASSUME GInv, WInv, NEW next \in {"async", "streaming", "verdict"},
         NEW checks, NEW throws \in BOOLEAN, Proceeds(next, checks, throws),
         probe # "over", tooEarly' \in BOOLEAN, failures /\ tooEarly => tooEarly',
         fetchFaults' \in 0..MaxFetchFaults, fetchFaults' >= fetchFaults,
         (throws \/ \E i \in DOMAIN checks : ~checks[i]) => tooEarly' \/ fetchFaults' > 0,
         ~throws /\ ~failures => Ready
  PROVE  WInv' /\ GInv'
<1> DEFINE bad == throws \/ \E i \in DOMAIN checks : ~checks[i]
<1>1. /\ probe' = IF throws THEN "verdict" ELSE next
      /\ failures' = (failures \/ bad)
      /\ UNCHANGED <<windowVars, workerVars, returned, wasmCalls, gateEnd, gateLate>>
      /\ gateVerdict' = gateVerdict
  BY ChecksAreNoVerdict DEF Proceeds
<1>2. bad \in BOOLEAN /\ (bad => tooEarly' \/ fetchFaults' > 0) /\ (throws => bad)
  OBVIOUS
<1> HIDE DEF bad
<1>3. fetchFaults \in 0..MaxFetchFaults
  BY DEF WInv, WasmTypeOK
<1>4. fetchFaults' \in 0..MaxFetchFaults /\ (fetchFaults' = 0 => fetchFaults = 0)
  BY <1>3, WasmAssumption
<1>5. fetchFaults > 0 => fetchFaults' > 0
  BY <1>3, <1>4, WasmAssumption
<1>6. WInv'
  BY <1>1, <1>4, CallsKeepWInv DEF windowVars, WInv, WasmTypeOK
<1>7. UNCHANGED <<hooks, binaryen>>
  BY <1>1 DEF workerVars
<1>8. Ready' <=> Ready
  BY <1>7 DEF Ready
<1>9. probe' \in {"async", "streaming", "verdict"} /\ failures' \in BOOLEAN
  BY <1>1, <1>2 DEF GInv
<1>10. failures' \/ Ready'
  BY <1>1, <1>2, <1>8
<1>11. failures' => tooEarly' \/ fetchFaults' > 0
  BY <1>1, <1>2, <1>5 DEF GInv
<1>12. gateVerdict' = "none" /\ (gateEnd' = "running" \/ (gateEnd' = "FAIL" /\ (gateLate' \/ failures')))
  BY <1>1, <1>2 DEF GInv
<1> QED
  BY <1>6, <1>9, <1>10, <1>11, <1>12 DEF GInv


\* Checks that are made together.
LEMMA NoneOfOneFails ==
  ASSUME NEW a, a
  PROVE  ~\E i \in DOMAIN <<a>> : ~(<<a>>[i])
<1>1. DOMAIN <<a>> = {1} /\ <<a>>[1] = a
  OBVIOUS
<1> DEFINE s == <<a>>
<1>2. \A i \in DOMAIN s : s[i] = a
  BY <1>1
<1> HIDE DEF s
<1>3. \A i \in DOMAIN s : s[i]
  BY <1>2, Zenon
<1> QED
  BY <1>3 DEF s

LEMMA NoneOfThreeFails ==
  ASSUME NEW a, NEW b, NEW c, a, b, c
  PROVE  ~\E i \in DOMAIN <<a, b, c>> : ~(<<a, b, c>>[i])
<1> DEFINE s == <<a, b, c>>
<1>1. \A i \in DOMAIN s : s[i] = a \/ s[i] = b \/ s[i] = c
  <2>1. DOMAIN s = 1..3 /\ s[1] = a /\ s[2] = b /\ s[3] = c
    OBVIOUS
  <2> HIDE DEF s
  <2>2. \A i \in DOMAIN s : i = 1 \/ i = 2 \/ i = 3
    BY <2>1
  <2> QED
    BY <2>1, <2>2, Zenon
<1> HIDE DEF s
<1>2. \A i \in DOMAIN s : s[i]
  BY <1>1, Zenon
<1> QED
  BY <1>2 DEF s

LEMMA ShortIs ==
  ASSUME NEW result
  PROVE  Short(result) \in 0..1 /\ (result = "no memory" => Short(result) = 1)
<1>1. Short(result) = 1 \/ Short(result) = 0
  BY DEF Short
<1>2. result = "no memory" => Short(result) = 1
  BY DEF Short
<1>3. 0 \in 0..1 /\ 1 \in 0..1
  OBVIOUS
<1> QED
  BY <1>1, <1>2, <1>3, Zenon

\* What the bridge answers the probe, where binaryen is ready, is right or lacked memory.
LEMMA ProbeTranslates ==
  ASSUME NEW module \in Bridge(Good, "translate")
  PROVE  /\ module = "factory" => Ready
         /\ (module # "factory") \in BOOLEAN
         /\ module # "factory" /\ Ready => Short(module) = 1
         /\ Short(module) \in 0..1
<1>1. module = "factory" => Ready
  BY DEF Bridge
<1>2. module # "factory" /\ Ready => module = "no memory"
  BY ProbeModules DEF Bridge, Result
<1>3. (module # "factory") \in BOOLEAN
  OBVIOUS
<1> QED
  BY <1>1, <1>2, <1>3, ShortIs

LEMMA ProbeValidates ==
  ASSUME NEW good \in Bridge(Good, "validate"), NEW bad \in Bridge(Bad, "validate")
  PROVE  /\ Ready => good = "1" \/ Short(good) = 1
         /\ bad # "1"
         /\ Short(good) \in 0..1 /\ Short(bad) \in 0..1
<1>1. Ready => good = "1" \/ good = "no memory"
  BY ProbeModules DEF Bridge, Result
<1>2. bad # "1"
  BY ProbeModules DEF Bridge, Result
<1> QED
  BY <1>1, <1>2, ShortIs

LEMMA FaultsAreSpent ==
  ASSUME WInv, NEW n \in Nat, Spent(n)
  PROVE  /\ fetchFaults' \in 0..MaxFetchFaults /\ fetchFaults' >= fetchFaults
         /\ n > 0 => fetchFaults' > 0
<1>1. fetchFaults \in 0..MaxFetchFaults
  BY DEF WInv, WasmTypeOK
<1> QED
  BY <1>1, FaultsGrow, WasmAssumption

LEMMA Gate9StepKeepsGInv ==
  ASSUME WInv, GInv, Gate9Step
  PROVE  WInv' /\ GInv'
<1>0. /\ fetchFaults \in 0..MaxFetchFaults /\ MaxFetchFaults \in Nat /\ Ready \in BOOLEAN
      /\ tooEarly \in BOOLEAN /\ failures \in BOOLEAN
  BY WasmAssumption DEF WInv, WasmTypeOK, Ready, GInv
<1>1. ASSUME NEW module \in Bridge(Good, "translate"), Spent(Short(module))
      PROVE  /\ module = "factory" => Ready
             /\ (module # "factory") \in BOOLEAN
             /\ module # "factory" /\ Ready => fetchFaults' > 0
             /\ fetchFaults' \in 0..MaxFetchFaults /\ fetchFaults' >= fetchFaults
  <2>1. /\ module = "factory" => Ready
        /\ (module # "factory") \in BOOLEAN
        /\ module # "factory" /\ Ready => Short(module) = 1
        /\ Short(module) \in Nat
    BY ProbeTranslates
  <2> QED
    BY <1>1, <2>1, FaultsAreSpent
<1>2. ASSUME ProbeSync PROVE WInv' /\ GInv'
  <2>1. probe = "sync" /\ pageRuns /\ tooEarly' = ~Ready /\ ~failures
    BY <1>2 DEF ProbeSync, GInv
  <2>2. tooEarly' \in BOOLEAN
    BY <2>1
  <2>3. CASE /\ ~global.WebAssembly
             /\ Proceeds("async", <<FALSE>>, TRUE) /\ UNCHANGED fetchFaults
    <3>1. fetchFaults > 0
      BY <1>0, <2>1, <2>3 DEF WInv
    <3>2. fetchFaults' > 0 /\ fetchFaults' \in 0..MaxFetchFaults /\ fetchFaults' >= fetchFaults
      BY <1>0, <2>3, <3>1
    <3> QED
      BY <2>1, <2>2, <2>3, <3>2, ProceedsKeepsGInv
  <2>4. CASE \E good \in Bridge(Good, "validate"), bad \in Bridge(Bad, "validate"),
                module \in Bridge(Good, "translate") :
               /\ Proceeds("async", <<TRUE, good = "1", bad # "1">>, module # "factory")
               /\ Spent(Short(good) + Short(bad) + Short(module))
    <3>1. PICK good \in Bridge(Good, "validate"), bad \in Bridge(Bad, "validate"),
               module \in Bridge(Good, "translate") :
            /\ Proceeds("async", <<TRUE, good = "1", bad # "1">>, module # "factory")
            /\ Spent(Short(good) + Short(bad) + Short(module))
      BY <2>4
    <3> DEFINE checks == <<TRUE, good = "1", bad # "1">>
               n == Short(good) + Short(bad) + Short(module)
    <3>2. /\ Ready => good = "1" \/ Short(good) = 1
          /\ bad # "1" /\ Short(good) \in 0..1 /\ Short(bad) \in 0..1
      BY ProbeValidates
    <3>3. Ready /\ good = "1" => ~\E i \in DOMAIN checks : ~checks[i]
      BY <3>2, NoneOfThreeFails
    <3>4. /\ module = "factory" => Ready
          /\ (module # "factory") \in BOOLEAN
          /\ module # "factory" /\ Ready => Short(module) = 1
          /\ Short(module) \in 0..1
      BY ProbeTranslates
    <3>5. n \in Nat /\ (Short(good) = 1 \/ Short(module) = 1 => n > 0)
      BY <3>2, <3>4
    <3>6. Proceeds("async", checks, module # "factory") /\ Spent(n)
      BY <3>1
    <3> HIDE DEF checks, n
    <3>7. fetchFaults' \in 0..MaxFetchFaults /\ fetchFaults' >= fetchFaults
          /\ (n > 0 => fetchFaults' > 0)
      BY <3>5, <3>6, FaultsAreSpent
    <3>8. (module # "factory" \/ \E i \in DOMAIN checks : ~checks[i]) => tooEarly' \/ fetchFaults' > 0
      <4>1. CASE ~Ready
        BY <4>1, <2>1
      <4>2. CASE Ready
        BY <4>2, <3>2, <3>3, <3>4, <3>5, <3>7
      <4> QED
        BY <4>1, <4>2
    <3> QED
      BY <2>1, <2>2, <3>4, <3>6, <3>7, <3>8, ProceedsKeepsGInv
  <2> QED
    BY <1>2, <2>3, <2>4 DEF ProbeSync
<1>3. ASSUME ProbeAsync PROVE WInv' /\ GInv'
  <2>1. PICK module \in Bridge(Good, "translate") :
          /\ Proceeds("streaming", <<~Translatable(Bad)>>, module # "factory")
          /\ Spent(Short(module)) /\ probe = "async" /\ tooEarly' = tooEarly
    BY <1>3 DEF ProbeAsync
  <2> DEFINE checks == <<~Translatable(Bad)>>
  <2>2. ~\E i \in DOMAIN checks : ~checks[i]
    BY ProbeModules, NoneOfOneFails
  <2>3. Proceeds("streaming", checks, module # "factory")
    BY <2>1
  <2> HIDE DEF checks
  <2>4. /\ module = "factory" => Ready
        /\ (module # "factory") \in BOOLEAN
        /\ module # "factory" /\ Ready => fetchFaults' > 0
        /\ fetchFaults' \in 0..MaxFetchFaults /\ fetchFaults' >= fetchFaults
    BY <1>1, <2>1
  <2>5. (module # "factory" \/ \E i \in DOMAIN checks : ~checks[i]) => tooEarly' \/ fetchFaults' > 0
    BY <1>0, <2>1, <2>2, <2>4 DEF GInv
  <2> QED
    BY <1>0, <2>1, <2>3, <2>4, <2>5, ProceedsKeepsGInv
<1>4. ASSUME ProbeStreams PROVE WInv' /\ GInv'
  <2>1. probe = "streaming" /\ tooEarly' = tooEarly
    BY <1>4 DEF ProbeStreams
  <2>2. CASE \E module \in Bridge(Good, "translate") :
               Proceeds("verdict", <<TRUE>>, module # "factory") /\ Spent(Short(module))
    <3>1. PICK module \in Bridge(Good, "translate") :
            Proceeds("verdict", <<TRUE>>, module # "factory") /\ Spent(Short(module))
      BY <2>2
    <3> DEFINE checks == <<TRUE>>
    <3>2. (~\E i \in DOMAIN checks : ~checks[i]) /\ Proceeds("verdict", checks, module # "factory")
      BY <3>1, NoneOfOneFails
    <3> HIDE DEF checks
    <3>3. /\ module = "factory" => Ready
          /\ (module # "factory") \in BOOLEAN
          /\ module # "factory" /\ Ready => fetchFaults' > 0
          /\ fetchFaults' \in 0..MaxFetchFaults /\ fetchFaults' >= fetchFaults
      BY <1>1, <3>1
    <3>4. (module # "factory" \/ \E i \in DOMAIN checks : ~checks[i])
             => tooEarly' \/ fetchFaults' > 0
      BY <1>0, <2>1, <3>2, <3>3 DEF GInv
    <3> QED
      BY <1>0, <2>1, <3>2, <3>3, <3>4, ProceedsKeepsGInv
  <2>3. CASE Spent(1) /\ Proceeds("verdict", <<>>, TRUE)
    <3>1. fetchFaults' > 0 /\ fetchFaults' \in 0..MaxFetchFaults /\ fetchFaults' >= fetchFaults
      BY <2>3, FaultsAreSpent
    <3> QED
      BY <1>0, <2>1, <2>3, <3>1, ProceedsKeepsGInv
  <2> QED
    BY <1>4, <2>2, <2>3 DEF ProbeStreams
<1>5. ASSUME UNCHANGED wasmVars PROVE WInv' /\ (Ready' <=> Ready) /\ fetchFaults' = fetchFaults
  BY <1>5, CallsKeepWInv DEF wasmVars, workerVars, windowVars, WInv, WasmTypeOK, Ready
<1>6. ASSUME ProbeVerdict PROVE WInv' /\ GInv'
  <2>1. /\ probe = "verdict" /\ probe' = "over" /\ Hear(<<Line("verdict", ~failures)>>)
        /\ UNCHANGED <<failures, tooEarly, gateEnd, gateLate, wasmVars>>
    BY <1>6 DEF ProbeVerdict
  <2>2. gateVerdict' = IF ~failures THEN "PASS" ELSE "FAIL"
    <3>1. (~failures) \in BOOLEAN
      OBVIOUS
    <3> QED
      BY <2>1, <3>1, VerdictIsHeard
  <2>3. gateVerdict = "none" /\ gateEnd # "PASS"
    BY <2>1 DEF GInv
  <2> QED
    BY <1>5, <2>1, <2>2, <2>3 DEF GInv
<1>7. ASSUME VerdictSeen PROVE WInv' /\ GInv'
  <2>1. /\ gateEnd = "running" /\ gateVerdict # "none" /\ gateEnd' = gateVerdict
        /\ UNCHANGED <<probe, failures, tooEarly, gateVerdict, gateLate, wasmVars>>
    BY <1>7 DEF VerdictSeen, probeVars
  <2> QED
    BY <1>5, <2>1 DEF GInv
<1>8. ASSUME GateTimesOut PROVE WInv' /\ GInv'
  <2>1. /\ gateEnd' = "FAIL" /\ gateLate' = TRUE
        /\ UNCHANGED <<probe, failures, tooEarly, gateVerdict, wasmVars>>
    BY <1>8 DEF GateTimesOut, probeVars
  <2> QED
    BY <1>5, <2>1 DEF GInv
<1> QED
  BY <1>2, <1>3, <1>4, <1>6, <1>7, <1>8 DEF Gate9Step


-----------------------------------------------------------------------------
(* The media bridge *)

PageMessages == [id : Ids, op : {"create", "bytes", "play", "pause", "seek", "unload",
                                 "destroy"}, source : Loads]
EngineMessages == [id : Ids, code : Events, source : Loads]

NoneFor(queue, id) == \A i \in DOMAIN queue : queue[i].id # id

\* Players are numbered, and only one is registered; nothing is heard of the next ones.
Numbered ==
  /\ m_id <= nextID /\ nextID <= loaded
  /\ playerRegistry = (IF m_id = 0 THEN {} ELSE {m_id})
  /\ \A id \in Ids : id > nextID =>
       mediaPlayers[id].at = "gone" /\ NoneFor(toPage, id) /\ NoneFor(toEngine, id)

\* "create" is the first message of a player.
CreatedFirst ==
  \A i, j \in DOMAIN toPage :
    toPage[i].op = "create" =>
      /\ mediaPlayers[toPage[i].id].at = "gone"
      /\ toPage[j].id = toPage[i].id => i <= j

DestroyIsLast(queue, id) ==
  \E i \in DOMAIN queue :
    /\ queue[i].id = id /\ queue[i].op = "destroy"
    /\ \A j \in DOMAIN queue : i < j => queue[j].id # id

\* Of a player that was replaced or went away, "destroy" is the last message, and after
\* it nothing is left.
DestroyedLast ==
  \A id \in Ids : id # m_id =>
    (mediaPlayers[id].at = "gone" /\ NoneFor(toPage, id)) \/ DestroyIsLast(toPage, id)

WithUrl == {id \in Ids : mediaPlayers[id].url}

GoneIsEmpty ==
  \A id \in Ids : mediaPlayers[id].at = "gone" =>
    /\ mediaPlayers[id].source = 0 /\ ~mediaPlayers[id].url
    /\ ~mediaPlayers[id].playing /\ ~mediaPlayers[id].seeking

\* While the current source is fetched, the page does not have it.
Fetching ==
  /\ m_httpFailed => loaded \in failed
  /\ m_resource # "none" =>
       m_id # 0 /\ m_networkState = "Loading" /\ mediaPlayers[m_id].source # loaded

\* What is under way to the current player's element.
OnTheirWay ==
  \A i, j \in DOMAIN toPage :
    toPage[i].id = m_id =>
      /\ toPage[i].op \notin {"unload", "destroy"}
      /\ toPage[i].op \in {"play", "pause", "seek"} => m_readyState # HaveNothing
      /\ toPage[i].op = "bytes" =>
           /\ toPage[i].source = loaded /\ mediaPlayers[m_id].source # loaded
           /\ m_networkState = "Loading" /\ m_resource = "none"
           /\ toPage[j].id = m_id /\ toPage[j].op = "bytes" => i = j

\* The element does not have the source yet, or has an earlier one.
NotThereYet ==
  mediaPlayers[m_id].source # loaded =>
    /\ mediaPlayers[m_id].at # "loading"
    /\ ~mediaPlayers[m_id].playing /\ ~mediaPlayers[m_id].seeking
    /\ m_readyState = HaveNothing /\ NoneFor(toEngine, m_id)

OnlyAnError(queue, id) ==
  \E i \in DOMAIN queue :
    /\ queue[i].id = id /\ queue[i].code = "error"
    /\ \A j \in DOMAIN queue : queue[j].id = id => i = j

\* The element has the source and nothing of it; or it failed to decode it, and
\* the error is under way or has come.
WithoutData ==
  mediaPlayers[m_id].source = loaded /\ mediaPlayers[m_id].level = HaveNothing =>
    /\ ~mediaPlayers[m_id].playing /\ ~mediaPlayers[m_id].seeking
    /\ m_readyState = HaveNothing
    /\ \/ /\ mediaPlayers[m_id].at = "loading" /\ m_networkState = "Loading"
          /\ NoneFor(toEngine, m_id)
       \/ /\ mediaPlayers[m_id].at = "failed" /\ m_networkState \in Failures
          /\ NoneFor(toEngine, m_id)
       \/ /\ mediaPlayers[m_id].at = "failed" /\ m_networkState = "Loading"
          /\ OnlyAnError(toEngine, m_id)

LevelOf(code) ==
  IF code = "loadedmetadata" THEN HaveMetadata
  ELSE IF code = "canplay" THEN HaveFutureData
  ELSE IF code = "canplaythrough" THEN HaveEnoughData
  ELSE HaveNothing

MetadataFirst(queue, id) ==
  \E i \in DOMAIN queue :
    /\ queue[i].id = id /\ queue[i].code = "loadedmetadata"
    /\ \A j \in DOMAIN queue : queue[j].id = id => i <= j

\* The player is told of data that the element has, of its metadata first.
WithData ==
  mediaPlayers[m_id].source = loaded /\ mediaPlayers[m_id].level # HaveNothing =>
    /\ m_readyState <= mediaPlayers[m_id].level
    /\ \A i \in DOMAIN toEngine :
         toEngine[i].id = m_id => LevelOf(toEngine[i].code) <= mediaPlayers[m_id].level
    /\ m_readyState = HaveNothing =>
         m_networkState = "Loading" /\ MetadataFirst(toEngine, m_id)

ErrorsAreTrue ==
  /\ \A i \in DOMAIN toEngine :
       toEngine[i].id = m_id /\ toEngine[i].code = "error" => loaded \in failed
  /\ m_networkState \in Failures => loaded \in failed

Current ==
  m_id # 0 =>
    /\ loaded >= 1 /\ mediaPlayers[m_id].source <= loaded
    /\ OnTheirWay /\ NotThereYet /\ WithoutData /\ WithData /\ ErrorsAreTrue
    /\ m_readyState = HaveNothing => m_paused

Lives == Numbered /\ CreatedFirst /\ DestroyedLast /\ GoneIsEmpty
UrlsCounted == urls = Cardinality(WithUrl)

MInv == MediaTypeOK /\ Lives /\ UrlsCounted /\ Fetching /\ Current

-----------------------------------------------------------------------------

LEMMA IdsFinite == IsFiniteSet(Ids) /\ IsFiniteSet({}) /\ Ids \subseteq Nat \ {0}
  BY FS_Interval, FS_EmptySet, MediaAssumption DEF Ids

LEMMA ElementKinds ==
  /\ HaveNothing = 0 /\ HaveMetadata = 1 /\ HaveFutureData = 3 /\ HaveEnoughData = 4
  /\ Gone \in Elements /\ Gone.at = "gone" /\ Gone.source = 0 /\ Gone.level = 0
  /\ ~Gone.playing /\ ~Gone.seeking /\ ~Gone.url
<1>1. 0 \in Loads
  BY MediaAssumption DEF Loads
<1> QED
  BY <1>1 DEF HaveNothing, HaveMetadata, HaveFutureData, HaveEnoughData, Gone, Elements

LEMMA MInitMInv == MediaInit => MInv
<1> SUFFICES ASSUME MediaInit PROVE MInv
  OBVIOUS
<1>1. /\ m_id = 0 /\ playerRegistry = {} /\ nextID = 0
      /\ m_networkState = "Empty" /\ m_readyState = HaveNothing
      /\ m_paused = TRUE /\ m_ended = FALSE /\ m_seeking = FALSE
      /\ m_httpFailed = FALSE /\ m_resource = "none"
      /\ toPage = <<>> /\ toEngine = <<>>
      /\ loaded = 0 /\ failed = {} /\ urls = 0 /\ mediaCalls = 0
      /\ DOMAIN toPage = {} /\ DOMAIN toEngine = {}
  BY DEF MediaInit
<1>2. mediaPlayers \in [Ids -> Elements] /\ \A id \in Ids : mediaPlayers[id] = Gone
  BY ElementKinds DEF MediaInit
<1>3. WithUrl = {}
  BY <1>2, ElementKinds DEF WithUrl
<1>4. UrlsCounted
  BY <1>1, <1>3, FS_EmptySet DEF UrlsCounted
<1>5. MediaTypeOK
  <2>1. 0 \in 0..MaxPlayers /\ 0 \in Loads /\ 0 \in 0..MaxSources /\ 0 \in 0..MaxMediaCalls
    BY MediaAssumption DEF Loads
  <2> QED
    BY <1>1, <1>2, <2>1, EmptySeq DEF MediaTypeOK
<1>6. Lives
  BY <1>1, <1>2, ElementKinds DEF Lives, Numbered, CreatedFirst, DestroyedLast, GoneIsEmpty, NoneFor
<1> QED
  BY <1>1, <1>4, <1>5, <1>6 DEF MInv, Fetching, Current

\* The number of URLs follows the one element that changes.
LEMMA OneUrlMoreOrLess ==
  ASSUME NEW old \in [Ids -> Elements], NEW id \in Ids, NEW e \in Elements
  PROVE  /\ Cardinality({x \in Ids : old[x].url}) \in Nat
         /\ Cardinality({x \in Ids : [old EXCEPT ![id] = e][x].url})
              = Cardinality({x \in Ids : old[x].url}) - (IF old[id].url THEN 1 ELSE 0)
                  + (IF e.url THEN 1 ELSE 0)
<1> DEFINE A == {x \in Ids : old[x].url}
           B == {x \in Ids : [old EXCEPT ![id] = e][x].url}
           C == A \ {id}
<1>1. old[id].url \in BOOLEAN /\ e.url \in BOOLEAN
  BY DEF Elements
<1>2. IsFiniteSet(A) /\ IsFiniteSet(C) /\ Cardinality(A) \in Nat /\ Cardinality(C) \in Nat
  BY IdsFinite, FS_Subset, FS_CardinalityType
<1>3. Cardinality(A) = IF old[id].url THEN Cardinality(C) + 1 ELSE Cardinality(C)
  <2>1. CASE old[id].url
    <3>1. A = C \cup {id} /\ id \notin C
      BY <2>1
    <3> HIDE DEF A, C
    <3> QED
      BY <1>2, <2>1, <3>1, FS_AddElement
  <2>2. CASE ~old[id].url
    <3>1. A = C
      BY <2>2
    <3> QED
      BY <2>2, <3>1
  <2> QED
    BY <1>1, <2>1, <2>2
<1>4. Cardinality(B) = IF e.url THEN Cardinality(C) + 1 ELSE Cardinality(C)
  <2>1. CASE e.url
    <3>1. B = C \cup {id} /\ id \notin C
      BY <2>1
    <3> HIDE DEF B, C
    <3> QED
      BY <1>2, <2>1, <3>1, FS_AddElement
  <2>2. CASE ~e.url
    <3>1. B = C
      BY <2>2
    <3> QED
      BY <2>2, <3>1
  <2> QED
    BY <1>1, <2>1, <2>2
<1> HIDE DEF A, B, C
<1>5. Cardinality(B) = Cardinality(A) - (IF old[id].url THEN 1 ELSE 0) + (IF e.url THEN 1 ELSE 0)
  BY <1>1, <1>2, <1>3, <1>4
<1> QED
  BY <1>2, <1>5 DEF A, B

\* What a queue holds without its first message.
LEMMA TailShift ==
  ASSUME NEW S, NEW s \in Seq(S), s # <<>>
  PROVE  /\ Tail(s) \in Seq(S) /\ 1 \in DOMAIN s /\ s[1] = Head(s) /\ Head(s) \in S
         /\ \A i \in DOMAIN Tail(s) :
              i \in Nat /\ i >= 1 /\ i + 1 \in DOMAIN s /\ Tail(s)[i] = s[i + 1]
         /\ \A i \in DOMAIN s :
              i \in Nat /\ (i = 1 \/ (i - 1 \in DOMAIN Tail(s) /\ Tail(s)[i - 1] = s[i]))
<1> DEFINE t == Tail(s)
<1>1. /\ Len(s) \in Nat \ {0} /\ DOMAIN s = 1..Len(s) /\ t \in Seq(S)
      /\ DOMAIN t = 1..(Len(s) - 1) /\ \A i \in 1..(Len(s) - 1) : t[i] = s[i + 1]
      /\ 1 \in DOMAIN s /\ Head(s) = s[1] /\ Head(s) \in S
  BY OneLess
<1> HIDE DEF t
<1>2. ASSUME NEW i \in DOMAIN t
      PROVE  i \in Nat /\ i >= 1 /\ i + 1 \in DOMAIN s /\ t[i] = s[i + 1]
  BY <1>1, <1>2
<1>3. ASSUME NEW i \in DOMAIN s
      PROVE  i \in Nat /\ (i = 1 \/ (i - 1 \in DOMAIN t /\ t[i - 1] = s[i]))
  BY <1>1, <1>3
<1>4. t \in Seq(S) /\ 1 \in DOMAIN s /\ s[1] = Head(s) /\ Head(s) \in S
  BY <1>1
<1> QED
  BY <1>2, <1>3, <1>4 DEF t


\* A queue has grown by messages about one player.
Extends(new, old, id) ==
  /\ \A i \in DOMAIN old : i \in DOMAIN new /\ new[i] = old[i]
  /\ \A j \in DOMAIN new : j \in DOMAIN old \/ new[j].id = id
  /\ \A i \in DOMAIN old, j \in DOMAIN new : j \in DOMAIN old \/ i <= j

LEMMA ExtendsItself == ASSUME NEW q, NEW id PROVE Extends(q, q, id)
  BY DEF Extends

LEMMA ExtendsByOne ==
  ASSUME NEW S, NEW q \in Seq(S), NEW m \in S
  PROVE  /\ Append(q, m) \in Seq(S) /\ Extends(Append(q, m), q, m.id)
         /\ \A j \in DOMAIN Append(q, m) : j \in DOMAIN q \/ Append(q, m)[j] = m
         /\ \E j \in DOMAIN Append(q, m) :
              /\ j \notin DOMAIN q /\ Append(q, m)[j] = m
              /\ \A i \in DOMAIN Append(q, m) : i <= j
              /\ \A i \in DOMAIN Append(q, m) : i \in DOMAIN q \/ i = j
<1> DEFINE t == Append(q, m)
<1>1. /\ Len(q) \in Nat /\ DOMAIN q = 1..Len(q) /\ t \in Seq(S)
      /\ DOMAIN t = 1..(Len(q) + 1) /\ t[Len(q) + 1] = m
      /\ \A i \in 1..Len(q) : t[i] = q[i]
  BY OneMore
<1> HIDE DEF t
<1>2. \A j \in DOMAIN t : j \in DOMAIN q \/ j = Len(q) + 1
  BY <1>1
<1>3. \A j \in DOMAIN t : j \in DOMAIN q \/ t[j] = m
  BY <1>1, <1>2
<1>4. \A i \in DOMAIN q : i \in DOMAIN t /\ t[i] = q[i]
  BY <1>1
<1>5. /\ Len(q) + 1 \in DOMAIN t /\ Len(q) + 1 \notin DOMAIN q
      /\ \A i \in DOMAIN t : i <= Len(q) + 1
  BY <1>1
<1>6. \A i \in DOMAIN q, j \in DOMAIN t : j \in DOMAIN q \/ i <= j
  BY <1>1
<1>7. Extends(t, q, m.id)
  BY <1>3, <1>4, <1>6 DEF Extends
<1>8. \E j \in DOMAIN t : /\ j \notin DOMAIN q /\ t[j] = m /\ \A i \in DOMAIN t : i <= j
                          /\ \A i \in DOMAIN t : i \in DOMAIN q \/ i = j
  BY <1>1, <1>2, <1>5
<1> QED
  BY <1>1, <1>3, <1>7, <1>8 DEF t

LEMMA ExtendsTwice ==
  ASSUME NEW q, NEW r, NEW s, NEW id, Extends(r, q, id), Extends(s, r, id)
  PROVE  Extends(s, q, id)
<1>1. \A i \in DOMAIN q : i \in DOMAIN s /\ s[i] = q[i]
  BY DEF Extends
<1>2. \A j \in DOMAIN s : j \in DOMAIN q \/ s[j].id = id
  BY DEF Extends
<1>3. \A i \in DOMAIN q, j \in DOMAIN s : j \in DOMAIN q \/ i <= j
  BY DEF Extends
<1> QED
  BY <1>1, <1>2, <1>3 DEF Extends

\* What an element says is one message, or two.
LEMMA SaysOne ==
  ASSUME MediaTypeOK, NEW id \in Ids, NEW code \in Events,
         toEngine' = toEngine \o [i \in DOMAIN <<code>> |-> Event(id, <<code>>[i])]
  PROVE  Event(id, code) \in EngineMessages /\ toEngine' = Append(toEngine, Event(id, code))
<1>1. Event(id, code) \in EngineMessages /\ toEngine \in Seq(EngineMessages)
  BY DEF Event, EngineMessages, MediaTypeOK, Elements
<1> DEFINE m == Event(id, code)
<1>2. [i \in DOMAIN <<code>> |-> Event(id, <<code>>[i])] = <<m>>
  OBVIOUS
<1> HIDE DEF m
<1>3. toEngine \o <<m>> = Append(toEngine, m)
  BY <1>1 DEF m
<1> QED
  BY <1>1, <1>2, <1>3 DEF m

LEMMA SaysTwo ==
  ASSUME MediaTypeOK, NEW id \in Ids, NEW a \in Events, NEW b \in Events,
         toEngine' = toEngine \o [i \in DOMAIN <<a, b>> |-> Event(id, <<a, b>>[i])]
  PROVE  /\ Event(id, a) \in EngineMessages /\ Event(id, b) \in EngineMessages
         /\ toEngine' = Append(Append(toEngine, Event(id, a)), Event(id, b))
<1>1. /\ Event(id, a) \in EngineMessages /\ Event(id, b) \in EngineMessages
      /\ toEngine \in Seq(EngineMessages)
  BY DEF Event, EngineMessages, MediaTypeOK, Elements
<1> DEFINE m == Event(id, a)
           n == Event(id, b)
<1>2. [i \in DOMAIN <<a, b>> |-> Event(id, <<a, b>>[i])] = <<m, n>>
  OBVIOUS
<1>3. m \in EngineMessages /\ n \in EngineMessages
  BY <1>1
<1> HIDE DEF m, n
<1>4. toEngine \o <<m, n>> = Append(Append(toEngine, m), n)
  BY <1>1, <1>3
<1> QED
  BY <1>1, <1>2, <1>4 DEF m, n

LEMMA MediaTypes ==
  ASSUME MediaTypeOK
  PROVE  /\ toPage \in Seq(PageMessages) /\ toEngine \in Seq(EngineMessages)
         /\ mediaPlayers \in [Ids -> Elements]
         /\ m_id \in Nat /\ nextID \in Nat /\ loaded \in Nat /\ m_id \in Ids \cup {0}
         /\ m_readyState \in {0, 1, 3, 4} /\ Ids \subseteq Nat
         /\ \A i \in DOMAIN toPage : i \in Nat /\ toPage[i] \in PageMessages
         /\ \A i \in DOMAIN toEngine : i \in Nat /\ toEngine[i] \in EngineMessages
<1>1. toPage \in Seq(PageMessages) /\ toEngine \in Seq(EngineMessages)
  BY DEF MediaTypeOK, PageMessages, EngineMessages
<1>2. /\ DOMAIN toPage = 1..Len(toPage) /\ Len(toPage) \in Nat
      /\ DOMAIN toEngine = 1..Len(toEngine) /\ Len(toEngine) \in Nat
  BY <1>1, LenProperties
<1>3. /\ \A i \in DOMAIN toPage : i \in Nat /\ toPage[i] \in PageMessages
      /\ \A i \in DOMAIN toEngine : i \in Nat /\ toEngine[i] \in EngineMessages
  BY <1>1, <1>2
<1>4. /\ mediaPlayers \in [Ids -> Elements]
      /\ m_id \in Nat /\ nextID \in Nat /\ loaded \in Nat /\ m_id \in Ids \cup {0}
      /\ Ids \subseteq Nat
  BY MediaAssumption DEF MediaTypeOK, Ids, Loads
<1>5. m_readyState \in {0, 1, 3, 4}
  BY ElementKinds DEF MediaTypeOK
<1> QED
  BY <1>1, <1>3, <1>4, <1>5

\* The page takes a message or an element says something: the lives of the players.
LEMMA PageSideLives ==
  ASSUME MInv, NEW id \in Ids, NEW e \in Elements,
         mediaPlayers' = [mediaPlayers EXCEPT ![id] = e],
         UNCHANGED <<m_id, playerRegistry, nextID, loaded>>,
         Extends(toEngine', toEngine, id),
         \/ toPage' = toPage /\ mediaPlayers[id].at # "gone" /\ e.at # "gone"
         \/ /\ toPage # <<>> /\ toPage' = Tail(toPage) /\ Head(toPage).id = id
            /\ Head(toPage).op = "destroy" => e.at = "gone",
         e.at = "gone" => e.source = 0 /\ ~e.url /\ ~e.playing /\ ~e.seeking
  PROVE  Lives'
<1> USE DEF NoneFor
<1>1. MediaTypeOK /\ Lives
  BY DEF MInv
<1>2. /\ toPage \in Seq(PageMessages) /\ mediaPlayers \in [Ids -> Elements] /\ Ids \subseteq Nat
      /\ nextID \in Nat
      /\ \A i \in DOMAIN toPage : i \in Nat /\ toPage[i] \in PageMessages
      /\ mediaPlayers'[id] = e
      /\ \A x \in Ids : x # id => mediaPlayers'[x] = mediaPlayers[x]
  BY <1>1, MediaTypes
<1>3. CASE toPage' = toPage /\ mediaPlayers[id].at # "gone" /\ e.at # "gone"
  <2>1. id <= nextID
    BY <1>1, <1>2, <1>3 DEF Lives, Numbered
  <2>2. Numbered'
    BY <1>1, <1>2, <1>3, <2>1 DEF Lives, Numbered, Extends
  <2>3. CreatedFirst'
    BY <1>1, <1>2, <1>3 DEF Lives, CreatedFirst, PageMessages
  <2>4. DestroyedLast'
    BY <1>1, <1>2, <1>3 DEF Lives, DestroyedLast
  <2>5. GoneIsEmpty'
    BY <1>1, <1>2, <1>3 DEF Lives, GoneIsEmpty
  <2> QED
    BY <2>2, <2>3, <2>4, <2>5 DEF Lives
<1>4. CASE /\ toPage # <<>> /\ toPage' = Tail(toPage) /\ Head(toPage).id = id
           /\ Head(toPage).op = "destroy" => e.at = "gone"
  <2>1. /\ 1 \in DOMAIN toPage /\ toPage[1] = Head(toPage)
        /\ \A i \in DOMAIN toPage' :
             i \in Nat /\ i >= 1 /\ i + 1 \in DOMAIN toPage /\ toPage'[i] = toPage[i + 1]
        /\ \A i \in DOMAIN toPage :
             i \in Nat /\ (i = 1 \/ (i - 1 \in DOMAIN toPage' /\ toPage'[i - 1] = toPage[i]))
    BY <1>2, <1>4, TailShift
  <2>2. id <= nextID
    <3>1. id > nextID => NoneFor(toPage, id)
      BY <1>1 DEF Lives, Numbered
    <3>2. 1 \in DOMAIN toPage /\ toPage[1].id = id
      BY <1>4, <2>1
    <3>3. ~(id > nextID)
      BY <3>1, <3>2
    <3>4. id \in Nat /\ nextID \in Nat
      BY <1>2
    <3> QED
      BY <3>3, <3>4
  <2>3. Numbered'
    <3>1. ASSUME NEW x \in Ids, x > nextID
          PROVE  mediaPlayers'[x].at = "gone" /\ NoneFor(toPage', x) /\ NoneFor(toEngine', x)
      <4>1. x # id /\ mediaPlayers[x].at = "gone" /\ NoneFor(toPage, x) /\ NoneFor(toEngine, x)
        BY <1>1, <1>2, <2>2, <3>1 DEF Lives, Numbered
      <4>2. NoneFor(toPage', x)
        BY <2>1, <4>1
      <4>3. NoneFor(toEngine', x)
        BY <4>1 DEF Extends
      <4> QED
        BY <1>2, <4>1, <4>2, <4>3
    <3> HIDE DEF NoneFor
    <3> QED
      BY <1>1, <3>1 DEF Lives, Numbered
  <2>4. CreatedFirst'
    <3>1. SUFFICES ASSUME NEW i \in DOMAIN toPage', NEW j \in DOMAIN toPage',
                          toPage'[i].op = "create"
                   PROVE  /\ mediaPlayers'[toPage'[i].id].at = "gone"
                          /\ toPage'[j].id = toPage'[i].id => i <= j
      BY DEF CreatedFirst
    <3>2. /\ i \in Nat /\ j \in Nat /\ i >= 1 /\ i + 1 \in DOMAIN toPage /\ j + 1 \in DOMAIN toPage
          /\ toPage[i + 1] = toPage'[i] /\ toPage[j + 1] = toPage'[j] /\ toPage'[i].id \in Ids
      BY <1>2, <2>1 DEF PageMessages
    <3>3. /\ mediaPlayers[toPage'[i].id].at = "gone"
          /\ toPage'[j].id = toPage'[i].id => i + 1 <= j + 1
          /\ id = toPage'[i].id => i + 1 <= 1
      BY <1>1, <1>4, <2>1, <3>1, <3>2 DEF Lives, CreatedFirst
    <3> QED
      BY <1>2, <3>2, <3>3
  <2>5. DestroyedLast'
    <3>1. SUFFICES ASSUME NEW x \in Ids, x # m_id
                   PROVE  \/ mediaPlayers'[x].at = "gone" /\ NoneFor(toPage', x)
                          \/ DestroyIsLast(toPage', x)
      BY DEF DestroyedLast
    <3>2. CASE mediaPlayers[x].at = "gone" /\ NoneFor(toPage, x)
      <4>1. x # id
        BY <1>4, <2>1, <3>2
      <4> QED
        BY <1>2, <2>1, <3>2, <4>1
    <3>3. CASE DestroyIsLast(toPage, x)
      <4>1. PICK i \in DOMAIN toPage :
              /\ toPage[i].id = x /\ toPage[i].op = "destroy"
              /\ \A j \in DOMAIN toPage : i < j => toPage[j].id # x
        BY <3>3 DEF DestroyIsLast
      <4>2. CASE i = 1
        <5>1. x = id /\ mediaPlayers'[x].at = "gone"
          BY <1>2, <1>4, <2>1, <4>1, <4>2
        <5>2. NoneFor(toPage', x)
          BY <2>1, <4>1, <4>2
        <5> QED
          BY <5>1, <5>2
      <4>3. CASE i # 1
        <5>1. i - 1 \in DOMAIN toPage' /\ toPage'[i - 1] = toPage[i]
          BY <2>1, <4>1, <4>3
        <5>2. \A j \in DOMAIN toPage' : i - 1 < j => toPage'[j].id # x
          BY <2>1, <4>1
        <5> QED
          BY <4>1, <5>1, <5>2 DEF DestroyIsLast
      <4> QED
        BY <4>2, <4>3
    <3> QED
      BY <1>1, <3>1, <3>2, <3>3 DEF Lives, DestroyedLast
  <2>6. GoneIsEmpty'
    BY <1>1, <1>2 DEF Lives, GoneIsEmpty
  <2> QED
    BY <2>3, <2>4, <2>5, <2>6 DEF Lives
<1> QED
  BY <1>3, <1>4


LEMMA UrlsBounded ==
  ASSUME NEW f \in [Ids -> Elements], NEW n \in Nat, n <= MaxSources,
         \A id \in Ids : f[id].url => id <= n
  PROVE  Cardinality({id \in Ids : f[id].url}) \in 0..MaxSources
<1> DEFINE A == {id \in Ids : f[id].url}
<1>1. A \subseteq 1..n
  BY MediaAssumption DEF Ids
<1>2. IsFiniteSet(1..n) /\ Cardinality(1..n) = n
  <2>1. n - 1 + 1 = n /\ (n = 0 => 1..n = {}) /\ (n # 0 => 1 <= n)
    OBVIOUS
  <2> QED
    BY <2>1, FS_Interval, FS_EmptySet
<1> DEFINE I == 1..n
<1>3. IsFiniteSet(I) /\ Cardinality(I) = n /\ A \in SUBSET I
  BY <1>1, <1>2
<1> HIDE DEF A, I
<1>4. IsFiniteSet(A) /\ Cardinality(A) <= Cardinality(I)
  BY <1>3, FS_Subset
<1>5. Cardinality(A) \in Nat /\ Cardinality(A) <= n
  BY <1>3, <1>4, FS_CardinalityType
<1>6. Cardinality(A) \in 0..MaxSources
  BY <1>5, MediaAssumption
<1> QED
  BY <1>6 DEF A

LEMMA OnTheirWayStays ==
  ASSUME MediaTypeOK, OnTheirWay, toPage' = toPage \/ (toPage # <<>> /\ toPage' = Tail(toPage)),
         UNCHANGED <<playerVars, loaded>>,
         mediaPlayers'[m_id].source = mediaPlayers[m_id].source
  PROVE  OnTheirWay'
<1>1. UNCHANGED <<m_id, m_readyState, m_networkState, m_resource, loaded>>
  BY DEF playerVars
<1>2. CASE toPage' = toPage
  BY <1>1, <1>2 DEF OnTheirWay
<1>3. CASE toPage # <<>> /\ toPage' = Tail(toPage)
  <2>1. \A i \in DOMAIN toPage' :
          i \in Nat /\ i + 1 \in DOMAIN toPage /\ toPage'[i] = toPage[i + 1]
    BY <1>3, MediaTypes, TailShift
  <2>2. ASSUME NEW i \in DOMAIN toPage', NEW j \in DOMAIN toPage', toPage'[i].id = m_id
        PROVE  /\ toPage'[i].op \notin {"unload", "destroy"}
               /\ toPage'[i].op \in {"play", "pause", "seek"} => m_readyState # HaveNothing
               /\ toPage'[i].op = "bytes" =>
                    /\ toPage'[i].source = loaded /\ mediaPlayers[m_id].source # loaded
                    /\ m_networkState = "Loading" /\ m_resource = "none"
                    /\ toPage'[j].id = m_id /\ toPage'[j].op = "bytes" => i = j
    <3>1. /\ i \in Nat /\ j \in Nat /\ i + 1 \in DOMAIN toPage /\ j + 1 \in DOMAIN toPage
          /\ toPage'[i] = toPage[i + 1] /\ toPage'[j] = toPage[j + 1]
      BY <2>1, <2>2
    <3>2. i + 1 = j + 1 => i = j
      BY <3>1
    <3> QED
      BY <2>2, <3>1, <3>2 DEF OnTheirWay
  <2> QED
    BY <1>1, <2>2 DEF OnTheirWay
<1> QED
  BY <1>2, <1>3

\* What is said of other players changes nothing for the current one.
LEMMA OthersSay ==
  ASSUME NEW new, NEW old, NEW id, NEW other, id # other, Extends(new, old, other)
  PROVE  /\ NoneFor(old, id) => NoneFor(new, id)
         /\ OnlyAnError(old, id) => OnlyAnError(new, id)
         /\ MetadataFirst(old, id) => MetadataFirst(new, id)
         /\ \A i \in DOMAIN new : new[i].id = id => i \in DOMAIN old /\ new[i] = old[i]
<1>1. \A i \in DOMAIN new : new[i].id = id => i \in DOMAIN old /\ new[i] = old[i]
  BY DEF Extends
<1>2. \A i \in DOMAIN old : i \in DOMAIN new /\ new[i] = old[i]
  BY DEF Extends
<1>3. NoneFor(old, id) => NoneFor(new, id)
  BY <1>1 DEF NoneFor
<1>4. OnlyAnError(old, id) => OnlyAnError(new, id)
  BY <1>1, <1>2 DEF OnlyAnError
<1>5. MetadataFirst(old, id) => MetadataFirst(new, id)
  BY <1>1, <1>2 DEF MetadataFirst
<1> QED
  BY <1>1, <1>3, <1>4, <1>5

LEMMA OthersKeepCurrent ==
  ASSUME MInv, NEW id \in Ids, id # m_id, NEW e \in Elements,
         mediaPlayers' = [mediaPlayers EXCEPT ![id] = e],
         toPage' = toPage \/ (toPage # <<>> /\ toPage' = Tail(toPage)),
         UNCHANGED <<playerVars, loaded>>,
         Extends(toEngine', toEngine, id), failed \subseteq failed'
  PROVE  Fetching' /\ Current'
<1>1. MediaTypeOK /\ Fetching /\ Current
  BY DEF MInv
<1>2. /\ UNCHANGED <<m_id, m_readyState, m_networkState, m_resource, m_paused, m_httpFailed, loaded>>
      /\ m_id # 0 => mediaPlayers'[m_id] = mediaPlayers[m_id]
  BY <1>1, MediaTypes DEF playerVars
<1>3. Fetching'
  BY <1>1, <1>2 DEF Fetching
<1>4. ASSUME m_id # 0
      PROVE  /\ loaded >= 1 /\ mediaPlayers'[m_id].source <= loaded
             /\ OnTheirWay' /\ NotThereYet' /\ WithoutData' /\ WithData' /\ ErrorsAreTrue'
             /\ m_readyState = HaveNothing => m_paused
  <2>1. /\ loaded >= 1 /\ mediaPlayers[m_id].source <= loaded
        /\ OnTheirWay /\ NotThereYet /\ WithoutData /\ WithData /\ ErrorsAreTrue
        /\ m_readyState = HaveNothing => m_paused
    BY <1>1, <1>4 DEF Current
  <2>2. /\ NoneFor(toEngine, m_id) => NoneFor(toEngine', m_id)
        /\ OnlyAnError(toEngine, m_id) => OnlyAnError(toEngine', m_id)
        /\ MetadataFirst(toEngine, m_id) => MetadataFirst(toEngine', m_id)
        /\ \A i \in DOMAIN toEngine' :
             toEngine'[i].id = m_id => i \in DOMAIN toEngine /\ toEngine'[i] = toEngine[i]
    BY OthersSay
  <2>3. OnTheirWay'
    BY <1>1, <1>2, <1>4, <2>1, OnTheirWayStays
  <2>4. NotThereYet'
    BY <1>2, <1>4, <2>1, <2>2 DEF NotThereYet
  <2>5. WithoutData'
    BY <1>2, <1>4, <2>1, <2>2 DEF WithoutData
  <2>6. WithData'
    BY <1>2, <1>4, <2>1, <2>2 DEF WithData
  <2>7. ErrorsAreTrue'
    BY <1>2, <1>4, <2>1, <2>2 DEF ErrorsAreTrue
  <2> QED
    BY <1>2, <1>4, <2>1, <2>3, <2>4, <2>5, <2>6, <2>7
<1>5. m_id' = m_id
  BY <1>2
<1>6. Current'
  BY <1>2, <1>4 DEF Current
<1> QED
  BY <1>3, <1>6

\* Everything else about a step of the page.
LEMMA PageSide ==
  ASSUME MInv, NEW id \in Ids, NEW e \in Elements,
         mediaPlayers' = [mediaPlayers EXCEPT ![id] = e],
         UNCHANGED <<playerVars, nextID, loaded, mediaCalls>>,
         toEngine' \in Seq(EngineMessages), Extends(toEngine', toEngine, id),
         \/ toPage' = toPage /\ mediaPlayers[id].at # "gone" /\ e.at # "gone"
         \/ /\ toPage # <<>> /\ toPage' = Tail(toPage) /\ Head(toPage).id = id
            /\ Head(toPage).op = "destroy" => e.at = "gone",
         e.at = "gone" => e.source = 0 /\ ~e.url /\ ~e.playing /\ ~e.seeking,
         urls' = urls - (IF mediaPlayers[id].url THEN 1 ELSE 0) + (IF e.url THEN 1 ELSE 0),
         failed \subseteq failed', failed' \subseteq Loads,
         id = m_id => Fetching' /\ Current'
  PROVE  MInv'
<1>1. MediaTypeOK /\ Lives /\ UrlsCounted
  BY DEF MInv
<1>2. UNCHANGED <<m_id, playerRegistry, m_networkState, m_readyState, m_paused, m_ended, m_seeking,
                  m_httpFailed, m_resource>>
  BY DEF playerVars
<1>3. Lives'
  BY <1>2, PageSideLives
<1>4. Fetching' /\ Current'
  BY OthersKeepCurrent
<1>5. mediaPlayers \in [Ids -> Elements] /\ toPage \in Seq(PageMessages)
  BY <1>1, MediaTypes
<1>6. /\ Cardinality(WithUrl) \in Nat
      /\ Cardinality(WithUrl') = Cardinality(WithUrl) - (IF mediaPlayers[id].url THEN 1 ELSE 0)
                                   + (IF e.url THEN 1 ELSE 0)
  BY <1>5, OneUrlMoreOrLess, SMTT(30) DEF WithUrl
<1>7. urls' = Cardinality(WithUrl')
  BY <1>1, <1>6 DEF UrlsCounted
<1>8. mediaPlayers' \in [Ids -> Elements]
  BY <1>5
<1>9. toPage' \in Seq(PageMessages)
  BY <1>5, TailShift
<1>10. urls' \in 0..MaxSources
  <2>1. nextID \in Nat /\ nextID <= MaxSources
    <3>1. nextID \in Nat /\ loaded \in 0..MaxSources /\ nextID <= loaded /\ MaxSources \in Nat
      BY <1>1, MediaAssumption, MediaTypes DEF MediaTypeOK, Loads, Lives, Numbered
    <3> QED
      BY <3>1
  <2>2. \A x \in Ids : mediaPlayers'[x].url => x <= nextID
    <3>1. \A x \in Ids : x \in Nat /\ (x > nextID => ~mediaPlayers'[x].url)
      <4>1. nextID' = nextID
        OBVIOUS
      <4> QED
        BY <1>1, <1>3, <4>1, MediaTypes DEF Lives, Numbered, GoneIsEmpty
    <3> QED
      BY <2>1, <3>1
  <2> QED
    BY <1>7, <1>8, <2>1, <2>2, UrlsBounded DEF WithUrl
<1>11. MediaTypeOK'
  BY <1>1, <1>2, <1>8, <1>9, <1>10 DEF MediaTypeOK, PageMessages, EngineMessages
<1>12. UrlsCounted'
  BY <1>7 DEF UrlsCounted
<1> QED
  BY <1>3, <1>4, <1>11, <1>12 DEF MInv


\* A step of the current player's element.
CurrentSays(e) ==
  /\ mediaPlayers' = [mediaPlayers EXCEPT ![m_id] = e]
  /\ toPage' = toPage \/ (toPage # <<>> /\ toPage' = Tail(toPage))
  /\ UNCHANGED <<playerVars, loaded>>
  /\ failed \subseteq failed'
  /\ Extends(toEngine', toEngine, m_id)

LEMMA CurrentFacts ==
  ASSUME MInv, m_id \in Ids, NEW e \in Elements, CurrentSays(e)
  PROVE  /\ UNCHANGED <<m_id, m_readyState, m_networkState, m_resource, m_paused, m_httpFailed, loaded>>
         /\ mediaPlayers'[m_id] = e /\ mediaPlayers[m_id] \in Elements /\ m_id # 0
         /\ loaded \in Nat /\ loaded >= 1 /\ mediaPlayers[m_id].source <= loaded
         /\ OnTheirWay /\ NotThereYet /\ WithoutData /\ WithData /\ ErrorsAreTrue /\ Fetching
         /\ m_readyState = HaveNothing => m_paused
         /\ m_readyState \in {0, 1, 3, 4} /\ MediaTypeOK
         /\ \A i \in DOMAIN toEngine : i \in Nat /\ toEngine[i] \in EngineMessages
<1>1. MediaTypeOK /\ Fetching /\ Current
  BY DEF MInv
<1>2. m_id # 0
  BY IdsFinite
<1>3. /\ mediaPlayers \in [Ids -> Elements] /\ loaded \in Nat /\ m_readyState \in {0, 1, 3, 4}
      /\ \A i \in DOMAIN toEngine : i \in Nat /\ toEngine[i] \in EngineMessages
  BY <1>1, MediaTypes
<1>4. /\ UNCHANGED <<m_id, m_readyState, m_networkState, m_resource, m_paused, m_httpFailed, loaded>>
      /\ mediaPlayers' = [mediaPlayers EXCEPT ![m_id] = e]
  BY DEF CurrentSays, playerVars
<1>5. mediaPlayers'[m_id] = e /\ mediaPlayers[m_id] \in Elements
  BY <1>3, <1>4
<1>6. /\ loaded >= 1 /\ mediaPlayers[m_id].source <= loaded
      /\ OnTheirWay /\ NotThereYet /\ WithoutData /\ WithData /\ ErrorsAreTrue
      /\ m_readyState = HaveNothing => m_paused
  BY <1>1, <1>2 DEF Current
<1> QED
  BY <1>1, <1>2, <1>3, <1>4, <1>5, <1>6

\* One that has data goes on, or fails.
LEMMA CurrentWithData ==
  ASSUME MInv, m_id \in Ids, NEW e \in Elements, CurrentSays(e),
         mediaPlayers[m_id].source = loaded, mediaPlayers[m_id].level # HaveNothing,
         e.source = loaded, e.level >= mediaPlayers[m_id].level,
         \A j \in DOMAIN toEngine' :
           \/ j \in DOMAIN toEngine
           \/ /\ LevelOf(toEngine'[j].code) <= e.level
              /\ toEngine'[j].code = "error" => loaded \in failed'
  PROVE  Fetching' /\ Current'
<1> DEFINE old == mediaPlayers[m_id]
<1>1. /\ UNCHANGED <<m_id, m_readyState, m_networkState, m_resource, m_paused, m_httpFailed, loaded>>
      /\ mediaPlayers'[m_id] = e /\ old \in Elements /\ m_id # 0
      /\ loaded \in Nat /\ loaded >= 1 /\ old.source <= loaded
      /\ OnTheirWay /\ NotThereYet /\ WithoutData /\ WithData /\ ErrorsAreTrue /\ Fetching
      /\ m_readyState = HaveNothing => m_paused
      /\ m_readyState \in {0, 1, 3, 4} /\ MediaTypeOK
      /\ \A i \in DOMAIN toEngine : i \in Nat /\ toEngine[i] \in EngineMessages
  BY CurrentFacts
<1>2. mediaPlayers'[m_id] = e /\ mediaPlayers'[m_id'] = e /\ m_id' = m_id
  BY <1>1
<1>3. /\ e.level \in Nat /\ old.level \in Nat /\ e.level # HaveNothing
      /\ old.source = loaded /\ old.level # HaveNothing
  <2>1. e.level \in 0..4 /\ old.level \in 0..4
    BY <1>1 DEF Elements
  <2> QED
    BY <2>1, ElementKinds
<1>4. /\ toPage' = toPage \/ (toPage # <<>> /\ toPage' = Tail(toPage))
      /\ UNCHANGED <<playerVars, loaded>>
      /\ failed \subseteq failed' /\ Extends(toEngine', toEngine, m_id)
  BY DEF CurrentSays
<1>5. Fetching'
  BY <1>1, <1>3, <1>4 DEF Fetching
<1>6. OnTheirWay'
  BY <1>1, <1>2, <1>3, <1>4, OnTheirWayStays
<1>7. NotThereYet' /\ WithoutData'
  BY <1>1, <1>2, <1>3 DEF NotThereYet, WithoutData
<1>8. WithData'
  <2>1. /\ m_readyState <= old.level
        /\ \A i \in DOMAIN toEngine : toEngine[i].id = m_id => LevelOf(toEngine[i].code) <= old.level
        /\ m_readyState = HaveNothing =>
             m_networkState = "Loading" /\ MetadataFirst(toEngine, m_id)
    BY <1>1, <1>3 DEF WithData
  <2>2. \A i : LevelOf(i) \in Nat
    BY ElementKinds DEF LevelOf
  <2>3. ASSUME NEW j \in DOMAIN toEngine', toEngine'[j].id = m_id
        PROVE  LevelOf(toEngine'[j].code) <= e.level
    <3>1. CASE j \in DOMAIN toEngine
      <4>1. toEngine'[j] = toEngine[j]
        BY <1>4, <3>1 DEF Extends
      <4>2. LevelOf(toEngine'[j].code) <= old.level
        BY <2>1, <2>3, <3>1, <4>1
      <4>3. \A a, b, c \in Nat : a <= b /\ c >= b => a <= c
        OBVIOUS
      <4> QED
        BY <1>3, <2>2, <4>2, <4>3
    <3>2. CASE j \notin DOMAIN toEngine
      BY <2>3, <3>2
    <3> QED
      BY <3>1, <3>2
  <2>4. m_readyState <= e.level
    BY <1>1, <1>3, <2>1
  <2>5. MetadataFirst(toEngine, m_id) => MetadataFirst(toEngine', m_id)
    BY <1>1, <1>4 DEF MetadataFirst, Extends
  <2> QED
    BY <1>1, <1>2, <2>1, <2>3, <2>4, <2>5 DEF WithData
<1>9. ErrorsAreTrue'
  <2>1. ASSUME NEW j \in DOMAIN toEngine', toEngine'[j].id = m_id, toEngine'[j].code = "error"
        PROVE  loaded \in failed'
    BY <1>1, <1>4, <2>1 DEF ErrorsAreTrue, Extends
  <2> QED
    BY <1>1, <1>4, <2>1 DEF ErrorsAreTrue
<1>10. e.source <= loaded
  BY <1>1, <1>3
<1>11. Current'
  BY <1>1, <1>2, <1>6, <1>7, <1>8, <1>9, <1>10 DEF Current
<1> QED
  BY <1>5, <1>11

\* One that does not have the source yet takes another message.
LEMMA CurrentNotThereYet ==
  ASSUME MInv, m_id \in Ids, NEW e \in Elements, CurrentSays(e),
         mediaPlayers[m_id].source # loaded, e.source = mediaPlayers[m_id].source,
         e.at # "loading", ~e.playing, ~e.seeking, toEngine' = toEngine
  PROVE  Fetching' /\ Current'
<1> DEFINE old == mediaPlayers[m_id]
<1>1. /\ UNCHANGED <<m_id, m_readyState, m_networkState, m_resource, m_paused, m_httpFailed, loaded>>
      /\ mediaPlayers'[m_id] = e /\ m_id # 0
      /\ loaded >= 1 /\ old.source <= loaded
      /\ OnTheirWay /\ NotThereYet /\ ErrorsAreTrue /\ Fetching
      /\ m_readyState = HaveNothing => m_paused
      /\ MediaTypeOK
  BY CurrentFacts
<1>2. mediaPlayers'[m_id'] = e /\ m_id' = m_id
  BY <1>1
<1>3. /\ toPage' = toPage \/ (toPage # <<>> /\ toPage' = Tail(toPage))
      /\ UNCHANGED <<playerVars, loaded>> /\ failed \subseteq failed'
  BY DEF CurrentSays
<1>4. Fetching'
  BY <1>1, <1>2, <1>3 DEF Fetching
<1>5. OnTheirWay'
  BY <1>1, <1>2, <1>3, OnTheirWayStays
<1>6. NotThereYet' /\ WithoutData' /\ WithData'
  BY <1>1, <1>2 DEF NotThereYet, WithoutData, WithData
<1>7. ErrorsAreTrue'
  BY <1>1, <1>3 DEF ErrorsAreTrue
<1>8. Current'
  BY <1>1, <1>2, <1>5, <1>6, <1>7 DEF Current
<1> QED
  BY <1>4, <1>8

\* It gets the source.
LEMMA CurrentGetsSource ==
  ASSUME MInv, m_id \in Ids, NEW e \in Elements, CurrentSays(e),
         toPage # <<>>, Head(toPage).id = m_id, Head(toPage).op = "bytes", toPage' = Tail(toPage),
         e.at = "loading", e.source = Head(toPage).source, e.level = HaveNothing,
         ~e.playing, ~e.seeking, toEngine' = toEngine
  PROVE  Fetching' /\ Current'
<1>1. /\ UNCHANGED <<m_id, m_readyState, m_networkState, m_resource, m_paused, m_httpFailed, loaded>>
      /\ mediaPlayers'[m_id] = e /\ m_id # 0
      /\ loaded \in Nat /\ loaded >= 1
      /\ OnTheirWay /\ NotThereYet /\ ErrorsAreTrue /\ Fetching
      /\ m_readyState = HaveNothing => m_paused
      /\ MediaTypeOK
  BY CurrentFacts
<1>2. mediaPlayers'[m_id'] = e /\ m_id' = m_id
  BY <1>1
<1>3. UNCHANGED <<playerVars, loaded>> /\ failed \subseteq failed'
  BY DEF CurrentSays
<1>4. /\ 1 \in DOMAIN toPage /\ toPage[1] = Head(toPage)
      /\ \A i \in DOMAIN toPage' :
           i \in Nat /\ i >= 1 /\ i + 1 \in DOMAIN toPage /\ toPage'[i] = toPage[i + 1]
  BY <1>1, MediaTypes, TailShift
<1>5. /\ e.source = loaded /\ mediaPlayers[m_id].source # loaded
      /\ m_networkState = "Loading" /\ m_resource = "none"
  BY <1>1, <1>4 DEF OnTheirWay
<1>6. m_readyState = HaveNothing /\ NoneFor(toEngine, m_id)
  BY <1>1, <1>5 DEF NotThereYet
<1>7. Fetching'
  BY <1>1, <1>3, <1>5 DEF Fetching
<1>8. OnTheirWay'
  <2>1. ASSUME NEW i \in DOMAIN toPage', toPage'[i].id = m_id
        PROVE  toPage'[i].op \notin {"unload", "destroy", "play", "pause", "seek", "bytes"}
    <3>1. i + 1 \in DOMAIN toPage /\ toPage'[i] = toPage[i + 1] /\ i + 1 # 1
      BY <1>4, <2>1
    <3> QED
      BY <1>1, <1>4, <1>6, <2>1, <3>1 DEF OnTheirWay
  <2> QED
    BY <1>1, <2>1 DEF OnTheirWay
<1>9. NotThereYet' /\ WithoutData' /\ WithData'
  BY <1>1, <1>2, <1>5, <1>6 DEF NotThereYet, WithoutData, WithData
<1>10. ErrorsAreTrue'
  BY <1>1, <1>3 DEF ErrorsAreTrue
<1>11. e.source <= loaded
  BY <1>1, <1>5
<1>12. Current'
  BY <1>1, <1>2, <1>8, <1>9, <1>10, <1>11 DEF Current
<1> QED
  BY <1>7, <1>12

\* It decodes what it got, or cannot.
LEMMA CurrentDecodes ==
  ASSUME MInv, m_id \in Ids, NEW e \in Elements, CurrentSays(e), toPage' = toPage,
         mediaPlayers[m_id].at = "loading", mediaPlayers[m_id].level = HaveNothing,
         e.source = mediaPlayers[m_id].source, ~e.playing, ~e.seeking,
         NEW m \in EngineMessages, m.id = m_id, toEngine' = Append(toEngine, m),
         \/ e.level = HaveMetadata /\ m.code = "loadedmetadata"
         \/ /\ e.level = HaveNothing /\ e.at = "failed" /\ m.code = "error"
            /\ e.source \in failed'
  PROVE  Fetching' /\ Current'
<1> DEFINE old == mediaPlayers[m_id]
<1>1. /\ UNCHANGED <<m_id, m_readyState, m_networkState, m_resource, m_paused, m_httpFailed, loaded>>
      /\ mediaPlayers'[m_id] = e /\ m_id # 0
      /\ loaded >= 1 /\ old.source <= loaded
      /\ OnTheirWay /\ NotThereYet /\ WithoutData /\ ErrorsAreTrue /\ Fetching
      /\ m_readyState = HaveNothing => m_paused
      /\ MediaTypeOK
  BY CurrentFacts
<1>2. mediaPlayers'[m_id'] = e /\ m_id' = m_id
  BY <1>1
<1>3. /\ toPage' = toPage \/ (toPage # <<>> /\ toPage' = Tail(toPage))
      /\ UNCHANGED <<playerVars, loaded>> /\ failed \subseteq failed'
  BY DEF CurrentSays
<1>4. old.source = loaded
  BY <1>1 DEF NotThereYet
<1>5. /\ m_readyState = HaveNothing /\ m_networkState = "Loading" /\ NoneFor(toEngine, m_id)
      /\ e.source = loaded
  BY <1>1, <1>4 DEF WithoutData
<1>6. toEngine \in Seq(EngineMessages)
  BY <1>1, MediaTypes
<1>7. /\ \A j \in DOMAIN toEngine' : j \in DOMAIN toEngine \/ toEngine'[j] = m
      /\ \A i \in DOMAIN toEngine : toEngine'[i] = toEngine[i]
      /\ \E j \in DOMAIN toEngine' :
           /\ j \notin DOMAIN toEngine /\ toEngine'[j] = m
           /\ \A i \in DOMAIN toEngine' : i \in DOMAIN toEngine \/ i = j
  BY <1>6, ExtendsByOne DEF Extends
<1>8. PICK j \in DOMAIN toEngine' :
        toEngine'[j] = m /\ \A i \in DOMAIN toEngine' : toEngine'[i].id = m_id => i = j
  BY <1>5, <1>7 DEF NoneFor
<1>9. Fetching'
  BY <1>1, <1>2, <1>3, <1>5 DEF Fetching
<1>10. OnTheirWay'
  BY <1>1, <1>2, <1>3, OnTheirWayStays
<1>11. NotThereYet'
  BY <1>1, <1>2, <1>5 DEF NotThereYet
<1>12. CASE e.level = HaveMetadata /\ m.code = "loadedmetadata"
  <2>1. WithoutData'
    BY <1>2, <1>12, ElementKinds DEF WithoutData
  <2>2. MetadataFirst(toEngine', m_id)
    <3>1. DOMAIN toEngine' \subseteq Int
      <4>1. toEngine' \in Seq(EngineMessages)
        BY <1>6, ExtendsByOne
      <4> QED
        BY <4>1, LenProperties
    <3>2. j <= j
      BY <3>1
    <3> QED
      BY <1>8, <1>12, <3>2 DEF MetadataFirst
  <2>3. LevelOf(m.code) = HaveMetadata /\ HaveMetadata <= HaveMetadata /\ HaveNothing <= HaveMetadata
    BY <1>12, ElementKinds DEF LevelOf
  <2>4. \A i \in DOMAIN toEngine' : toEngine'[i].id = m_id => LevelOf(toEngine'[i].code) <= e.level
    BY <1>8, <1>12, <2>3
  <2>5. WithData'
    BY <1>1, <1>2, <1>5, <1>12, <2>2, <2>3, <2>4 DEF WithData
  <2>6. ErrorsAreTrue'
    BY <1>1, <1>3, <1>8, <1>12 DEF ErrorsAreTrue
  <2>7. Current'
    BY <1>1, <1>2, <1>4, <1>10, <1>11, <2>1, <2>5, <2>6 DEF Current
  <2> QED
    BY <1>9, <2>7
<1>13. CASE /\ e.level = HaveNothing /\ e.at = "failed" /\ m.code = "error"
            /\ e.source \in failed'
  <2>1. OnlyAnError(toEngine', m_id)
    BY <1>8, <1>13 DEF OnlyAnError
  <2>2. WithoutData' /\ WithData'
    BY <1>1, <1>2, <1>5, <1>13, <2>1 DEF WithoutData, WithData
  <2>3. ErrorsAreTrue'
    BY <1>1, <1>3, <1>5, <1>13 DEF ErrorsAreTrue
  <2>4. Current'
    BY <1>1, <1>2, <1>4, <1>10, <1>11, <2>2, <2>3 DEF Current
  <2> QED
    BY <1>9, <2>4
<1> QED
  BY <1>12, <1>13


LEMMA SaidOfOne ==
  ASSUME MediaTypeOK, NEW id \in Ids, NEW code \in Events,
         toEngine' = toEngine \/ toEngine' = Append(toEngine, Event(id, code))
  PROVE  /\ toEngine' \in Seq(EngineMessages) /\ Extends(toEngine', toEngine, id)
         /\ \A j \in DOMAIN toEngine' : j \in DOMAIN toEngine \/ toEngine'[j].code = code
<1>1. /\ Event(id, code) \in EngineMessages /\ Event(id, code).id = id
      /\ Event(id, code).code = code /\ toEngine \in Seq(EngineMessages)
  BY DEF Event, EngineMessages, MediaTypeOK, Elements
<1> DEFINE m == Event(id, code)
<1>2. m \in EngineMessages /\ m.id = id /\ m.code = code
  BY <1>1
<1> HIDE DEF m
<1>3. CASE toEngine' = toEngine
  BY <1>1, <1>3, ExtendsItself
<1>4. CASE toEngine' = Append(toEngine, m)
  BY <1>1, <1>2, <1>4, ExtendsByOne
<1> QED
  BY <1>3, <1>4 DEF m

\* Only a player with data is played, paused or sought.
LEMMA ControlsHaveData ==
  ASSUME MInv, m_id \in Ids, toPage # <<>>, Head(toPage).id = m_id,
         Head(toPage).op \in {"play", "pause", "seek"}
  PROVE  /\ mediaPlayers[m_id].source = loaded /\ mediaPlayers[m_id].level # HaveNothing
         /\ m_readyState # HaveNothing
<1>1. MediaTypeOK /\ OnTheirWay /\ NotThereYet /\ WithoutData
  BY IdsFinite DEF MInv, Current
<1>2. 1 \in DOMAIN toPage /\ toPage[1] = Head(toPage)
  BY <1>1, MediaTypes, TailShift
<1>3. m_readyState # HaveNothing
  BY <1>1, <1>2 DEF OnTheirWay
<1> QED
  BY <1>1, <1>3 DEF NotThereYet, WithoutData

LEMMA CodeLevels ==
  /\ LevelOf("loadedmetadata") = HaveMetadata /\ LevelOf("canplay") = HaveFutureData
  /\ LevelOf("canplaythrough") = HaveEnoughData
  /\ \A code \in {"playing", "pause", "ended", "error", "seeked"} : LevelOf(code) = HaveNothing
  BY DEF LevelOf

\* The page takes the next message, and what becomes of the element is `e'.
PageTakes(id, e) ==
  /\ toPage # <<>> /\ toPage' = Tail(toPage) /\ Head(toPage).id = id
  /\ mediaPlayers' = [mediaPlayers EXCEPT ![id] = e]
  /\ UNCHANGED <<playerVars, nextID, loaded, mediaCalls>>
  /\ urls' = urls - (IF mediaPlayers[id].url THEN 1 ELSE 0) + (IF e.url THEN 1 ELSE 0)
  /\ failed \subseteq failed' /\ failed' \subseteq Loads

\* One with data is played, paused or sought.
LEMMA ControlledKeepsMInv ==
  ASSUME MInv, NEW id \in Ids, NEW e \in Elements, PageTakes(id, e),
         Head(toPage).op \in {"play", "pause", "seek"}, mediaPlayers[id].at # "gone",
         e.at = mediaPlayers[id].at, e.source = mediaPlayers[id].source,
         e.level = mediaPlayers[id].level,
         NEW code \in {"playing", "pause", "error"},
         toEngine' = toEngine \/ toEngine' = Append(toEngine, Event(id, code)),
         code = "error" => mediaPlayers[id].source \in failed'
  PROVE  MInv'
<1>1. MediaTypeOK /\ code \in Events
  BY DEF MInv, Events
<1>2. /\ toEngine' \in Seq(EngineMessages) /\ Extends(toEngine', toEngine, id)
      /\ \A j \in DOMAIN toEngine' : j \in DOMAIN toEngine \/ toEngine'[j].code = code
  BY <1>1, SaidOfOne
<1>3. ASSUME id = m_id PROVE Fetching' /\ Current'
  <2>1. mediaPlayers[m_id].source = loaded /\ mediaPlayers[m_id].level # HaveNothing
    BY <1>3, ControlsHaveData DEF PageTakes
  <2>2. CurrentSays(e)
    BY <1>2, <1>3 DEF PageTakes, CurrentSays
  <2>3. LevelOf(code) <= e.level /\ e.level >= mediaPlayers[m_id].level
    <3>1. e.level \in 0..4 /\ LevelOf(code) = 0 /\ e.level = mediaPlayers[m_id].level
      BY <1>3, CodeLevels, ElementKinds DEF Elements
    <3> QED
      BY <3>1
  <2>4. \A j \in DOMAIN toEngine' :
          \/ j \in DOMAIN toEngine
          \/ /\ LevelOf(toEngine'[j].code) <= e.level
             /\ toEngine'[j].code = "error" => loaded \in failed'
    BY <1>2, <1>3, <2>1, <2>3
  <2> QED
    BY <1>3, <2>1, <2>2, <2>3, <2>4, CurrentWithData
<1>4. /\ toPage # <<>> /\ toPage' = Tail(toPage) /\ Head(toPage).id = id
      /\ mediaPlayers' = [mediaPlayers EXCEPT ![id] = e]
      /\ UNCHANGED <<playerVars, nextID, loaded, mediaCalls>>
      /\ urls' = urls - (IF mediaPlayers[id].url THEN 1 ELSE 0) + (IF e.url THEN 1 ELSE 0)
      /\ failed \subseteq failed' /\ failed' \subseteq Loads
  BY DEF PageTakes
<1> QED
  BY <1>2, <1>3, <1>4, PageSide

LEMMA PageMessageKeepsMInv ==
  ASSUME MInv, PageMessage
  PROVE  MInv'
<1> DEFINE msg == Head(toPage)
           id  == msg.id
           old == mediaPlayers[id]
<1>1. MediaTypeOK /\ Lives /\ Current
  BY DEF MInv
<1>2. /\ toPage # <<>> /\ toPage' = Tail(toPage)
      /\ UNCHANGED <<playerVars, nextID, loaded, mediaCalls>>
  BY DEF PageMessage, PageStep
<1>3. /\ msg \in PageMessages /\ id \in Ids /\ msg.source \in Loads
      /\ mediaPlayers \in [Ids -> Elements] /\ old \in Elements
      /\ toEngine \in Seq(EngineMessages) /\ failed \subseteq Loads
      /\ 1 \in DOMAIN toPage /\ toPage[1] = msg /\ 1 <= 1
  <2>1. toPage \in Seq(PageMessages) /\ mediaPlayers \in [Ids -> Elements]
        /\ toEngine \in Seq(EngineMessages)
    BY <1>1, MediaTypes
  <2>2. msg \in PageMessages /\ 1 \in DOMAIN toPage /\ toPage[1] = msg
    BY <1>2, <2>1, TailShift
  <2> QED
    BY <1>1, <2>1, <2>2 DEF PageMessages, MediaTypeOK
<1>4. /\ old.at = "gone" => old.source = 0 /\ ~old.url /\ ~old.playing /\ ~old.seeking
      /\ old.url \in BOOLEAN /\ old.source \in Loads /\ urls \in Int /\ old.level \in 0..4
  BY <1>1, <1>3 DEF Lives, GoneIsEmpty, Elements, MediaTypeOK
<1>5. id = m_id => m_id \in Ids /\ m_id # 0 /\ loaded # 0
  BY <1>1, <1>3, IdsFinite DEF Current
<1> HIDE DEF id, old, msg
<1>6. CASE /\ msg.op = "create"
           /\ SetElement(id, [Gone EXCEPT !.at = "empty"])
           /\ UNCHANGED <<toEngine, urls, failed>>
  <2> DEFINE e == [Gone EXCEPT !.at = "empty"]
  <2>1. /\ e \in Elements /\ e.at = "empty" /\ e.source = 0 /\ ~e.url /\ ~e.playing /\ ~e.seeking
    BY ElementKinds DEF Elements
  <2> HIDE DEF e
  <2>2. mediaPlayers' = [mediaPlayers EXCEPT ![id] = e]
    BY <1>6 DEF SetElement, e
  <2>3. old.at = "gone"
    BY <1>1, <1>3, <1>6 DEF Lives, CreatedFirst, old, id
  <2>4. urls' = urls - (IF old.url THEN 1 ELSE 0) + (IF e.url THEN 1 ELSE 0)
    BY <1>4, <1>6, <2>1, <2>3
  <2>5. ASSUME id = m_id PROVE Fetching' /\ Current'
    <3>1. CurrentSays(e)
      BY <1>2, <1>6, <2>2, <2>5, ExtendsItself DEF CurrentSays
    <3> QED
      BY <1>4, <1>5, <1>6, <2>1, <2>3, <2>5, <3>1, CurrentNotThereYet DEF old
  <2> QED
    BY <1>2, <1>3, <1>6, <2>1, <2>2, <2>4, <2>5, ExtendsItself, PageSide DEF msg, id, old
<1>7. CASE /\ msg.op # "create" /\ old.at = "gone"
           /\ UNCHANGED <<mediaPlayers, toEngine, urls, failed>>
  <2>1. mediaPlayers' = [mediaPlayers EXCEPT ![id] = old]
    BY <1>3, <1>7 DEF old
  <2>2. urls' = urls - (IF old.url THEN 1 ELSE 0) + (IF old.url THEN 1 ELSE 0)
    BY <1>4, <1>7
  <2>3. ASSUME id = m_id PROVE Fetching' /\ Current'
    <3>1. CurrentSays(old)
      BY <1>2, <1>7, <2>1, <2>3, ExtendsItself DEF CurrentSays
    <3> QED
      BY <1>3, <1>4, <1>5, <1>7, <2>3, <3>1, CurrentNotThereYet DEF old
  <2> QED
    BY <1>2, <1>3, <1>4, <1>7, <2>1, <2>2, <2>3, ExtendsItself, PageSide DEF msg, id, old
<1>8. CASE /\ msg.op = "bytes" /\ old.at # "gone"
           /\ urls' = urls - RevokeUrl(old) + 1
           /\ SetElement(id, [Gone EXCEPT !.at = "loading", !.source = msg.source, !.url = TRUE])
           /\ UNCHANGED <<toEngine, failed>>
  <2> DEFINE e == [Gone EXCEPT !.at = "loading", !.source = msg.source, !.url = TRUE]
  <2>1. /\ e \in Elements /\ e.at = "loading" /\ e.source = msg.source /\ e.url
        /\ ~e.playing /\ ~e.seeking /\ e.level = HaveNothing
    BY <1>3, ElementKinds DEF Elements
  <2> HIDE DEF e
  <2>2. mediaPlayers' = [mediaPlayers EXCEPT ![id] = e]
    BY <1>8 DEF SetElement, e
  <2>3. urls' = urls - (IF old.url THEN 1 ELSE 0) + (IF e.url THEN 1 ELSE 0)
    BY <1>8, <2>1 DEF RevokeUrl
  <2>4. ASSUME id = m_id PROVE Fetching' /\ Current'
    <3>1. CurrentSays(e)
      BY <1>2, <1>8, <2>2, <2>4, ExtendsItself DEF CurrentSays
    <3> QED
      BY <1>2, <1>5, <1>8, <2>1, <2>4, <3>1, CurrentGetsSource DEF msg, id
  <2> QED
    BY <1>2, <1>3, <1>8, <2>1, <2>2, <2>3, <2>4, ExtendsItself, PageSide DEF msg, id, old
<1>9. CASE /\ msg.op = "play" /\ old.at # "gone"
           /\ \/ /\ old.at = "loading" /\ old.level >= HaveFutureData
                 /\ SetElement(id, [old EXCEPT !.playing = TRUE])
                 /\ toEngine' = IF old.playing THEN toEngine
                                ELSE Append(toEngine, Event(id, "playing"))
                 /\ UNCHANGED failed
              \/ /\ toEngine' = Append(toEngine, Event(id, "error"))
                 /\ failed' = failed \cup {old.source}
                 /\ UNCHANGED mediaPlayers
           /\ UNCHANGED urls
  <2>1. CASE /\ SetElement(id, [old EXCEPT !.playing = TRUE])
             /\ toEngine' = IF old.playing THEN toEngine
                            ELSE Append(toEngine, Event(id, "playing"))
             /\ UNCHANGED failed
    <3> DEFINE e == [old EXCEPT !.playing = TRUE]
    <3>1. /\ e \in Elements /\ e.at = old.at /\ e.source = old.source /\ e.level = old.level
          /\ e.url = old.url
      BY <1>3 DEF Elements
    <3> HIDE DEF e
    <3>2. urls' = urls - (IF old.url THEN 1 ELSE 0) + (IF e.url THEN 1 ELSE 0)
      BY <1>4, <1>9, <3>1
    <3>3. PageTakes(id, e)
      BY <1>2, <1>3, <2>1, <3>2 DEF PageTakes, SetElement, e, old, id, msg
    <3> QED
      BY <1>3, <1>9, <2>1, <3>1, <3>3, ControlledKeepsMInv DEF old, msg
  <2>2. CASE /\ toEngine' = Append(toEngine, Event(id, "error"))
             /\ failed' = failed \cup {old.source}
             /\ UNCHANGED mediaPlayers
    <3>1. mediaPlayers' = [mediaPlayers EXCEPT ![id] = old]
      BY <1>3, <2>2 DEF old
    <3>2. urls' = urls - (IF old.url THEN 1 ELSE 0) + (IF old.url THEN 1 ELSE 0)
      BY <1>4, <1>9
    <3>3. PageTakes(id, old)
      BY <1>2, <1>3, <1>4, <2>2, <3>1, <3>2 DEF PageTakes, old, id, msg
    <3> QED
      BY <1>3, <1>9, <2>2, <3>3, ControlledKeepsMInv DEF old, msg
  <2> QED
    BY <1>9, <2>1, <2>2
<1>10. CASE /\ msg.op = "pause" /\ old.at # "gone"
            /\ SetElement(id, [old EXCEPT !.playing = FALSE])
            /\ toEngine' = IF old.playing THEN Append(toEngine, Event(id, "pause")) ELSE toEngine
            /\ UNCHANGED <<urls, failed>>
  <2> DEFINE e == [old EXCEPT !.playing = FALSE]
  <2>1. /\ e \in Elements /\ e.at = old.at /\ e.source = old.source /\ e.level = old.level
        /\ e.url = old.url
    BY <1>3 DEF Elements
  <2> HIDE DEF e
  <2>2. urls' = urls - (IF old.url THEN 1 ELSE 0) + (IF e.url THEN 1 ELSE 0)
    BY <1>4, <1>10, <2>1
  <2>3. PageTakes(id, e)
    BY <1>2, <1>3, <1>10, <2>2 DEF PageTakes, SetElement, e, old, id, msg
  <2> QED
    BY <1>3, <1>10, <2>1, <2>3, ControlledKeepsMInv DEF old, msg
<1>11. CASE /\ msg.op = "seek" /\ old.at # "gone"
            /\ SetElement(id, [old EXCEPT !.seeking = (old.at = "loading")])
            /\ UNCHANGED <<toEngine, urls, failed>>
  <2> DEFINE e == [old EXCEPT !.seeking = (old.at = "loading")]
  <2>1. /\ e \in Elements /\ e.at = old.at /\ e.source = old.source /\ e.level = old.level
        /\ e.url = old.url
    <3>1. (old.at = "loading") \in BOOLEAN
      OBVIOUS
    <3> DEFINE b == old.at = "loading"
    <3> HIDE DEF b
    <3>2. b \in BOOLEAN
      BY <3>1 DEF b
    <3>3. /\ [old EXCEPT !.seeking = b] \in Elements
          /\ [old EXCEPT !.seeking = b].at = old.at /\ [old EXCEPT !.seeking = b].source = old.source
          /\ [old EXCEPT !.seeking = b].level = old.level /\ [old EXCEPT !.seeking = b].url = old.url
      BY <1>3, <3>2 DEF Elements
    <3> QED
      BY <3>3 DEF b
  <2> HIDE DEF e
  <2>2. urls' = urls - (IF old.url THEN 1 ELSE 0) + (IF e.url THEN 1 ELSE 0)
    BY <1>4, <1>11, <2>1
  <2>3. PageTakes(id, e)
    BY <1>2, <1>3, <1>11, <2>2 DEF PageTakes, SetElement, e, old, id, msg
  <2>4. toEngine' = toEngine \/ toEngine' = Append(toEngine, Event(id, "pause"))
    BY <1>11
  <2> QED
    BY <1>3, <1>11, <2>1, <2>3, <2>4, ControlledKeepsMInv DEF old, msg
<1>12. CASE /\ msg.op \in {"unload", "destroy"} /\ old.at # "gone"
            /\ urls' = urls - RevokeUrl(old)
            /\ SetElement(id, IF msg.op = "unload" THEN [Gone EXCEPT !.at = "empty"] ELSE Gone)
            /\ toEngine' = IF old.playing THEN Append(toEngine, Event(id, "pause")) ELSE toEngine
            /\ UNCHANGED failed
  <2> DEFINE e == IF msg.op = "unload" THEN [Gone EXCEPT !.at = "empty"] ELSE Gone
  <2>1. /\ e \in Elements /\ e.source = 0 /\ ~e.url /\ ~e.playing /\ ~e.seeking
        /\ msg.op = "destroy" => e.at = "gone"
    BY ElementKinds DEF Elements
  <2> HIDE DEF e
  <2>2. mediaPlayers' = [mediaPlayers EXCEPT ![id] = e]
    BY <1>12 DEF SetElement, e
  <2>3. urls' = urls - (IF old.url THEN 1 ELSE 0) + (IF e.url THEN 1 ELSE 0)
    BY <1>4, <1>12, <2>1 DEF RevokeUrl
  <2>4. id # m_id
    BY <1>1, <1>3, <1>5, <1>12 DEF Current, OnTheirWay, id
  <2>5. "pause" \in Events
    BY DEF Events
  <2>6. toEngine' \in Seq(EngineMessages) /\ Extends(toEngine', toEngine, id)
    BY <1>1, <1>3, <1>12, <2>5, SaidOfOne
  <2> QED
    BY <1>2, <1>3, <1>12, <2>1, <2>2, <2>3, <2>4, <2>6, PageSide DEF msg, id, old
<1> QED
  BY <1>6, <1>7, <1>8, <1>9, <1>10, <1>11, <1>12 DEF PageMessage, msg, id, old


\* An element that has a blob says one thing.
LEMMA SaysOneKeepsMInv ==
  ASSUME MInv, NEW id \in Ids, NEW e \in Elements, NEW code \in Events,
         mediaPlayers[id].at = "loading", ElementSays(id, e, <<code>>),
         e.at \in {"loading", "failed"}, e.url = mediaPlayers[id].url,
         e.source = mediaPlayers[id].source, e.level >= mediaPlayers[id].level,
         LevelOf(code) <= e.level, e.level \in 0..4,
         failed \subseteq failed', failed' \subseteq Loads,
         code = "error" => e.source \in failed',
         mediaPlayers[id].level # HaveNothing
           \/ (e.playing = mediaPlayers[id].playing /\ e.seeking = mediaPlayers[id].seeking
               /\ \/ e.level = HaveMetadata /\ code = "loadedmetadata"
                  \/ e.level = HaveNothing /\ e.at = "failed" /\ code = "error")
  PROVE  MInv'
<1> DEFINE old == mediaPlayers[id]
           m == Event(id, code)
<1>1. /\ mediaPlayers' = [mediaPlayers EXCEPT ![id] = e]
      /\ toEngine' = toEngine \o [i \in DOMAIN <<code>> |-> Event(id, <<code>>[i])]
      /\ UNCHANGED <<toPage, urls, playerVars, nextID, loaded, mediaCalls>>
  BY DEF ElementSays, SetElement, PageStep
<1>2. MediaTypeOK /\ Current
  BY DEF MInv
<1>3. m \in EngineMessages /\ toEngine' = Append(toEngine, m) /\ m.id = id /\ m.code = code
  BY <1>1, <1>2, SaysOne DEF Event
<1>4. /\ toEngine' \in Seq(EngineMessages) /\ Extends(toEngine', toEngine, id)
      /\ \A j \in DOMAIN toEngine' : j \in DOMAIN toEngine \/ toEngine'[j].code = code
  BY <1>2, <1>3, SaidOfOne
<1>5. ASSUME id = m_id PROVE Fetching' /\ Current'
  <2>1. m_id # 0 /\ NotThereYet /\ WithoutData
    BY <1>2, <1>5, IdsFinite DEF Current
  <2>2. old.source = loaded
    BY <1>5, <2>1 DEF NotThereYet
  <2>3. CurrentSays(e)
    BY <1>1, <1>4, <1>5 DEF CurrentSays
  <2>4. CASE old.level # HaveNothing
    <3>1. \A j \in DOMAIN toEngine' :
            \/ j \in DOMAIN toEngine
            \/ /\ LevelOf(toEngine'[j].code) <= e.level
               /\ toEngine'[j].code = "error" => loaded \in failed'
      BY <1>4, <2>2
    <3> QED
      BY <1>5, <2>2, <2>3, <2>4, <3>1, CurrentWithData
  <2>5. CASE old.level = HaveNothing
    <3>1. ~old.playing /\ ~old.seeking
      BY <1>5, <2>1, <2>2, <2>5 DEF WithoutData
    <3> QED
      BY <1>1, <1>3, <1>5, <2>2, <2>3, <2>5, <3>1, CurrentDecodes
  <2> QED
    BY <2>4, <2>5
<1>6. urls' = urls - (IF old.url THEN 1 ELSE 0) + (IF e.url THEN 1 ELSE 0)
  BY <1>1, <1>2 DEF MediaTypeOK
<1> HIDE DEF old, m
<1>7. toPage' = toPage /\ UNCHANGED <<playerVars, nextID, loaded, mediaCalls>>
  BY <1>1
<1> QED
  BY <1>1, <1>4, <1>5, <1>6, <1>7, PageSide DEF old

LEMMA ElementsKeepMInv ==
  ASSUME MInv, NEW id \in Ids,
         ElementAdvances(id) \/ ElementCanPlayThrough(id) \/ ElementEnds(id) \/ ElementSeeked(id)
  PROVE  MInv'
<1> DEFINE old == mediaPlayers[id]
<1>1. /\ MediaTypeOK /\ Current /\ failed \subseteq Loads
      /\ old \in Elements /\ old.level \in 0..4 /\ old.source \in Loads
      /\ old.url \in BOOLEAN /\ old.playing \in BOOLEAN /\ old.seeking \in BOOLEAN
      /\ {"loadedmetadata", "canplay", "canplaythrough", "seeked", "pause", "ended",
          "error"} \subseteq Events
  BY MediaTypes DEF MInv, MediaTypeOK, Elements, Events
<1> HIDE DEF old
<1>2. CASE ElementAdvances(id)
  <2>1. old.at = "loading"
    BY <1>2 DEF ElementAdvances, old
  <2>2. CASE /\ old.level = HaveNothing
             /\ ElementSays(id, [old EXCEPT !.level = HaveMetadata], <<"loadedmetadata">>)
             /\ UNCHANGED failed
    <3> DEFINE e == [old EXCEPT !.level = HaveMetadata]
    <3>1. /\ e \in Elements /\ e.at = "loading" /\ e.url = old.url /\ e.source = old.source
          /\ e.level = 1 /\ e.playing = old.playing /\ e.seeking = old.seeking
      BY <1>1, <2>1, ElementKinds DEF Elements
    <3> HIDE DEF e
    <3>2. /\ e.level >= old.level /\ LevelOf("loadedmetadata") <= e.level /\ e.level \in 0..4
          /\ e.level = HaveMetadata
      BY <1>1, <2>2, <3>1, ElementKinds, CodeLevels
    <3>3. ElementSays(id, e, <<"loadedmetadata">>) /\ failed' = failed
      BY <2>2 DEF e
    <3> QED
      BY <1>1, <2>1, <3>1, <3>2, <3>3, SaysOneKeepsMInv DEF old
  <2>3. CASE /\ old.level = HaveMetadata
             /\ ElementSays(id, [old EXCEPT !.level = HaveFutureData], <<"canplay">>)
             /\ UNCHANGED failed
    <3> DEFINE e == [old EXCEPT !.level = HaveFutureData]
    <3>1. /\ e \in Elements /\ e.at = "loading" /\ e.url = old.url /\ e.source = old.source
          /\ e.level = 3
      BY <1>1, <2>1, ElementKinds DEF Elements
    <3> HIDE DEF e
    <3>2. /\ e.level >= old.level /\ LevelOf("canplay") <= e.level /\ e.level \in 0..4
          /\ old.level # HaveNothing
      BY <1>1, <2>3, <3>1, ElementKinds, CodeLevels
    <3>3. ElementSays(id, e, <<"canplay">>) /\ failed' = failed
      BY <2>3 DEF e
    <3> QED
      BY <1>1, <2>1, <3>1, <3>2, <3>3, SaysOneKeepsMInv DEF old
  <2>4. CASE /\ old.level < HaveFutureData
             /\ ElementSays(id, [old EXCEPT !.at = "failed"], <<"error">>)
             /\ failed' = failed \cup {old.source}
    <3> DEFINE e == [old EXCEPT !.at = "failed"]
    <3>1. /\ e \in Elements /\ e.at = "failed" /\ e.url = old.url /\ e.source = old.source
          /\ e.level = old.level /\ e.playing = old.playing /\ e.seeking = old.seeking
      BY <1>1, <2>1 DEF Elements
    <3> HIDE DEF e
    <3>2. /\ e.level >= old.level /\ LevelOf("error") <= e.level /\ e.level \in 0..4
      BY <1>1, <3>1, ElementKinds, CodeLevels
    <3>3. /\ ElementSays(id, e, <<"error">>) /\ failed \subseteq failed' /\ failed' \subseteq Loads
          /\ e.source \in failed'
      BY <1>1, <2>4, <3>1 DEF e
    <3> QED
      BY <1>1, <2>1, <3>1, <3>2, <3>3, SaysOneKeepsMInv DEF old
  <2> QED
    BY <1>2, <2>2, <2>3, <2>4 DEF ElementAdvances, old
<1>3. CASE ElementCanPlayThrough(id)
  <2> DEFINE e == [old EXCEPT !.level = HaveEnoughData]
  <2>1. /\ old.at = "loading" /\ old.level = HaveFutureData /\ failed' = failed
        /\ ElementSays(id, e, <<"canplaythrough">>)
    BY <1>3 DEF ElementCanPlayThrough, old
  <2>2. /\ e \in Elements /\ e.at = "loading" /\ e.url = old.url /\ e.source = old.source
        /\ e.level = 4
    BY <1>1, <2>1, ElementKinds DEF Elements
  <2> HIDE DEF e
  <2>3. /\ e.level >= old.level /\ LevelOf("canplaythrough") <= e.level /\ e.level \in 0..4
        /\ old.level # HaveNothing
    BY <1>1, <2>1, <2>2, ElementKinds, CodeLevels
  <2> QED
    BY <1>1, <2>1, <2>2, <2>3, SaysOneKeepsMInv DEF old
<1>4. ASSUME old.at = "loading", old.playing \/ old.seeking
      PROVE  id = m_id => old.level # HaveNothing /\ old.source = loaded
  <2>1. id = m_id => NotThereYet /\ WithoutData
    BY <1>1, IdsFinite DEF Current
  <2> QED
    BY <1>4, <2>1 DEF NotThereYet, WithoutData, old
<1>5. CASE ElementSeeked(id)
  <2> DEFINE e == [old EXCEPT !.seeking = FALSE]
  <2>1. /\ old.at = "loading" /\ old.seeking /\ failed' = failed
        /\ ElementSays(id, e, <<"seeked">>)
    BY <1>5 DEF ElementSeeked, old
  <2>2. /\ e \in Elements /\ e.at = "loading" /\ e.url = old.url /\ e.source = old.source
        /\ e.level = old.level
    BY <1>1, <2>1 DEF Elements
  <2> HIDE DEF e
  <2>3. /\ e.level >= old.level /\ LevelOf("seeked") <= e.level /\ e.level \in 0..4
    BY <1>1, <2>2, ElementKinds, CodeLevels
  <2>4. /\ mediaPlayers' = [mediaPlayers EXCEPT ![id] = e]
        /\ toEngine' = toEngine \o [i \in DOMAIN <<"seeked">> |-> Event(id, <<"seeked">>[i])]
        /\ UNCHANGED <<toPage, urls, playerVars, nextID, loaded, mediaCalls>>
    BY <2>1 DEF ElementSays, SetElement, PageStep
  <2>5. toEngine' = Append(toEngine, Event(id, "seeked"))
    BY <1>1, <2>4, SaysOne
  <2>6. /\ toEngine' \in Seq(EngineMessages) /\ Extends(toEngine', toEngine, id)
        /\ \A j \in DOMAIN toEngine' : j \in DOMAIN toEngine \/ toEngine'[j].code = "seeked"
    BY <1>1, <2>5, SaidOfOne
  <2>7. ASSUME id = m_id PROVE Fetching' /\ Current'
    <3>1. CurrentSays(e)
      BY <2>1, <2>4, <2>6, <2>7 DEF CurrentSays
    <3>2. \A j \in DOMAIN toEngine' :
            \/ j \in DOMAIN toEngine
            \/ /\ LevelOf(toEngine'[j].code) <= e.level
               /\ toEngine'[j].code = "error" => loaded \in failed'
      BY <2>3, <2>6
    <3> QED
      BY <1>4, <2>1, <2>2, <2>3, <2>7, <3>1, <3>2, CurrentWithData DEF old
  <2>8. urls' = urls - (IF old.url THEN 1 ELSE 0) + (IF e.url THEN 1 ELSE 0)
    BY <1>1, <2>2, <2>4 DEF MediaTypeOK
  <2>9. toPage' = toPage /\ UNCHANGED <<playerVars, nextID, loaded, mediaCalls>>
    BY <2>4
  <2> QED
    BY <1>1, <2>1, <2>2, <2>4, <2>6, <2>7, <2>8, <2>9, PageSide DEF old
<1>6. CASE ElementEnds(id)
  <2> DEFINE e == [old EXCEPT !.playing = FALSE]
             m == Event(id, "pause")
             n == Event(id, "ended")
  <2>1. /\ old.at = "loading" /\ old.playing /\ failed' = failed
        /\ ElementSays(id, e, <<"pause", "ended">>)
    BY <1>6 DEF ElementEnds, old
  <2>2. /\ e \in Elements /\ e.at = "loading" /\ e.url = old.url /\ e.source = old.source
        /\ e.level = old.level
    BY <1>1, <2>1 DEF Elements
  <2> HIDE DEF e
  <2>3. /\ e.level >= old.level /\ LevelOf("pause") <= e.level /\ LevelOf("ended") <= e.level
    BY <1>1, <2>2, ElementKinds, CodeLevels
  <2>4. /\ mediaPlayers' = [mediaPlayers EXCEPT ![id] = e]
        /\ toEngine' = toEngine \o [i \in DOMAIN <<"pause", "ended">> |->
                                      Event(id, <<"pause", "ended">>[i])]
        /\ UNCHANGED <<toPage, urls, playerVars, nextID, loaded, mediaCalls>>
    BY <2>1 DEF ElementSays, SetElement, PageStep
  <2>5. /\ toEngine' = Append(Append(toEngine, m), n)
        /\ m \in EngineMessages /\ n \in EngineMessages
        /\ m.id = id /\ n.id = id /\ m.code = "pause" /\ n.code = "ended"
    BY <1>1, <2>4, SaysTwo DEF Event
  <2> HIDE DEF m, n
  <2>6. /\ toEngine' \in Seq(EngineMessages) /\ Extends(toEngine', toEngine, id)
        /\ \A j \in DOMAIN toEngine' :
             j \in DOMAIN toEngine \/ toEngine'[j].code \in {"pause", "ended"}
    <3> DEFINE half == Append(toEngine, m)
    <3>1. toEngine \in Seq(EngineMessages)
      BY <1>1, MediaTypes
    <3>2. /\ half \in Seq(EngineMessages) /\ Extends(half, toEngine, id)
          /\ \A j \in DOMAIN half : j \in DOMAIN toEngine \/ half[j] = m
      BY <2>5, <3>1, ExtendsByOne
    <3> HIDE DEF half
    <3>3. /\ toEngine' \in Seq(EngineMessages) /\ Extends(toEngine', half, id)
          /\ \A j \in DOMAIN toEngine' : j \in DOMAIN half \/ toEngine'[j] = n
      <4>1. toEngine' = Append(half, n) /\ n \in EngineMessages /\ n.id = id
        BY <2>5 DEF half
      <4> QED
        BY <3>2, <4>1, ExtendsByOne
    <3>4. Extends(toEngine', toEngine, id)
      BY <3>2, <3>3, ExtendsTwice
    <3>5. \A j \in DOMAIN half : toEngine'[j] = half[j]
      BY <3>3 DEF Extends
    <3> QED
      BY <2>5, <3>2, <3>3, <3>4, <3>5
  <2>7. ASSUME id = m_id PROVE Fetching' /\ Current'
    <3>1. CurrentSays(e)
      BY <2>1, <2>4, <2>6, <2>7 DEF CurrentSays
    <3>2. \A j \in DOMAIN toEngine' :
            \/ j \in DOMAIN toEngine
            \/ /\ LevelOf(toEngine'[j].code) <= e.level
               /\ toEngine'[j].code = "error" => loaded \in failed'
      BY <2>3, <2>6
    <3> QED
      BY <1>4, <2>1, <2>2, <2>3, <2>7, <3>1, <3>2, CurrentWithData DEF old
  <2>8. urls' = urls - (IF old.url THEN 1 ELSE 0) + (IF e.url THEN 1 ELSE 0)
    BY <1>1, <2>2, <2>4 DEF MediaTypeOK
  <2>9. toPage' = toPage /\ UNCHANGED <<playerVars, nextID, loaded, mediaCalls>>
    BY <2>4
  <2> QED
    BY <1>1, <2>1, <2>2, <2>4, <2>6, <2>7, <2>8, <2>9, PageSide DEF old
<1> QED
  BY <1>2, <1>3, <1>5, <1>6


-----------------------------------------------------------------------------
(* The media bridge: the engine's side *)

LEMMA QueueWithoutHead ==
  ASSUME NEW S, NEW q \in Seq(S), q # <<>>, NEW id
  PROVE  /\ NoneFor(q, id) => NoneFor(Tail(q), id)
         /\ Head(q).id # id /\ OnlyAnError(q, id) => OnlyAnError(Tail(q), id)
         /\ Head(q).id # id /\ MetadataFirst(q, id) => MetadataFirst(Tail(q), id)
         /\ Head(q).id = id /\ OnlyAnError(q, id) =>
              Head(q).code = "error" /\ NoneFor(Tail(q), id)
         /\ Head(q).id = id /\ MetadataFirst(q, id) => Head(q).code = "loadedmetadata"
         /\ Head(q).id = id => ~NoneFor(q, id)
<1> DEFINE t == Tail(q)
<1>1. /\ 1 \in DOMAIN q /\ q[1] = Head(q)
      /\ \A i \in DOMAIN t : i \in Nat /\ i >= 1 /\ i + 1 \in DOMAIN q /\ t[i] = q[i + 1]
      /\ \A i \in DOMAIN q : i \in Nat /\ (i = 1 \/ (i - 1 \in DOMAIN t /\ t[i - 1] = q[i]))
  BY TailShift
<1> HIDE DEF t
<1>2. NoneFor(q, id) => NoneFor(t, id)
  BY <1>1 DEF NoneFor
<1>3. ASSUME q[1].id # id, OnlyAnError(q, id) PROVE OnlyAnError(t, id)
  <2>1. PICK i \in DOMAIN q :
          /\ q[i].id = id /\ q[i].code = "error" /\ \A j \in DOMAIN q : q[j].id = id => i = j
    BY <1>3 DEF OnlyAnError
  <2>2. i - 1 \in DOMAIN t /\ t[i - 1] = q[i] /\ i \in Nat
    BY <1>1, <1>3, <2>1
  <2>3. ASSUME NEW j \in DOMAIN t, t[j].id = id PROVE i - 1 = j
    <3>1. j \in Nat /\ i = j + 1
      BY <1>1, <2>1, <2>3
    <3> QED
      BY <2>2, <3>1
  <2> QED
    BY <2>1, <2>2, <2>3 DEF OnlyAnError
<1>4. ASSUME q[1].id # id, MetadataFirst(q, id) PROVE MetadataFirst(t, id)
  <2>1. PICK i \in DOMAIN q :
          /\ q[i].id = id /\ q[i].code = "loadedmetadata"
          /\ \A j \in DOMAIN q : q[j].id = id => i <= j
    BY <1>4 DEF MetadataFirst
  <2>2. i - 1 \in DOMAIN t /\ t[i - 1] = q[i] /\ i \in Nat
    BY <1>1, <1>4, <2>1
  <2>3. ASSUME NEW j \in DOMAIN t, t[j].id = id PROVE i - 1 <= j
    <3>1. j \in Nat /\ i <= j + 1
      BY <1>1, <2>1, <2>3
    <3> QED
      BY <2>2, <3>1
  <2> QED
    BY <2>1, <2>2, <2>3 DEF MetadataFirst
<1>5. ASSUME q[1].id = id, OnlyAnError(q, id) PROVE q[1].code = "error" /\ NoneFor(t, id)
  <2>1. q[1].code = "error" /\ \A j \in DOMAIN q : q[j].id = id => j = 1
    BY <1>1, <1>5 DEF OnlyAnError
  <2> QED
    BY <1>1, <2>1 DEF NoneFor
<1>6. ASSUME q[1].id = id, MetadataFirst(q, id) PROVE q[1].code = "loadedmetadata"
  <2>1. PICK i \in DOMAIN q :
          /\ q[i].id = id /\ q[i].code = "loadedmetadata"
          /\ \A j \in DOMAIN q : q[j].id = id => i <= j
    BY <1>6 DEF MetadataFirst
  <2>2. i <= 1 /\ i \in Nat /\ (i = 1 \/ i - 1 \in DOMAIN t)
    BY <1>1, <1>6, <2>1
  <2>3. i = 1
    BY <1>1, <2>2
  <2> QED
    BY <2>1, <2>3
<1>7. q[1].id = id => ~NoneFor(q, id)
  BY <1>1 DEF NoneFor
<1> QED
  BY <1>1, <1>2, <1>3, <1>4, <1>5, <1>6, <1>7 DEF t

\* What an event of the current player's element does to the player.
LEMMA EventIsHandled ==
  ASSUME MInv, HandleEvent, Head(toEngine).id = m_id, m_id # 0
  PROVE  /\ UNCHANGED <<m_id, playerRegistry, m_httpFailed, m_resource>>
         /\ m_networkState' \in {"Empty", "Loading", "Idle"} \cup Failures
         /\ m_networkState' \in Failures =>
              m_networkState \in Failures \/ Head(toEngine).code = "error"
         /\ Head(toEngine).code = "error" =>
              /\ m_networkState' \in Failures /\ m_readyState' = m_readyState
              /\ m_paused => m_paused'
         /\ m_readyState' = m_readyState
              \/ (m_readyState' = LevelOf(Head(toEngine).code) /\ m_readyState' # HaveNothing)
         /\ Head(toEngine).code = "loadedmetadata" => m_readyState' = HaveMetadata
         /\ m_paused' \in BOOLEAN /\ m_ended' \in BOOLEAN /\ m_seeking' \in BOOLEAN
<1> DEFINE code == Head(toEngine).code
<1>1. PlayerRegistered(Head(toEngine).id)
  BY DEF PlayerRegistered, MInv, Lives, Numbered
<1>2. /\ m_networkState' \in
           CASE code = "canplay"        -> {AfterCanPlay}
             [] code = "canplaythrough" -> {IdleIfLoading}
             [] code = "error"          -> Failures
             [] OTHER                   -> {m_networkState}
      /\ m_readyState' =
           CASE code = "loadedmetadata" -> HaveMetadata
             [] code = "canplay" /\ m_readyState < HaveFutureData -> HaveFutureData
             [] code = "canplaythrough" -> HaveEnoughData
             [] OTHER                   -> m_readyState
      /\ m_paused' = (code \in {"pause", "ended"} \/ (m_paused /\ code # "playing"))
      /\ m_ended' = (m_ended \/ code = "ended")
      /\ m_seeking' = (m_seeking /\ code # "seeked")
      /\ UNCHANGED <<m_id, playerRegistry, m_httpFailed, m_resource>>
  BY <1>1 DEF HandleEvent
<1> HIDE DEF code
<1>3. m_networkState \in {"Empty", "Loading", "Idle"} \cup Failures
  BY DEF MInv, MediaTypeOK
<1>4. IdleIfLoading \in {"Empty", "Idle"} \cup Failures
      /\ (IdleIfLoading \in Failures => m_networkState \in Failures)
  BY <1>3 DEF IdleIfLoading, Failures
<1>5. /\ code = "error" => m_networkState' \in Failures
      /\ code # "error" => m_networkState' \in {IdleIfLoading, m_networkState}
  BY <1>2 DEF AfterCanPlay
<1>6. /\ code = "loadedmetadata" => m_readyState' = HaveMetadata
      /\ \/ m_readyState' = m_readyState
         \/ m_readyState' = HaveMetadata /\ code = "loadedmetadata"
         \/ m_readyState' = HaveFutureData /\ code = "canplay"
         \/ m_readyState' = HaveEnoughData /\ code = "canplaythrough"
      /\ code = "error" => m_readyState' = m_readyState
  BY <1>2
<1>7. m_readyState' = m_readyState \/ (m_readyState' = LevelOf(code) /\ m_readyState' # HaveNothing)
  BY <1>6, CodeLevels, ElementKinds
<1>8. m_paused' \in BOOLEAN /\ m_ended' \in BOOLEAN /\ m_seeking' \in BOOLEAN
  BY <1>2
<1>9. code = "error" /\ m_paused => m_paused'
  BY <1>2
<1>10. m_networkState' \in {"Empty", "Loading", "Idle"} \cup Failures
  BY <1>3, <1>4, <1>5
<1> QED
  BY <1>2, <1>4, <1>5, <1>6, <1>7, <1>8, <1>9, <1>10 DEF code


LEMMA HandleEventKeepsMInv ==
  ASSUME MInv, HandleEvent
  PROVE  MInv'
<1> DEFINE code == Head(toEngine).code
           old == mediaPlayers[m_id]
<1>1. /\ MediaTypeOK /\ Lives /\ UrlsCounted /\ Fetching /\ Current
      /\ toEngine # <<>> /\ toEngine' = Tail(toEngine)
      /\ UNCHANGED <<toPage, mediaPlayers, nextID, loaded, failed, urls, mediaCalls>>
  BY DEF MInv, HandleEvent
<1>2. /\ toEngine \in Seq(EngineMessages) /\ toEngine' \in Seq(EngineMessages)
      /\ Head(toEngine) \in EngineMessages /\ Head(toEngine).id \in Ids
      /\ 1 \in DOMAIN toEngine /\ toEngine[1] = Head(toEngine)
      /\ \A i \in DOMAIN toEngine' : i + 1 \in DOMAIN toEngine /\ toEngine'[i] = toEngine[i + 1]
  BY <1>1, MediaTypes, TailShift DEF EngineMessages
<1>3. CASE Head(toEngine).id # m_id \/ m_id = 0
  <2>1. UNCHANGED <<m_id, playerRegistry, m_networkState, m_readyState, m_paused, m_ended,
                    m_seeking, m_httpFailed, m_resource>>
    <3>1. ~PlayerRegistered(Head(toEngine).id)
      BY <1>1, <1>2, <1>3, IdsFinite DEF PlayerRegistered, Lives, Numbered
    <3> QED
      BY <3>1 DEF HandleEvent, playerVars
  <2>2. MediaTypeOK'
    BY <1>1, <1>2, <2>1 DEF MediaTypeOK, EngineMessages
  <2>3. Lives'
    BY <1>1, <1>2, <2>1, QueueWithoutHead DEF Lives, Numbered, CreatedFirst, DestroyedLast, GoneIsEmpty
  <2>4. UrlsCounted' /\ Fetching'
    BY <1>1, <2>1 DEF UrlsCounted, WithUrl, Fetching
  <2>5. Current'
    <3>1. ASSUME m_id # 0
          PROVE  OnTheirWay' /\ NotThereYet' /\ WithoutData' /\ WithData' /\ ErrorsAreTrue'
      <4>1. OnTheirWay /\ NotThereYet /\ WithoutData /\ WithData /\ ErrorsAreTrue
        BY <1>1, <3>1 DEF Current
      <4>2. /\ NoneFor(toEngine, m_id) => NoneFor(toEngine', m_id)
            /\ OnlyAnError(toEngine, m_id) => OnlyAnError(toEngine', m_id)
            /\ MetadataFirst(toEngine, m_id) => MetadataFirst(toEngine', m_id)
        BY <1>1, <1>2, <1>3, <3>1, QueueWithoutHead
      <4>3. OnTheirWay' /\ NotThereYet' /\ WithoutData'
        BY <1>1, <2>1, <4>1, <4>2 DEF OnTheirWay, NotThereYet, WithoutData
      <4>4. WithData' /\ ErrorsAreTrue'
        BY <1>1, <1>2, <2>1, <4>1, <4>2 DEF WithData, ErrorsAreTrue
      <4> QED
        BY <4>3, <4>4
    <3> QED
      BY <1>1, <2>1, <3>1 DEF Current
  <2> QED
    BY <2>2, <2>3, <2>4, <2>5 DEF MInv
<1>4. CASE Head(toEngine).id = m_id /\ m_id # 0
  <2>1. /\ UNCHANGED <<m_id, playerRegistry, m_httpFailed, m_resource>>
        /\ m_networkState' \in {"Empty", "Loading", "Idle"} \cup Failures
        /\ m_networkState' \in Failures => m_networkState \in Failures \/ code = "error"
        /\ code = "error" =>
             m_networkState' \in Failures /\ m_readyState' = m_readyState /\ (m_paused => m_paused')
        /\ m_readyState' = m_readyState
             \/ (m_readyState' = LevelOf(code) /\ m_readyState' # HaveNothing)
        /\ code = "loadedmetadata" => m_readyState' = HaveMetadata
        /\ m_paused' \in BOOLEAN /\ m_ended' \in BOOLEAN /\ m_seeking' \in BOOLEAN
    BY <1>4, EventIsHandled
  <2>2. /\ loaded >= 1 /\ old.source <= loaded
        /\ OnTheirWay /\ NotThereYet /\ WithoutData /\ WithData /\ ErrorsAreTrue
        /\ m_readyState = HaveNothing => m_paused
    BY <1>1, <1>4 DEF Current
  <2>3. ~NoneFor(toEngine, m_id)
    BY <1>1, <1>2, <1>4, QueueWithoutHead
  <2>4. old.source = loaded
    BY <2>2, <2>3 DEF NotThereYet
  <2>5. MediaTypeOK'
    <3>1. m_readyState' \in {HaveNothing, HaveMetadata, HaveFutureData, HaveEnoughData}
      BY <1>1, <2>1 DEF MediaTypeOK, LevelOf
    <3> QED
      BY <1>1, <1>2, <2>1, <3>1 DEF MediaTypeOK, EngineMessages
  <2>6. Lives'
    BY <1>1, <1>2, <2>1, QueueWithoutHead DEF Lives, Numbered, CreatedFirst, DestroyedLast, GoneIsEmpty
  <2>7. UrlsCounted' /\ Fetching'
    BY <1>1, <2>1, <2>4 DEF UrlsCounted, WithUrl, Fetching
  <2>8. /\ \A i \in DOMAIN toEngine :
             toEngine[i].id = m_id /\ toEngine[i].code = "error" => loaded \in failed
        /\ code = "error" => loaded \in failed
        /\ m_networkState \in Failures => loaded \in failed
    BY <1>2, <1>4, <2>2 DEF ErrorsAreTrue
  <2>9. ErrorsAreTrue'
    BY <1>1, <1>2, <2>1, <2>8 DEF ErrorsAreTrue
  <2>10. NotThereYet'
    BY <1>1, <2>1, <2>4 DEF NotThereYet
  <2>11. OnTheirWay'
    <3>1. m_readyState # HaveNothing => m_readyState' # HaveNothing
      BY <2>1
    <3> QED
      BY <1>1, <2>1, <2>2, <2>4, <3>1 DEF OnTheirWay
  <2>12. CASE old.level = HaveNothing
    <3>1. /\ ~old.playing /\ ~old.seeking /\ m_readyState = HaveNothing
          /\ old.at = "failed" /\ OnlyAnError(toEngine, m_id)
      BY <2>2, <2>3, <2>4, <2>12 DEF WithoutData
    <3>2. code = "error" /\ NoneFor(toEngine', m_id)
      BY <1>1, <1>2, <1>4, <3>1, QueueWithoutHead
    <3>3. WithoutData' /\ WithData'
      BY <1>1, <2>1, <2>4, <2>12, <3>1, <3>2 DEF WithoutData, WithData
    <3>4. m_paused'
      BY <2>1, <2>2, <3>1, <3>2
    <3>5. Current'
      BY <1>1, <2>1, <2>2, <2>9, <2>10, <2>11, <3>3, <3>4 DEF Current
    <3> QED
      BY <2>5, <2>6, <2>7, <3>5 DEF MInv
  <2>13. CASE old.level # HaveNothing
    <3>1. /\ m_readyState <= old.level
          /\ \A i \in DOMAIN toEngine : toEngine[i].id = m_id => LevelOf(toEngine[i].code) <= old.level
          /\ LevelOf(code) <= old.level
          /\ m_readyState = HaveNothing => MetadataFirst(toEngine, m_id)
      BY <1>2, <1>4, <2>2, <2>4, <2>13 DEF WithData
    <3>2. m_readyState' # HaveNothing
      <4>1. m_readyState = HaveNothing => code = "loadedmetadata"
        BY <1>1, <1>2, <1>4, <3>1, QueueWithoutHead
      <4> QED
        BY <2>1, <4>1, ElementKinds
    <3>3. m_readyState' <= old.level
      BY <2>1, <3>1
    <3>4. WithData'
      BY <1>1, <1>2, <2>1, <3>1, <3>2, <3>3 DEF WithData
    <3>5. WithoutData'
      BY <1>1, <2>1, <2>13 DEF WithoutData
    <3>6. Current'
      BY <1>1, <2>1, <2>2, <2>9, <2>10, <2>11, <3>2, <3>4, <3>5 DEF Current
    <3> QED
      BY <2>5, <2>6, <2>7, <3>6 DEF MInv
  <2> QED
    BY <2>12, <2>13
<1> QED
  BY <1>3, <1>4

\* A step of the engine that sends at most one message for its player.
LEMMA EngineSideLives ==
  ASSUME MInv, UNCHANGED <<m_id, playerRegistry, nextID, mediaPlayers, toEngine>>,
         loaded' \in Nat, loaded' >= loaded,
         \/ toPage' = toPage
         \/ /\ m_id # 0
            /\ \E m \in PageMessages :
                 m.id = m_id /\ m.op # "create" /\ toPage' = Append(toPage, m)
  PROVE  Lives' /\ toPage' \in Seq(PageMessages)
<1>1. MediaTypeOK /\ Lives
  BY DEF MInv
<1>2. /\ toPage \in Seq(PageMessages) /\ m_id \in Nat /\ nextID \in Nat /\ loaded \in Nat
      /\ Ids \subseteq Nat /\ nextID <= loaded /\ m_id <= nextID
  BY <1>1, MediaTypes DEF Lives, Numbered
<1>3. nextID <= loaded'
  BY <1>2
<1>4. CASE toPage' = toPage
  BY <1>1, <1>2, <1>3, <1>4 DEF Lives, Numbered, CreatedFirst, DestroyedLast, GoneIsEmpty
<1>5. CASE /\ m_id # 0
           /\ \E m \in PageMessages :
                m.id = m_id /\ m.op # "create" /\ toPage' = Append(toPage, m)
  <2>1. PICK m \in PageMessages :
          m.id = m_id /\ m.op # "create" /\ toPage' = Append(toPage, m)
    BY <1>5
  <2>2. /\ toPage' \in Seq(PageMessages) /\ Extends(toPage', toPage, m_id)
        /\ \A j \in DOMAIN toPage' : j \in DOMAIN toPage \/ toPage'[j] = m
    BY <1>2, <2>1, ExtendsByOne
  <2>3. \A id \in Ids : id # m_id /\ NoneFor(toPage, id) => NoneFor(toPage', id)
    BY <2>1, <2>2 DEF NoneFor, Extends
  <2>4. \A id \in Ids : id # m_id /\ DestroyIsLast(toPage, id) => DestroyIsLast(toPage', id)
    BY <2>1, <2>2 DEF DestroyIsLast, Extends
  <2>5. Numbered'
    BY <1>1, <1>2, <1>3, <2>3 DEF Lives, Numbered
  <2>6. CreatedFirst'
    BY <1>1, <2>1, <2>2 DEF Lives, CreatedFirst, Extends
  <2>7. DestroyedLast'
    BY <1>1, <2>3, <2>4 DEF Lives, DestroyedLast
  <2>8. GoneIsEmpty'
    BY <1>1 DEF Lives, GoneIsEmpty
  <2> QED
    BY <2>2, <2>5, <2>6, <2>7, <2>8 DEF Lives
<1> QED
  BY <1>2, <1>4, <1>5


\* The page does not have the source, and the fetch goes on or ends.
LEMMA FetchKeepsCurrent ==
  ASSUME MInv, m_id # 0, mediaPlayers[m_id].source # loaded,
         UNCHANGED <<m_id, m_readyState, m_paused, toEngine, mediaPlayers, loaded>>,
         failed \subseteq failed', OnTheirWay', m_networkState' \in Failures => loaded \in failed'
  PROVE  Current'
<1>1. /\ loaded >= 1 /\ mediaPlayers[m_id].source <= loaded
      /\ NotThereYet /\ ErrorsAreTrue /\ (m_readyState = HaveNothing => m_paused)
  BY DEF MInv, Current
<1>2. NotThereYet' /\ WithoutData' /\ WithData'
  BY <1>1 DEF NotThereYet, WithoutData, WithData
<1>3. ErrorsAreTrue'
  BY <1>1 DEF ErrorsAreTrue
<1> QED
  BY <1>1, <1>2, <1>3 DEF Current

LEMMA FetchKeepsMInv ==
  ASSUME MInv, FetchProceeds
  PROVE  MInv'
<1>1. /\ UNCHANGED <<m_id, playerRegistry, m_readyState, m_paused, m_ended, m_seeking, toEngine,
                     mediaPlayers, nextID, loaded, urls, mediaCalls>>
      /\ m_resource # "none"
  BY DEF FetchProceeds, ResponseReceived, LoadFailed, LoadFinished, FetchStep
<1>2. MediaTypeOK /\ Lives /\ UrlsCounted /\ Fetching /\ Current
  BY DEF MInv
<1>3. m_id # 0 /\ m_networkState = "Loading" /\ mediaPlayers[m_id].source # loaded
  BY <1>1, <1>2 DEF Fetching
<1>4. /\ OnTheirWay /\ \A i \in DOMAIN toPage : ~(toPage[i].id = m_id /\ toPage[i].op = "bytes")
      /\ m_id \in Ids /\ loaded \in Loads /\ loaded \in Nat /\ loaded >= loaded
      /\ toPage \in Seq(PageMessages)
  BY <1>1, <1>2, <1>3, MediaTypes DEF Current, OnTheirWay, MediaTypeOK
<1>5. ASSUME /\ m_networkState' \in {"Loading", "NetworkError"}
             /\ m_httpFailed' \in BOOLEAN /\ m_resource' \in {"none", "receiving"}
             /\ failed' = failed \/ failed' = failed \cup {loaded}
             /\ m_httpFailed' => loaded \in failed'
             /\ m_resource' # "none" => m_networkState' = "Loading"
             /\ m_networkState' \in Failures => loaded \in failed'
             /\ \/ toPage' = toPage
                \/ /\ m_networkState' = "Loading" /\ m_resource' = "none"
                   /\ toPage' = Append(toPage, Message(m_id, "bytes", loaded))
      PROVE  MInv'
  <2>1. Message(m_id, "bytes", loaded) \in PageMessages
        /\ Message(m_id, "bytes", loaded).id = m_id
        /\ Message(m_id, "bytes", loaded).op = "bytes"
        /\ Message(m_id, "bytes", loaded).source = loaded
    BY <1>4 DEF Message, PageMessages
  <2> DEFINE m == Message(m_id, "bytes", loaded)
  <2> HIDE DEF m
  <2>2. \/ toPage' = toPage
        \/ \E x \in PageMessages : x.id = m_id /\ x.op # "create" /\ toPage' = Append(toPage, x)
    BY <1>5, <2>1
  <2>3. Lives' /\ toPage' \in Seq(PageMessages)
    BY <1>1, <1>3, <1>4, <2>2, EngineSideLives
  <2>4. MediaTypeOK'
    BY <1>1, <1>2, <1>4, <1>5, <2>3 DEF MediaTypeOK, PageMessages, Failures
  <2>5. Fetching' /\ UrlsCounted'
    BY <1>1, <1>2, <1>3, <1>5 DEF Fetching, UrlsCounted, WithUrl
  <2>6. OnTheirWay'
    <3>1. CASE toPage' = toPage
      BY <1>1, <1>4, <3>1 DEF OnTheirWay
    <3>2. CASE /\ m_networkState' = "Loading" /\ m_resource' = "none"
               /\ toPage' = Append(toPage, m)
      <4>1. m \in PageMessages /\ m.id = m_id /\ m.op = "bytes" /\ m.source = loaded
        BY <2>1 DEF m
      <4>2. /\ Extends(toPage', toPage, m_id)
            /\ \E k \in DOMAIN toPage' :
                 toPage'[k] = m /\ \A i \in DOMAIN toPage' : i \in DOMAIN toPage \/ i = k
        BY <1>4, <3>2, <4>1, ExtendsByOne
      <4>3. \A i \in DOMAIN toPage : toPage'[i] = toPage[i]
        BY <4>2 DEF Extends
      <4> QED
        BY <1>1, <1>3, <1>4, <3>2, <4>1, <4>2, <4>3 DEF OnTheirWay
    <3> QED
      BY <1>5, <3>1, <3>2 DEF m
  <2>7. Current'
    BY <1>1, <1>3, <1>5, <2>6, FetchKeepsCurrent
  <2> QED
    BY <2>3, <2>4, <2>5, <2>7 DEF MInv
<1>6. "Loading" \notin Failures /\ m_httpFailed \in BOOLEAN /\ (m_httpFailed => loaded \in failed)
  BY <1>2 DEF Failures, MediaTypeOK, Fetching
<1>7. CASE ResponseReceived
  <2>1. /\ m_resource' = "receiving" /\ m_networkState' = m_networkState /\ toPage' = toPage
        /\ \/ m_httpFailed' = m_httpFailed /\ failed' = failed
           \/ m_httpFailed' = TRUE /\ failed' = failed \cup {loaded}
    BY <1>7 DEF ResponseReceived
  <2>2. /\ m_networkState' = "Loading" /\ m_networkState' \notin Failures
        /\ m_networkState' \in {"Loading", "NetworkError"} /\ m_resource' \in {"none", "receiving"}
    BY <1>3, <1>6, <2>1
  <2>3. /\ m_httpFailed' \in BOOLEAN /\ (failed' = failed \/ failed' = failed \cup {loaded})
        /\ m_httpFailed' => loaded \in failed'
    <3>1. CASE m_httpFailed' = m_httpFailed /\ failed' = failed
      BY <1>6, <3>1
    <3>2. CASE m_httpFailed' = TRUE /\ failed' = failed \cup {loaded}
      BY <3>2
    <3> QED
      BY <2>1, <3>1, <3>2
  <2> QED
    BY <1>5, <2>1, <2>2, <2>3
<1>8. CASE LoadFailed
  BY <1>3, <1>5, <1>6, <1>8 DEF LoadFailed
<1>9. CASE LoadFinished
  BY <1>3, <1>5, <1>6, <1>9 DEF LoadFinished
<1> QED
  BY <1>7, <1>8, <1>9 DEF FetchProceeds

LEMMA ControlKeepsMInv ==
  ASSUME MInv, Play \/ Pause \/ Seek
  PROVE  MInv'
<1>1. MediaTypeOK /\ Lives /\ UrlsCounted /\ Fetching /\ Current
  BY DEF MInv
<1>2. PICK op \in {"play", "pause", "seek"} : Control(op) /\ m_readyState # HaveNothing
  <2>1. m_readyState \in {0, 1, 3, 4}
    BY <1>1, MediaTypes
  <2>2. CASE Play
    BY <2>1, <2>2, ElementKinds DEF Play
  <2>3. CASE Pause
    BY <1>1, <2>3 DEF Pause, Current, Control
  <2>4. CASE Seek
    BY <2>1, <2>4, ElementKinds DEF Seek
  <2> QED
    BY <2>2, <2>3, <2>4
<1>3. /\ m_id # 0 /\ mediaCalls < MaxMediaCalls /\ mediaCalls' = mediaCalls + 1
      /\ toPage' = Append(toPage, Message(m_id, op, loaded))
      /\ UNCHANGED <<m_id, playerRegistry, m_networkState, m_readyState, m_httpFailed, m_resource,
                     toEngine, mediaPlayers, nextID, loaded, failed, urls>>
  BY <1>2 DEF Control
<1>4. m_paused' \in BOOLEAN /\ m_ended' \in BOOLEAN /\ m_seeking' \in BOOLEAN
  BY <1>1 DEF MediaTypeOK, Play, Pause, Seek
<1>5. /\ toPage \in Seq(PageMessages) /\ m_id \in Ids /\ loaded \in Loads
      /\ loaded \in Nat /\ loaded >= loaded
  BY <1>1, <1>3, MediaTypes DEF MediaTypeOK
<1> DEFINE m == Message(m_id, op, loaded)
<1>6. m \in PageMessages /\ m.id = m_id /\ m.op = op /\ m.op # "create"
  BY <1>5 DEF Message, PageMessages
<1> HIDE DEF m
<1>7. toPage' = Append(toPage, m)
  BY <1>3 DEF m
<1>8. Lives' /\ toPage' \in Seq(PageMessages)
  BY <1>3, <1>5, <1>6, <1>7, EngineSideLives
<1>9. MediaTypeOK'
  <2>1. mediaCalls' \in 0..MaxMediaCalls
    BY <1>1, <1>3, MediaAssumption DEF MediaTypeOK
  <2> QED
    BY <1>1, <1>3, <1>4, <1>8, <2>1 DEF MediaTypeOK, PageMessages
<1>10. Fetching' /\ UrlsCounted'
  BY <1>1, <1>3 DEF Fetching, UrlsCounted, WithUrl
<1>11. /\ loaded >= 1 /\ mediaPlayers[m_id].source <= loaded
       /\ OnTheirWay /\ NotThereYet /\ WithoutData /\ WithData /\ ErrorsAreTrue
  BY <1>1, <1>3 DEF Current
<1>12. OnTheirWay'
  <2>1. /\ \A i \in DOMAIN toPage' : i \in DOMAIN toPage \/ toPage'[i] = m
        /\ \A i \in DOMAIN toPage : toPage'[i] = toPage[i]
    BY <1>5, <1>6, <1>7, ExtendsByOne DEF Extends
  <2> QED
    BY <1>2, <1>3, <1>6, <1>11, <2>1 DEF OnTheirWay
<1>13. NotThereYet' /\ WithoutData' /\ WithData' /\ ErrorsAreTrue'
  BY <1>3, <1>11 DEF NotThereYet, WithoutData, WithData, ErrorsAreTrue
<1>14. Current'
  BY <1>2, <1>3, <1>11, <1>12, <1>13 DEF Current
<1> QED
  BY <1>8, <1>9, <1>10, <1>14 DEF MInv

\* A load takes the next number; the player forgets the old source.
LEMMA LoadSourceFacts ==
  ASSUME MediaTypeOK, LoadSource
  PROVE  /\ loaded \in Nat /\ loaded' \in Nat /\ loaded' = loaded + 1 /\ loaded' \in Loads
         /\ m_readyState' = HaveNothing /\ m_paused' = TRUE /\ m_ended' = FALSE
         /\ m_seeking' = FALSE /\ m_httpFailed' = FALSE
         /\ m_networkState' \in {"Loading", "FormatError", "NetworkError"}
         /\ m_resource' \in {"none", "started"}
         /\ m_resource' # "none" => m_networkState' = "Loading"
         /\ m_networkState' \in Failures => loaded' \in failed'
         /\ failed' \subseteq Loads
<1>1. loaded \in Nat /\ loaded' = loaded + 1 /\ loaded' \in Loads
  BY MediaAssumption DEF LoadSource, MediaTypeOK, Loads
<1>2. failed \subseteq Loads
  BY DEF MediaTypeOK
<1>3. CASE Reset("Loading") /\ m_resource' = "started" /\ UNCHANGED failed
  BY <1>1, <1>2, <1>3 DEF Reset, ClearedHttpFailed, Failures
<1>4. CASE \E state \in {"FormatError", "NetworkError"} :
             Reset(state) /\ m_resource' = "none" /\ failed' = failed \cup {loaded'}
  <2>1. PICK state \in {"FormatError", "NetworkError"} :
          Reset(state) /\ m_resource' = "none" /\ failed' = failed \cup {loaded'}
    BY <1>4
  <2>2. loaded' \in failed' /\ failed' \subseteq Loads
    BY <1>1, <1>2, <2>1
  <2> QED
    BY <1>1, <2>1, <2>2 DEF Reset, ClearedHttpFailed, Failures
<1> QED
  BY <1>3, <1>4 DEF LoadSource

\* The next candidate is loaded into an element that plays nothing and is told nothing.
LEMMA NextCandidateKeepsMInv ==
  ASSUME MInv, NextCandidate
  PROVE  MInv'
<1>1. MediaTypeOK /\ Lives /\ UrlsCounted /\ Current
  BY DEF MInv
<1>2. /\ m_id # 0 /\ m_networkState \in Failures /\ m_readyState = HaveNothing /\ LoadSource
      /\ UNCHANGED <<m_id, playerRegistry, nextID, toPage, toEngine, mediaPlayers, urls, mediaCalls>>
  BY DEF NextCandidate
<1>3. /\ loaded \in Nat /\ loaded' \in Nat /\ loaded' = loaded + 1 /\ loaded' \in Loads
      /\ m_readyState' = HaveNothing /\ m_paused' = TRUE /\ m_ended' = FALSE
      /\ m_seeking' = FALSE /\ m_httpFailed' = FALSE
      /\ m_networkState' \in {"Loading", "FormatError", "NetworkError"}
      /\ m_resource' \in {"none", "started"}
      /\ m_resource' # "none" => m_networkState' = "Loading"
      /\ m_networkState' \in Failures => loaded' \in failed'
      /\ failed' \subseteq Loads
  BY <1>1, <1>2, LoadSourceFacts
<1>4. /\ mediaPlayers \in [Ids -> Elements] /\ m_id \in Ids /\ mediaPlayers[m_id].source \in Nat
      /\ mediaPlayers[m_id].level \in 0..4
      /\ \A i \in DOMAIN toEngine : toEngine[i] \in EngineMessages
      /\ m_networkState # "Loading"
  <2>1. Loads \subseteq Nat
    BY MediaAssumption DEF Loads
  <2> QED
    BY <1>1, <1>2, <2>1, MediaTypes DEF Elements, Failures
<1>5. /\ mediaPlayers[m_id].source <= loaded /\ OnTheirWay
      /\ NotThereYet /\ WithoutData /\ WithData
  BY <1>1, <1>2 DEF Current
<1>6. /\ mediaPlayers[m_id].at # "loading" /\ ~mediaPlayers[m_id].playing
      /\ ~mediaPlayers[m_id].seeking /\ NoneFor(toEngine, m_id)
  <2>1. mediaPlayers[m_id].source = loaded => mediaPlayers[m_id].level = HaveNothing
    BY <1>2, <1>4, <1>5 DEF WithData
  <2>2. CASE mediaPlayers[m_id].source # loaded
    BY <1>5, <2>2 DEF NotThereYet
  <2>3. CASE mediaPlayers[m_id].source = loaded
    BY <1>4, <1>5, <2>1, <2>3 DEF WithoutData
  <2> QED
    BY <2>2, <2>3
<1>7. mediaPlayers'[m_id].source # loaded' /\ mediaPlayers'[m_id].source <= loaded' /\ loaded' >= 1
  BY <1>2, <1>3, <1>4, <1>5
<1>8. Lives'
  <2>1. loaded' >= loaded
    BY <1>3
  <2> QED
    BY <1>2, <1>3, <2>1, EngineSideLives
<1>9. MediaTypeOK'
  BY <1>1, <1>2, <1>3 DEF MediaTypeOK, Failures
<1>10. Fetching' /\ UrlsCounted'
  BY <1>1, <1>2, <1>3, <1>7 DEF Fetching, UrlsCounted, WithUrl
<1>11. OnTheirWay'
  BY <1>2, <1>4, <1>5 DEF OnTheirWay
<1>12. NotThereYet' /\ WithoutData' /\ WithData'
  BY <1>2, <1>3, <1>6, <1>7 DEF NotThereYet, WithoutData, WithData
<1>13. ErrorsAreTrue'
  BY <1>2, <1>3, <1>6 DEF ErrorsAreTrue, NoneFor
<1>14. Current'
  BY <1>2, <1>3, <1>7, <1>11, <1>12, <1>13 DEF Current
<1> QED
  BY <1>8, <1>9, <1>10, <1>14 DEF MInv

\* Messages about one player change nothing for another.
LEMMA OthersSent ==
  ASSUME NEW new, NEW old, NEW id, NEW other, id # other, Extends(new, old, other)
  PROVE  /\ NoneFor(old, id) => NoneFor(new, id)
         /\ DestroyIsLast(old, id) => DestroyIsLast(new, id)
<1>1. NoneFor(old, id) => NoneFor(new, id)
  BY DEF NoneFor, Extends
<1>2. DestroyIsLast(old, id) => DestroyIsLast(new, id)
  BY DEF DestroyIsLast, Extends
<1> QED
  BY <1>1, <1>2

\* A player is cancelled and destroyed.
LEMMA Departs ==
  ASSUME NEW q \in Seq(PageMessages), NEW id \in Ids, NEW r,
         r = q \o <<Message(id, "unload", 0), Message(id, "destroy", 0)>>
  PROVE  /\ r \in Seq(PageMessages) /\ Extends(r, q, id) /\ DestroyIsLast(r, id)
         /\ \A i \in DOMAIN r : i \in DOMAIN q \/ r[i].op # "create"
<1> DEFINE u == Message(id, "unload", 0)
           d == Message(id, "destroy", 0)
<1>1. /\ u \in PageMessages /\ u.id = id /\ u.op = "unload"
      /\ d \in PageMessages /\ d.id = id /\ d.op = "destroy"
  BY MediaAssumption DEF Message, PageMessages, Loads
<1>2. r = q \o <<u, d>>
  OBVIOUS
<1> HIDE DEF u, d
<1>3. r = Append(Append(q, u), d)
  BY <1>1, <1>2
<1> DEFINE p == Append(q, u)
<1>4. /\ p \in Seq(PageMessages) /\ Extends(p, q, id)
      /\ \A i \in DOMAIN p : i \in DOMAIN q \/ p[i] = u
  BY <1>1, ExtendsByOne
<1>5. r = Append(p, d)
  BY <1>3
<1> HIDE DEF p
<1>6. /\ r \in Seq(PageMessages) /\ Extends(r, p, id)
      /\ \A i \in DOMAIN r : i \in DOMAIN p \/ r[i] = d
      /\ \E k \in DOMAIN r : r[k] = d /\ \A i \in DOMAIN r : i <= k
  <2>1. /\ Append(p, d) \in Seq(PageMessages) /\ Extends(Append(p, d), p, d.id)
        /\ \A i \in DOMAIN Append(p, d) : i \in DOMAIN p \/ Append(p, d)[i] = d
        /\ \E k \in DOMAIN Append(p, d) :
             Append(p, d)[k] = d /\ \A i \in DOMAIN Append(p, d) : i <= k
    BY <1>1, <1>4, ExtendsByOne
  <2> QED
    BY <1>1, <1>5, <2>1
<1>7. Extends(r, q, id)
  BY <1>4, <1>6, ExtendsTwice
<1>8. \A i \in DOMAIN r : i \in DOMAIN q \/ r[i].op # "create"
  BY <1>1, <1>4, <1>6 DEF Extends
<1>9. DestroyIsLast(r, id)
  <2>1. PICK k \in DOMAIN r : r[k] = d /\ \A i \in DOMAIN r : i <= k
    BY <1>6
  <2>2. DOMAIN r = 1..Len(r) /\ Len(r) \in Nat
    BY <1>6, LenProperties
  <2>3. \A j \in DOMAIN r : ~(k < j)
    BY <2>1, <2>2
  <2> QED
    BY <1>1, <2>1, <2>3 DEF DestroyIsLast
<1> QED
  BY <1>6, <1>7, <1>8, <1>9

\* The element goes away.
LEMMA DestroyKeepsMInv ==
  ASSUME MInv, Destroy
  PROVE  MInv'
<1>1. MediaTypeOK /\ Lives /\ UrlsCounted
  BY DEF MInv
<1>2. /\ m_id # 0 /\ m_id' = 0 /\ playerRegistry' = playerRegistry \ {m_id}
      /\ toPage' = toPage \o <<Message(m_id, "unload", 0), Message(m_id, "destroy", 0)>>
      /\ m_networkState' = "Empty" /\ m_readyState' = HaveNothing /\ m_paused' = TRUE
      /\ m_ended' = FALSE /\ m_seeking' = FALSE /\ m_httpFailed' = FALSE /\ m_resource' = "none"
      /\ UNCHANGED <<toEngine, mediaPlayers, nextID, loaded, failed, urls, mediaCalls>>
  BY DEF Destroy, Unregistered, Reset, ClearedHttpFailed
<1>3. /\ toPage \in Seq(PageMessages) /\ m_id \in Ids /\ nextID \in Nat /\ m_id \in Nat
      /\ Ids \subseteq Nat /\ m_id <= nextID /\ nextID <= loaded /\ playerRegistry = {m_id}
  BY <1>1, <1>2, MediaTypes DEF Lives, Numbered
<1>4. /\ toPage' \in Seq(PageMessages) /\ Extends(toPage', toPage, m_id)
      /\ DestroyIsLast(toPage', m_id)
      /\ \A i \in DOMAIN toPage' : i \in DOMAIN toPage \/ toPage'[i].op # "create"
  BY <1>2, <1>3, Departs
<1>5. /\ \A id \in Ids : id # m_id /\ NoneFor(toPage, id) => NoneFor(toPage', id)
      /\ \A id \in Ids : id # m_id /\ DestroyIsLast(toPage, id) => DestroyIsLast(toPage', id)
  BY <1>4, OthersSent
<1>6. Numbered'
  <2>1. playerRegistry' = {} /\ 0 <= nextID
    BY <1>2, <1>3
  <2>2. \A id \in Ids : id > nextID => id # m_id
    BY <1>3
  <2> QED
    BY <1>1, <1>2, <1>3, <1>5, <2>1, <2>2 DEF Lives, Numbered
<1>7. CreatedFirst'
  BY <1>1, <1>2, <1>4 DEF Lives, CreatedFirst, Extends
<1>8. DestroyedLast' /\ GoneIsEmpty'
  BY <1>1, <1>2, <1>4, <1>5 DEF Lives, DestroyedLast, GoneIsEmpty
<1>9. MediaTypeOK'
  <2>1. 0 \in 0..MaxPlayers
    BY MediaAssumption
  <2>2. playerRegistry' \subseteq Ids
    BY <1>2, <1>3
  <2> QED
    BY <1>1, <1>2, <1>4, <2>1, <2>2, ElementKinds DEF MediaTypeOK, PageMessages
<1>10. Fetching' /\ UrlsCounted' /\ Current'
  BY <1>1, <1>2 DEF Fetching, UrlsCounted, WithUrl, Current
<1> QED
  BY <1>6, <1>7, <1>8, <1>9, <1>10 DEF MInv, Lives

\* A guest element gets a source: the player it had departs, and the next is created.
LEMMA SourceIsSent ==
  ASSUME MediaTypeOK, NEW new \in Ids, m_id = 0 \/ m_id < new,
         toPage' = toPage
                     \o (IF m_id = 0 THEN <<>>
                         ELSE <<Message(m_id, "unload", 0), Message(m_id, "destroy", 0)>>)
                     \o <<Message(new, "create", 0)>>
  PROVE  \E r \in Seq(PageMessages) :
           /\ IF m_id = 0 THEN r = toPage
              ELSE Extends(r, toPage, m_id) /\ DestroyIsLast(r, m_id)
           /\ \A i \in DOMAIN r : i \in DOMAIN toPage \/ r[i].op # "create"
           /\ toPage' \in Seq(PageMessages) /\ Extends(toPage', r, new)
           /\ \A j \in DOMAIN toPage' :
                j \in DOMAIN r \/ (toPage'[j].id = new /\ toPage'[j].op = "create")
           /\ \A i, j \in DOMAIN toPage' : i \in DOMAIN r \/ j <= i
<1> DEFINE away == IF m_id = 0 THEN <<>>
                   ELSE <<Message(m_id, "unload", 0), Message(m_id, "destroy", 0)>>
           r == toPage \o away
           c == Message(new, "create", 0)
<1>1. toPage \in Seq(PageMessages) /\ m_id \in Ids \cup {0}
  BY MediaTypes
<1>2. c \in PageMessages /\ c.id = new /\ c.op = "create"
  BY MediaAssumption DEF Message, PageMessages, Loads
<1>3. /\ r \in Seq(PageMessages)
      /\ IF m_id = 0 THEN r = toPage
         ELSE Extends(r, toPage, m_id) /\ DestroyIsLast(r, m_id)
      /\ \A i \in DOMAIN r : i \in DOMAIN toPage \/ r[i].op # "create"
  <2>1. CASE m_id = 0
    <3>1. r = toPage
      <4>1. toPage \o <<>> = toPage
        BY <1>1
      <4> QED
        BY <2>1, <4>1
    <3> QED
      BY <1>1, <2>1, <3>1
  <2>2. CASE m_id # 0
    <3>1. m_id \in Ids /\ r = toPage \o <<Message(m_id, "unload", 0), Message(m_id, "destroy", 0)>>
      BY <1>1, <2>2
    <3> HIDE DEF r
    <3> QED
      BY <1>1, <2>2, <3>1, Departs
  <2> QED
    BY <2>1, <2>2
<1>4. toPage' = r \o <<c>>
  OBVIOUS
<1> HIDE DEF r, c
<1>5. toPage' = Append(r, c)
  <2>1. r \in Seq(PageMessages) /\ c \in PageMessages
    BY <1>2, <1>3
  <2>2. r \o <<c>> = Append(r, c)
    BY <2>1
  <2> QED
    BY <1>4, <2>2
<1>6. /\ Append(r, c) \in Seq(PageMessages) /\ Extends(Append(r, c), r, c.id)
      /\ \A j \in DOMAIN Append(r, c) : j \in DOMAIN r \/ Append(r, c)[j] = c
      /\ \E j \in DOMAIN Append(r, c) :
           /\ \A i \in DOMAIN Append(r, c) : i <= j
           /\ \A i \in DOMAIN Append(r, c) : i \in DOMAIN r \/ i = j
  BY <1>2, <1>3, ExtendsByOne
<1>7. \A i, j \in DOMAIN toPage' : i \in DOMAIN r \/ j <= i
  BY <1>5, <1>6
<1>8. /\ toPage' \in Seq(PageMessages) /\ Extends(toPage', r, new)
      /\ \A j \in DOMAIN toPage' :
           j \in DOMAIN r \/ (toPage'[j].id = new /\ toPage'[j].op = "create")
  BY <1>2, <1>5, <1>6
<1> QED
  BY <1>3, <1>7, <1>8

LEMMA SetSourceKeepsMInv ==
  ASSUME MInv, SetSource
  PROVE  MInv'
<1>1. MediaTypeOK /\ Lives /\ UrlsCounted
  BY DEF MInv
<1>2. /\ nextID < MaxPlayers /\ nextID' = nextID + 1 /\ m_id' = nextID'
      /\ playerRegistry' = (IF m_id = 0 THEN playerRegistry ELSE playerRegistry \ {m_id})
                             \cup {nextID'}
      /\ toPage' = toPage
                     \o (IF m_id = 0 THEN <<>>
                         ELSE <<Message(m_id, "unload", 0), Message(m_id, "destroy", 0)>>)
                     \o <<Message(nextID', "create", 0)>>
      /\ LoadSource
      /\ UNCHANGED <<toEngine, mediaPlayers, urls, mediaCalls>>
  BY DEF SetSource, Unregistered
<1>3. /\ loaded \in Nat /\ loaded' \in Nat /\ loaded' = loaded + 1 /\ loaded' \in Loads
      /\ m_readyState' = HaveNothing /\ m_paused' = TRUE /\ m_ended' = FALSE
      /\ m_seeking' = FALSE /\ m_httpFailed' = FALSE
      /\ m_networkState' \in {"Loading", "FormatError", "NetworkError"}
      /\ m_resource' \in {"none", "started"}
      /\ m_resource' # "none" => m_networkState' = "Loading"
      /\ m_networkState' \in Failures => loaded' \in failed'
      /\ failed' \subseteq Loads
  BY <1>1, <1>2, LoadSourceFacts
<1> DEFINE new == nextID'
<1>4. /\ new \in Nat /\ new \in Ids /\ new # 0 /\ new = nextID + 1 /\ new > nextID
      /\ new <= loaded' /\ new # m_id /\ (m_id = 0 \/ m_id < new)
      /\ new \in 0..MaxPlayers /\ nextID \in Nat /\ m_id \in Nat /\ m_id \in Ids \cup {0}
      /\ Ids \subseteq Nat /\ m_id <= nextID
  <2>1. /\ nextID \in Nat /\ loaded \in Nat /\ m_id \in Nat /\ MaxPlayers \in Nat
        /\ m_id <= nextID /\ nextID <= loaded
    BY <1>1, MediaAssumption, MediaTypes DEF Lives, Numbered
  <2>2. m_id \in Ids \cup {0} /\ Ids \subseteq Nat
    BY <1>1, MediaTypes
  <2> QED
    BY <1>2, <1>3, <2>1, <2>2 DEF Ids
<1>5. /\ m_id' = new /\ nextID' = new
      /\ toPage' = toPage
                     \o (IF m_id = 0 THEN <<>>
                         ELSE <<Message(m_id, "unload", 0), Message(m_id, "destroy", 0)>>)
                     \o <<Message(new, "create", 0)>>
  BY <1>2
<1>6. playerRegistry' = {new}
  BY <1>1, <1>2 DEF Lives, Numbered
<1> HIDE DEF new
<1>7. PICK r \in Seq(PageMessages) :
           /\ IF m_id = 0 THEN r = toPage
              ELSE Extends(r, toPage, m_id) /\ DestroyIsLast(r, m_id)
           /\ \A i \in DOMAIN r : i \in DOMAIN toPage \/ r[i].op # "create"
           /\ toPage' \in Seq(PageMessages) /\ Extends(toPage', r, new)
           /\ \A j \in DOMAIN toPage' :
                j \in DOMAIN r \/ (toPage'[j].id = new /\ toPage'[j].op = "create")
           /\ \A i, j \in DOMAIN toPage' : i \in DOMAIN r \/ j <= i
  BY <1>1, <1>4, <1>5, SourceIsSent
<1>8. /\ mediaPlayers[new].at = "gone" /\ NoneFor(toPage, new) /\ NoneFor(toEngine, new)
      /\ mediaPlayers[new].source = 0 /\ ~mediaPlayers[new].playing /\ ~mediaPlayers[new].seeking
  BY <1>1, <1>4 DEF Lives, Numbered, GoneIsEmpty
<1>9. NoneFor(r, new)
  <2>1. CASE m_id = 0
    BY <1>7, <1>8, <2>1
  <2>2. CASE m_id # 0
    BY <1>4, <1>7, <1>8, <2>2, OthersSent
  <2> QED
    BY <2>1, <2>2
<1>10. \A id \in Ids : id # m_id =>
         /\ NoneFor(toPage, id) => NoneFor(r, id)
         /\ DestroyIsLast(toPage, id) => DestroyIsLast(r, id)
  <2>1. CASE m_id = 0
    BY <1>7, <2>1
  <2>2. CASE m_id # 0
    BY <1>7, <2>2, OthersSent
  <2> QED
    BY <2>1, <2>2
<1>11. \A id \in Ids : id # new =>
         /\ NoneFor(r, id) => NoneFor(toPage', id)
         /\ DestroyIsLast(r, id) => DestroyIsLast(toPage', id)
  BY <1>7, OthersSent
<1>12. Numbered'
  <2>1. \A id \in Ids : id > new => id > nextID /\ id # new /\ id # m_id
    BY <1>4
  <2>2. \A id \in Ids : id > new =>
          mediaPlayers[id].at = "gone" /\ NoneFor(toPage', id) /\ NoneFor(toEngine, id)
    BY <1>1, <1>10, <1>11, <2>1 DEF Lives, Numbered
  <2>3. new <= new /\ new <= loaded'
    BY <1>4
  <2> QED
    BY <1>2, <1>4, <1>5, <1>6, <2>2, <2>3 DEF Numbered
<1>13. CreatedFirst'
  <2>1. ASSUME NEW i \in DOMAIN toPage', NEW j \in DOMAIN toPage', toPage'[i].op = "create"
        PROVE  /\ mediaPlayers[toPage'[i].id].at = "gone"
               /\ toPage'[j].id = toPage'[i].id => i <= j
    <3>1. CASE i \in DOMAIN r
      <4>1. /\ i \in DOMAIN toPage /\ r[i] = toPage'[i] /\ r[i] = toPage[i]
            /\ toPage[i].op = "create"
        BY <1>7, <2>1, <3>1 DEF Extends
      <4>2. mediaPlayers[toPage[i].id].at = "gone"
        BY <1>1, <4>1 DEF Lives, CreatedFirst
      <4>3. CASE j \in DOMAIN toPage
        <5>1. toPage'[j] = toPage[j]
          BY <1>7, <4>3 DEF Extends
        <5> QED
          BY <1>1, <4>1, <4>2, <4>3, <5>1 DEF Lives, CreatedFirst
      <4>4. CASE j \notin DOMAIN toPage
        <5>1. i <= j
          <6>1. CASE j \in DOMAIN r
            BY <1>7, <4>1, <4>4, <6>1 DEF Extends
          <6>2. CASE j \notin DOMAIN r
            BY <1>7, <3>1, <6>2 DEF Extends
          <6> QED
            BY <6>1, <6>2
        <5> QED
          BY <4>1, <4>2, <5>1
      <4> QED
        BY <4>3, <4>4
    <3>2. CASE i \notin DOMAIN r
      <4>1. toPage'[i].id = new
        BY <1>7, <2>1, <3>2
      <4>2. toPage'[j].id = new => j \notin DOMAIN r
        BY <1>7, <1>9 DEF NoneFor, Extends
      <4>3. toPage'[j].id = new => i <= j
        BY <1>7, <4>2
      <4> QED
        BY <1>8, <4>1, <4>3
    <3> QED
      BY <3>1, <3>2
  <2>2. mediaPlayers' = mediaPlayers
    BY <1>2
  <2> QED
    BY <2>1, <2>2 DEF CreatedFirst
<1>14. DestroyedLast'
  <2>1. ASSUME NEW id \in Ids, id # new
        PROVE  (mediaPlayers[id].at = "gone" /\ NoneFor(toPage', id)) \/ DestroyIsLast(toPage', id)
    <3>1. CASE id = m_id
      <4>1. m_id # 0
        BY <3>1, MediaAssumption DEF Ids
      <4> QED
        BY <1>7, <1>11, <2>1, <3>1, <4>1
    <3>2. CASE id # m_id
      BY <1>1, <1>10, <1>11, <2>1, <3>2 DEF Lives, DestroyedLast
    <3> QED
      BY <3>1, <3>2
  <2> QED
    BY <1>2, <1>5, <2>1 DEF DestroyedLast
<1>15. GoneIsEmpty'
  BY <1>1, <1>2 DEF Lives, GoneIsEmpty
<1>16. MediaTypeOK'
  BY <1>1, <1>2, <1>3, <1>4, <1>5, <1>6, <1>7 DEF MediaTypeOK, Failures, PageMessages
<1>17. 0 # loaded' /\ 0 <= loaded' /\ loaded' >= 1
  BY <1>3
<1>18. mediaPlayers'[m_id'].source = 0 /\ mediaPlayers'[m_id'].at = "gone" /\ m_id' # 0
       /\ ~mediaPlayers'[m_id'].playing /\ ~mediaPlayers'[m_id'].seeking
       /\ NoneFor(toEngine', m_id')
  BY <1>2, <1>4, <1>5, <1>8
<1>19. Fetching' /\ UrlsCounted'
  BY <1>1, <1>2, <1>3, <1>17, <1>18 DEF Fetching, UrlsCounted, WithUrl
<1>20. OnTheirWay'
  <2>1. \A i \in DOMAIN toPage' : toPage'[i].id = new => toPage'[i].op = "create"
    BY <1>7, <1>9 DEF NoneFor, Extends
  <2> QED
    BY <1>5, <2>1 DEF OnTheirWay
<1>21. NotThereYet' /\ WithoutData' /\ WithData'
  BY <1>3, <1>17, <1>18 DEF NotThereYet, WithoutData, WithData
<1>22. ErrorsAreTrue'
  BY <1>3, <1>18 DEF ErrorsAreTrue, NoneFor
<1>23. Current'
  BY <1>3, <1>17, <1>18, <1>20, <1>21, <1>22 DEF Current
<1> QED
  BY <1>12, <1>13, <1>14, <1>15, <1>16, <1>19, <1>23 DEF MInv, Lives

LEMMA MediaCallKeepsMInv ==
  ASSUME MInv, MediaCall
  PROVE  MInv'
<1>1. CASE SetSource
  BY <1>1, SetSourceKeepsMInv
<1>2. CASE NextCandidate
  BY <1>2, NextCandidateKeepsMInv
<1>3. CASE Destroy
  BY <1>3, DestroyKeepsMInv
<1>4. CASE Play \/ Pause \/ Seek
  BY <1>4, ControlKeepsMInv
<1> QED
  BY <1>1, <1>2, <1>3, <1>4 DEF MediaCall

LEMMA MediaStepKeepsMInv ==
  ASSUME MInv, MediaStep
  PROVE  MInv'
<1>1. CASE FetchProceeds
  BY <1>1, FetchKeepsMInv
<1>2. CASE PageMessage
  BY <1>2, PageMessageKeepsMInv
<1>3. CASE HandleEvent
  BY <1>3, HandleEventKeepsMInv
<1>4. CASE ElementProceeds
  <2>1. PICK id \in Ids : ElementAdvances(id)
    BY <1>4 DEF ElementProceeds
  <2> QED
    BY <2>1, ElementsKeepMInv
<1>5. CASE \E id \in Ids : ElementCanPlayThrough(id) \/ ElementEnds(id) \/ ElementSeeked(id)
  <2>1. PICK id \in Ids : ElementCanPlayThrough(id) \/ ElementEnds(id) \/ ElementSeeked(id)
    BY <1>5
  <2> QED
    BY <2>1, ElementsKeepMInv
<1> QED
  BY <1>1, <1>2, <1>3, <1>4, <1>5 DEF MediaStep

\* What the invariant says of the player is what it was stated for.
LEMMA MInvIsSound ==
  ASSUME MInv
  PROVE  MediaStateSound
<1>1. MediaTypeOK /\ Lives /\ UrlsCounted /\ Current
  BY DEF MInv
<1>2. /\ m_readyState \in {0, 1, 3, 4} /\ mediaPlayers \in [Ids -> Elements]
      /\ m_id \in Ids \cup {0} /\ Ids \subseteq Nat \ {0}
  BY <1>1, IdsFinite, MediaTypes
<1>3. StateIsOfSource
  <2>1. ASSUME m_id # 0
        PROVE  /\ m_readyState # HaveNothing =>
                    mediaPlayers[m_id].source = loaded /\ mediaPlayers[m_id].level >= m_readyState
               /\ m_networkState \in Failures => loaded \in failed
    <3>1. NotThereYet /\ WithoutData /\ WithData /\ ErrorsAreTrue
      BY <1>1, <2>1 DEF Current
    <3>2. mediaPlayers[m_id].level \in 0..4
      BY <1>2, <2>1 DEF Elements
    <3>3. ASSUME m_readyState # HaveNothing
          PROVE  mediaPlayers[m_id].source = loaded /\ mediaPlayers[m_id].level >= m_readyState
      <4>1. mediaPlayers[m_id].source = loaded
        BY <3>1, <3>3 DEF NotThereYet
      <4>2. mediaPlayers[m_id].level # HaveNothing
        BY <3>1, <3>3, <4>1 DEF WithoutData
      <4>3. m_readyState <= mediaPlayers[m_id].level
        BY <3>1, <4>1, <4>2 DEF WithData
      <4> QED
        BY <1>2, <3>2, <4>1, <4>3
    <3> QED
      BY <3>1, <3>3 DEF ErrorsAreTrue
  <2> QED
    BY <2>1 DEF StateIsOfSource
<1>4. UrlsRevoked
  <2>1. ASSUME toPage = <<>>
        PROVE  urls = IF m_id # 0 /\ mediaPlayers[m_id].url THEN 1 ELSE 0
    <3>1. \A id \in Ids : ~DestroyIsLast(toPage, id)
      <4>1. DOMAIN toPage = {}
        BY <2>1
      <4> QED
        BY <4>1 DEF DestroyIsLast
    <3>2. \A id \in Ids : id # m_id => ~mediaPlayers[id].url
      BY <1>1, <3>1 DEF Lives, DestroyedLast, GoneIsEmpty
    <3>3. CASE m_id # 0 /\ mediaPlayers[m_id].url
      <4>1. WithUrl = {m_id}
        BY <1>2, <3>2, <3>3 DEF WithUrl
      <4> QED
        BY <1>1, <3>3, <4>1, FS_Singleton DEF UrlsCounted
    <3>4. CASE ~(m_id # 0 /\ mediaPlayers[m_id].url)
      <4>1. WithUrl = {}
        BY <1>2, <3>2, <3>4 DEF WithUrl
      <4> QED
        BY <1>1, <3>4, <4>1, FS_EmptySet DEF UrlsCounted
    <3> QED
      BY <3>3, <3>4
  <2> QED
    BY <2>1 DEF UrlsRevoked
<1> QED
  BY <1>3, <1>4 DEF MediaStateSound

-----------------------------------------------------------------------------
(* The media test *)

Lines == CanPlay \cup {"playing", "-> blob", "ended"}

Sent(queue, op) == \E i \in DOMAIN queue : queue[i].op = op
OnlyOnce(queue, op) ==
  \A i, j \in DOMAIN queue : queue[i].op = op /\ queue[j].op = op => i = j
Told(queue, code) == \E i \in DOMAIN queue : queue[i].code = code

TestTypes ==
  /\ boot \in {1, 2} /\ parsed \in BOOLEAN /\ wantsPlay \in BOOLEAN
  /\ console \in Seq(Lines)
  /\ phase \in {"boot", "play", "playing", "ended", "witness", "PASS", "FAIL"}
  /\ hostEnded \in BOOLEAN /\ played \in BOOLEAN /\ mediaLate \in BOOLEAN

\* The second boot follows a sound that was played; it only asks.
TestPhases ==
  /\ phase \in {"boot", "play"} => ~wantsPlay
  /\ boot = 2 => played /\ phase \in {"boot", "PASS", "FAIL"} /\ ~wantsPlay
  /\ phase = "PASS" => boot = 2
  /\ phase = "FAIL" => mediaLate
  /\ phase = "witness" => Heard({"ended"})

\* What the console begins with, and whether there is a player.
TestPage ==
  /\ boot = 2 \/ ~parsed => MediaInit
  /\ boot = 1 /\ parsed => m_id = 1 /\ nextID = 1 /\ loaded = 1
  /\ parsed => /\ console # <<>>
               /\ console[1] = IF boot = 1 THEN "canPlayType maybe" ELSE "canPlayType empty"
  /\ ~parsed => console = <<>>

\* An "ended" on the console, or under way to it, was one of the host's element.
EndIsTrue ==
  /\ Heard({"ended"}) => played /\ hostEnded /\ Heard({"-> blob"})
  /\ Told(toEngine, "ended") => hostEnded

Untold == wantsPlay \/ phase \in {"boot", "play"}
Playing == mediaPlayers[m_id].playing
HasSource == mediaPlayers[m_id].source = loaded

\* The element is told to play once, after the guest was, and when it has data.
PlayOnce ==
  /\ OnlyOnce(toPage, "play")
  /\ Untold => ~Sent(toPage, "play")
  /\ Untold \/ Sent(toPage, "play") => ~Playing /\ ~Told(toEngine, "ended")
  /\ Sent(toPage, "play") \/ Playing \/ Told(toEngine, "ended") =>
       HasSource /\ mediaPlayers[m_id].level >= HaveFutureData
  /\ HasSource => Heard({"-> blob"})

\* A source that failed plays nothing, now or later.
FailedIsSilent ==
  loaded \in failed =>
    /\ m_resource # "started" /\ (m_resource = "receiving" => m_httpFailed)
    /\ ~Sent(toPage, "bytes") /\ ~Playing /\ ~Told(toEngine, "ended")
    /\ HasSource /\ mediaPlayers[m_id].at = "loading" => ~Untold /\ ~Sent(toPage, "play")

TInv ==
  /\ TestTypes /\ TestPhases /\ TestPage /\ EndIsTrue
  /\ boot = 1 /\ parsed => PlayOnce /\ FailedIsSilent

-----------------------------------------------------------------------------

LEMMA TInitTInv == MediaInit /\ MediaTestInit => TInv
<1> SUFFICES ASSUME MediaInit, MediaTestInit PROVE TInv
  OBVIOUS
<1>1. /\ boot = 1 /\ parsed = FALSE /\ wantsPlay = FALSE /\ console = <<>> /\ phase = "boot"
      /\ hostEnded = FALSE /\ played = FALSE /\ mediaLate = FALSE
      /\ toEngine = <<>>
  BY DEF MediaInit, MediaTestInit
<1>2. DOMAIN console = {} /\ DOMAIN toEngine = {}
  BY <1>1
<1>3. TestTypes
  BY <1>1, EmptySeq DEF TestTypes
<1>4. TestPhases /\ TestPage
  BY <1>1 DEF TestPhases, TestPage
<1>5. EndIsTrue
  BY <1>2 DEF EndIsTrue, Heard, Told
<1> QED
  BY <1>1, <1>3, <1>4, <1>5 DEF TInv

LEMMA TInvStable ==
  ASSUME TInv, UNCHANGED mediaVars, UNCHANGED mediaTestVars
  PROVE  TInv'
<1>1. UNCHANGED <<m_id, playerRegistry, m_networkState, m_readyState, m_paused, m_ended, m_seeking,
                  m_httpFailed, m_resource, toPage, toEngine, mediaPlayers, nextID, loaded, failed,
                  urls, mediaCalls>>
  BY DEF mediaVars, playerVars
<1>2. UNCHANGED <<boot, parsed, wantsPlay, console, phase, hostEnded, played, mediaLate>>
  BY DEF mediaTestVars
<1>3. TestTypes' /\ TestPhases' /\ EndIsTrue'
  BY <1>1, <1>2 DEF TInv, TestTypes, TestPhases, EndIsTrue, Heard
<1>4. TestPage'
  BY <1>1, <1>2 DEF TInv, TestPage, MediaInit
<1>5. (PlayOnce /\ FailedIsSilent) => (PlayOnce /\ FailedIsSilent)'
  BY <1>1, <1>2 DEF PlayOnce, FailedIsSilent, Untold, Playing, HasSource, Heard
<1> QED
  BY <1>2, <1>3, <1>4, <1>5 DEF TInv

\* A line is logged: the console begins as before.
LEMMA LineIsLogged ==
  ASSUME console \in Seq(Lines), NEW line \in Lines, Logs(line)
  PROVE  /\ console' \in Seq(Lines) /\ console' # <<>>
         /\ console'[1] = IF console = <<>> THEN line ELSE console[1]
         /\ \A kind : Heard(kind)' <=> Heard(kind) \/ line \in kind
<1>1. console' = Append(console, line)
  BY DEF Logs
<1>2. /\ Len(console) \in Nat /\ DOMAIN console = 1..Len(console)
      /\ console' \in Seq(Lines) /\ Len(console') = Len(console) + 1
      /\ DOMAIN console' = 1..(Len(console) + 1)
      /\ \A i \in 1..Len(console) : console'[i] = console[i]
      /\ console'[Len(console) + 1] = line
  BY <1>1, OneMore
<1>3. console' # <<>>
  BY <1>2
<1>4. console'[1] = IF console = <<>> THEN line ELSE console[1]
  <2>1. CASE console = <<>>
    <3>1. Len(console) = 0
      BY <2>1
    <3> QED
      BY <1>2, <2>1, <3>1
  <2>2. CASE console # <<>>
    <3>1. Len(console) # 0
      BY <2>2, EmptySeq
    <3>2. 1 \in 1..Len(console)
      BY <1>2, <3>1
    <3> QED
      BY <1>2, <2>2, <3>2
  <2> QED
    BY <2>1, <2>2
<1>5. /\ \A i \in DOMAIN console : i \in DOMAIN console' /\ console'[i] = console[i]
      /\ \A i \in DOMAIN console' : i \in DOMAIN console \/ i = Len(console) + 1
      /\ Len(console) + 1 \in DOMAIN console'
  BY <1>2
<1>6. ASSUME NEW kind PROVE Heard(kind)' <=> Heard(kind) \/ line \in kind
  BY <1>2, <1>5 DEF Heard
<1> QED
  BY <1>2, <1>3, <1>4, <1>6

\* Queues that grow by one message, or lose their first.
LEMMA OneIsSent ==
  ASSUME NEW S, NEW q \in Seq(S), NEW m \in S
  PROVE  /\ \A op : Sent(Append(q, m), op) <=> Sent(q, op) \/ m.op = op
         /\ \A op : (m.op # op /\ OnlyOnce(q, op)) \/ ~Sent(q, op) => OnlyOnce(Append(q, m), op)
<1> DEFINE t == Append(q, m)
<1>1. /\ \A i \in DOMAIN q : i \in DOMAIN t /\ t[i] = q[i]
      /\ \E j \in DOMAIN t : /\ j \notin DOMAIN q /\ t[j] = m
                             /\ \A i \in DOMAIN t : i \in DOMAIN q \/ i = j
  BY ExtendsByOne DEF Extends
<1> HIDE DEF t
<1>2. \A op : Sent(t, op) <=> Sent(q, op) \/ m.op = op
  BY <1>1 DEF Sent
<1>3. \A op : (m.op # op /\ OnlyOnce(q, op)) \/ ~Sent(q, op) => OnlyOnce(t, op)
  BY <1>1 DEF Sent, OnlyOnce
<1> QED
  BY <1>2, <1>3 DEF t

LEMMA OneIsTold ==
  ASSUME NEW S, NEW q \in Seq(S), NEW m \in S
  PROVE  \A code : Told(Append(q, m), code) <=> Told(q, code) \/ m.code = code
<1> DEFINE t == Append(q, m)
<1>1. /\ \A i \in DOMAIN q : i \in DOMAIN t /\ t[i] = q[i]
      /\ \E j \in DOMAIN t : /\ j \notin DOMAIN q /\ t[j] = m
                             /\ \A i \in DOMAIN t : i \in DOMAIN q \/ i = j
  BY ExtendsByOne DEF Extends
<1> HIDE DEF t
<1>2. \A code : Told(t, code) <=> Told(q, code) \/ m.code = code
  BY <1>1 DEF Told
<1> QED
  BY <1>2 DEF t

LEMMA FirstIsTaken ==
  ASSUME NEW S, NEW q \in Seq(S), q # <<>>
  PROVE  /\ \A op : Sent(Tail(q), op) => Sent(q, op)
         /\ \A op : OnlyOnce(q, op) => OnlyOnce(Tail(q), op)
         /\ \A op : OnlyOnce(q, op) /\ Head(q).op = op => ~Sent(Tail(q), op)
         /\ \A op : Head(q).op = op => Sent(q, op)
         /\ \A code : Told(Tail(q), code) => Told(q, code)
         /\ \A code : Head(q).code = code => Told(q, code)
<1> DEFINE t == Tail(q)
<1>1. /\ 1 \in DOMAIN q /\ q[1] = Head(q)
      /\ \A i \in DOMAIN t : i \in Nat /\ i >= 1 /\ i + 1 \in DOMAIN q /\ t[i] = q[i + 1]
  BY TailShift
<1> HIDE DEF t
<1>2. \A op : Sent(t, op) => Sent(q, op)
  BY <1>1 DEF Sent
<1>3. \A code : Told(t, code) => Told(q, code)
  BY <1>1 DEF Told
<1>4. ASSUME NEW op, OnlyOnce(q, op) PROVE OnlyOnce(t, op)
  <2>1. ASSUME NEW i \in DOMAIN t, NEW j \in DOMAIN t, t[i].op = op, t[j].op = op PROVE i = j
    <3>1. i + 1 = j + 1 /\ i \in Nat /\ j \in Nat
      BY <1>1, <1>4, <2>1 DEF OnlyOnce
    <3> QED
      BY <3>1
  <2> QED
    BY <2>1 DEF OnlyOnce
<1>5. ASSUME NEW op, OnlyOnce(q, op), Head(q).op = op PROVE ~Sent(t, op)
  <2>1. ASSUME NEW i \in DOMAIN t, t[i].op = op PROVE FALSE
    <3>1. i + 1 = 1 /\ i \in Nat /\ i >= 1
      BY <1>1, <1>5, <2>1 DEF OnlyOnce
    <3> QED
      BY <3>1
  <2> QED
    BY <2>1 DEF Sent
<1>6. (\A op : Head(q).op = op => Sent(q, op)) /\ (\A code : Head(q).code = code => Told(q, code))
  BY <1>1 DEF Sent, Told
<1> QED
  BY <1>2, <1>3, <1>4, <1>5, <1>6 DEF t

Running == boot = 1 /\ parsed

\* The page has one player and one source.
LEMMA OnePlayer ==
  ASSUME MInv, TInv, Running
  PROVE  /\ m_id = 1 /\ nextID = 1 /\ loaded = 1 /\ m_id \in Ids /\ m_id # 0
         /\ MediaTypeOK /\ Fetching /\ OnTheirWay /\ NotThereYet
         /\ \A i \in DOMAIN toPage : toPage[i].id = m_id /\ toPage[i] \in PageMessages
         /\ \A i \in DOMAIN toEngine : toEngine[i].id = m_id /\ toEngine[i] \in EngineMessages
         /\ \A id \in Ids : id # m_id => mediaPlayers[id].at = "gone"
         /\ toPage \in Seq(PageMessages) /\ toEngine \in Seq(EngineMessages)
         /\ mediaPlayers \in [Ids -> Elements] /\ playerRegistry = {m_id}
<1>1. MediaTypeOK /\ Lives /\ Fetching /\ Current
  BY DEF MInv
<1>2. /\ m_id = 1 /\ nextID = 1 /\ loaded = 1
  BY DEF Running, TInv, TestPage
<1>3. /\ toPage \in Seq(PageMessages) /\ toEngine \in Seq(EngineMessages)
      /\ mediaPlayers \in [Ids -> Elements]
      /\ \A i \in DOMAIN toPage : toPage[i] \in PageMessages
      /\ \A i \in DOMAIN toEngine : toEngine[i] \in EngineMessages
      /\ m_id \in Ids \cup {0} /\ Ids \subseteq Nat \ {0}
  BY <1>1, IdsFinite, MediaTypes
<1>4. m_id \in Ids /\ m_id # 0
  BY <1>2, <1>3
<1>5. OnTheirWay /\ NotThereYet
  BY <1>1, <1>4 DEF Current
<1>6. \A id \in Ids : id # m_id => id > nextID
  <2>1. \A id \in Ids : id \in Nat \ {0}
    BY <1>3
  <2> QED
    BY <1>2, <2>1
<1>7. \A id \in Ids : id # m_id =>
        mediaPlayers[id].at = "gone" /\ NoneFor(toPage, id) /\ NoneFor(toEngine, id)
  BY <1>1, <1>6 DEF Lives, Numbered
<1>8. \A i \in DOMAIN toPage : toPage[i].id = m_id
  BY <1>3, <1>7 DEF NoneFor, PageMessages
<1>9. \A i \in DOMAIN toEngine : toEngine[i].id = m_id
  BY <1>3, <1>7 DEF NoneFor, EngineMessages
<1>10. playerRegistry = {m_id}
  BY <1>1, <1>4 DEF Lives, Numbered
<1> QED
  BY <1>1, <1>2, <1>3, <1>4, <1>5, <1>7, <1>8, <1>9, <1>10

\* A step of the bridge: the test has read nothing yet.
BridgeStep ==
  /\ UNCHANGED <<boot, parsed, phase, mediaLate, m_id, nextID, loaded>>
  /\ wantsPlay' \in BOOLEAN /\ (wantsPlay' => wantsPlay)
  /\ hostEnded' \in BOOLEAN /\ (hostEnded => hostEnded')
  /\ played' \in BOOLEAN /\ (played => played')
  /\ console' = console \/ \E line \in {"playing", "-> blob", "ended"} : Logs(line)

LEMMA BridgeKeepsTInv ==
  ASSUME TInv, Running, BridgeStep,
         EndIsTrue', PlayOnce', FailedIsSilent'
  PROVE  TInv'
<1>1. /\ UNCHANGED <<boot, parsed, phase, mediaLate, m_id, nextID, loaded>>
      /\ wantsPlay' \in BOOLEAN /\ (wantsPlay' => wantsPlay)
      /\ hostEnded' \in BOOLEAN /\ (hostEnded => hostEnded')
      /\ played' \in BOOLEAN /\ (played => played')
  BY DEF BridgeStep
<1>2. /\ console' \in Seq(Lines) /\ console' # <<>> /\ console'[1] = console[1]
      /\ \A kind : Heard(kind) => Heard(kind)'
  <2>1. console \in Seq(Lines) /\ console # <<>>
    BY DEF TInv, TestTypes, TestPage, Running
  <2>2. CASE console' = console
    BY <2>1, <2>2 DEF Heard
  <2>3. CASE \E line \in {"playing", "-> blob", "ended"} : Logs(line)
    <3>1. PICK line \in {"playing", "-> blob", "ended"} : Logs(line)
      BY <2>3
    <3>2. line \in Lines
      BY DEF Lines
    <3> QED
      BY <2>1, <3>1, <3>2, LineIsLogged
  <2> QED
    BY <2>2, <2>3 DEF BridgeStep
<1>3. TestTypes' /\ TestPhases'
  BY <1>1, <1>2 DEF TInv, TestTypes, TestPhases, Running
<1>4. TestPage'
  <2>1. /\ boot = 1 /\ parsed /\ m_id = 1 /\ nextID = 1 /\ loaded = 1
        /\ console[1] = "canPlayType maybe"
    BY DEF TInv, TestPage, Running
  <2>2. /\ boot' = 1 /\ parsed' /\ m_id' = 1 /\ nextID' = 1 /\ loaded' = 1
        /\ console'[1] = "canPlayType maybe"
    BY <1>1, <1>2, <2>1
  <2>3. boot' # 2
    <3>1. boot' = 1
      BY <2>2
    <3> QED
      BY <3>1
  <2> QED
    BY <1>2, <2>2, <2>3 DEF TestPage
<1> QED
  BY <1>1, <1>3, <1>4 DEF TInv

\* The fetch goes on or ends.
LEMMA FetchKeepsTInv ==
  ASSUME MInv, TInv, Running, FetchProceeds, UNCHANGED mediaTestVars
  PROVE  TInv'
<1>1. /\ UNCHANGED <<m_id, playerRegistry, m_readyState, m_paused, m_ended, m_seeking, toEngine,
                     mediaPlayers, nextID, loaded, urls, mediaCalls>>
      /\ m_resource # "none"
      /\ UNCHANGED <<boot, parsed, wantsPlay, console, phase, hostEnded, played, mediaLate>>
  BY DEF FetchProceeds, ResponseReceived, LoadFailed, LoadFinished, FetchStep, mediaTestVars
<1>2. Fetching /\ OnTheirWay /\ m_id \in Ids /\ loaded \in Loads
      /\ toPage \in Seq(PageMessages) /\ \A i \in DOMAIN toPage : toPage[i].id = m_id
  BY OnePlayer DEF MediaTypeOK
<1>3. ~HasSource /\ ~HasSource'
  BY <1>1, <1>2 DEF Fetching, HasSource
<1>4. PlayOnce /\ FailedIsSilent /\ TestTypes
  BY DEF TInv, Running
<1>5. ~Sent(toPage, "play") /\ ~Playing /\ ~Told(toEngine, "ended") /\ OnlyOnce(toPage, "play")
      /\ ~Playing' /\ ~Told(toEngine', "ended")
  BY <1>1, <1>3, <1>4 DEF PlayOnce, Playing
<1>6. ~Sent(toPage, "bytes")
  BY <1>1, <1>2 DEF OnTheirWay, Sent
<1>7. \/ toPage' = toPage
      \/ /\ toPage' = Append(toPage, Message(m_id, "bytes", loaded))
         /\ m_resource = "receiving" /\ ~m_httpFailed /\ failed' = failed
  BY DEF FetchProceeds, ResponseReceived, LoadFailed, LoadFinished
<1>8. ~Sent(toPage', "play") /\ OnlyOnce(toPage', "play")
      /\ (toPage' # toPage => m_resource = "receiving" /\ ~m_httpFailed /\ failed' = failed)
  <2>1. CASE toPage' = toPage
    BY <1>5, <2>1
  <2>2. CASE /\ toPage' = Append(toPage, Message(m_id, "bytes", loaded))
             /\ m_resource = "receiving" /\ ~m_httpFailed /\ failed' = failed
    <3> DEFINE m == Message(m_id, "bytes", loaded)
    <3>1. m \in PageMessages /\ m.op = "bytes"
      BY <1>2 DEF Message, PageMessages
    <3>2. toPage' = Append(toPage, m)
      BY <2>2
    <3> HIDE DEF m
    <3>3. /\ \A op : Sent(Append(toPage, m), op) <=> Sent(toPage, op) \/ m.op = op
          /\ \A op : (m.op # op /\ OnlyOnce(toPage, op)) \/ ~Sent(toPage, op)
                        => OnlyOnce(Append(toPage, m), op)
      BY <1>2, <3>1, OneIsSent
    <3> QED
      BY <1>5, <2>2, <3>1, <3>2, <3>3
  <2> QED
    BY <1>7, <2>1, <2>2
<1>9. PlayOnce'
  BY <1>3, <1>5, <1>8 DEF PlayOnce
<1>10. FailedIsSilent'
  <2>1. ASSUME loaded' \in failed'
        PROVE  /\ m_resource' # "started" /\ (m_resource' = "receiving" => m_httpFailed')
               /\ toPage' = toPage
    <3>1. CASE ResponseReceived
      <4>1. /\ m_resource' = "receiving" /\ m_resource = "started" /\ toPage' = toPage
            /\ loaded \in failed'
            /\ failed' = failed \/ m_httpFailed' = TRUE
        BY <1>1, <2>1, <3>1 DEF ResponseReceived
      <4>2. failed' # failed
        BY <1>4, <4>1 DEF FailedIsSilent
      <4> QED
        BY <4>1, <4>2
    <3>2. CASE LoadFailed
      BY <3>2 DEF LoadFailed
    <3>3. CASE LoadFinished
      <4>1. /\ m_resource' = "none" /\ m_resource = "receiving" /\ failed' = failed
            /\ loaded \in failed
        BY <1>1, <2>1, <3>3 DEF LoadFinished
      <4>2. m_httpFailed
        BY <1>4, <4>1 DEF FailedIsSilent
      <4> QED
        BY <1>8, <4>1, <4>2
    <3> QED
      BY <3>1, <3>2, <3>3 DEF FetchProceeds
  <2> QED
    BY <1>3, <1>5, <1>6, <2>1 DEF FailedIsSilent
<1>11. BridgeStep
  BY <1>1, <1>4 DEF BridgeStep, TestTypes
<1>12. EndIsTrue'
  BY <1>1, <1>5 DEF TInv, EndIsTrue, Heard
<1> QED
  BY <1>9, <1>10, <1>11, <1>12, BridgeKeepsTInv

\* The guest plays what has data.
LEMMA GuestPlaysKeepsTInv ==
  ASSUME MInv, TInv, Running, GuestPlays
  PROVE  TInv'
<1>1. /\ wantsPlay /\ wantsPlay' = FALSE /\ Logs("playing")
      /\ UNCHANGED <<boot, parsed, phase, hostEnded, played, mediaLate>>
      /\ m_readyState >= HaveFutureData
      /\ toPage' = Append(toPage, Message(m_id, "play", loaded))
      /\ UNCHANGED <<m_id, playerRegistry, m_networkState, m_readyState, m_httpFailed, m_resource,
                     toEngine, mediaPlayers, nextID, loaded, failed, urls>>
  BY DEF GuestPlays, Play, Control
<1>2. /\ MediaTypeOK /\ m_id \in Ids /\ m_id # 0 /\ loaded \in Loads /\ toPage \in Seq(PageMessages)
      /\ mediaPlayers \in [Ids -> Elements]
  BY OnePlayer DEF MediaTypeOK
<1>3. HasSource /\ mediaPlayers[m_id].level >= HaveFutureData
  <2>1. StateIsOfSource
    BY MInvIsSound DEF MediaStateSound
  <2>2. m_readyState \in {0, 1, 3, 4} /\ mediaPlayers[m_id].level \in 0..4
    BY <1>2, MediaTypes DEF Elements
  <2>3. m_readyState # HaveNothing
    BY <1>1, <2>2, ElementKinds
  <2>4. mediaPlayers[m_id].source = loaded /\ mediaPlayers[m_id].level >= m_readyState
    BY <1>2, <2>1, <2>3 DEF StateIsOfSource
  <2>5. mediaPlayers[m_id].level >= HaveFutureData
    BY <1>1, <2>2, <2>4, ElementKinds
  <2> QED
    BY <2>4, <2>5 DEF HasSource
<1>4. PlayOnce /\ FailedIsSilent /\ TestTypes /\ TestPhases
  BY DEF TInv, Running
<1>5. Untold /\ ~Untold'
  BY <1>1, <1>4 DEF Untold, TestPhases
<1>6. ~Sent(toPage, "play") /\ ~Playing /\ ~Told(toEngine, "ended")
  BY <1>4, <1>5 DEF PlayOnce
<1> DEFINE m == Message(m_id, "play", loaded)
<1>7. m \in PageMessages /\ m.op = "play"
  BY <1>2 DEF Message, PageMessages
<1>8. toPage' = Append(toPage, m)
  BY <1>1
<1> HIDE DEF m
<1>9. /\ \A op : Sent(Append(toPage, m), op) <=> Sent(toPage, op) \/ m.op = op
      /\ \A op : (m.op # op /\ OnlyOnce(toPage, op)) \/ ~Sent(toPage, op)
                    => OnlyOnce(Append(toPage, m), op)
  BY <1>2, <1>7, OneIsSent
<1>10. OnlyOnce(toPage', "play") /\ (Sent(toPage', "bytes") => Sent(toPage, "bytes"))
  BY <1>6, <1>7, <1>8, <1>9
<1>11. \A kind : Heard(kind)' <=> Heard(kind) \/ "playing" \in kind
  <2>1. "playing" \in Lines /\ console \in Seq(Lines)
    BY <1>4 DEF Lines, TestTypes
  <2> QED
    BY <1>1, <2>1, LineIsLogged
<1>12. ~Playing' /\ ~Told(toEngine', "ended") /\ (HasSource' <=> HasSource)
       /\ mediaPlayers'[m_id'].level = mediaPlayers[m_id].level
       /\ mediaPlayers'[m_id'].at = mediaPlayers[m_id].at
  BY <1>1, <1>6 DEF Playing, HasSource
<1>13. PlayOnce'
  BY <1>3, <1>4, <1>5, <1>10, <1>11, <1>12 DEF PlayOnce
<1>14. FailedIsSilent'
  <2>1. loaded \in failed => mediaPlayers[m_id].at # "loading"
    BY <1>3, <1>4, <1>5 DEF FailedIsSilent
  <2> QED
    BY <1>1, <1>4, <1>10, <1>12, <2>1 DEF FailedIsSilent
<1>15. BridgeStep
  BY <1>1, <1>4 DEF BridgeStep, TestTypes
<1>16. EndIsTrue'
  BY <1>1, <1>11, <1>12 DEF TInv, EndIsTrue
<1> QED
  BY <1>13, <1>14, <1>15, <1>16, BridgeKeepsTInv

\* An event comes to the engine's thread, "ended" perhaps.
LEMMA EndedArrivesKeepsTInv ==
  ASSUME MInv, TInv, Running, EndedArrives
  PROVE  TInv'
<1>1. /\ toEngine # <<>> /\ toEngine' = Tail(toEngine)
      /\ UNCHANGED <<toPage, mediaPlayers, nextID, loaded, failed, urls, mediaCalls,
                     boot, parsed, wantsPlay, phase, hostEnded, mediaLate>>
  BY DEF EndedArrives, HandleEvent
<1>2. UNCHANGED <<m_id, m_httpFailed, m_resource>>
  BY DEF EndedArrives, HandleEvent, playerVars
<1>3. \/ console' = console /\ played' = played
      \/ /\ Head(toEngine).code = "ended" /\ Logs("ended")
         /\ played' = (played \/ loaded \notin failed)
  BY DEF EndedArrives
<1>4. PlayOnce /\ FailedIsSilent /\ TestTypes /\ EndIsTrue /\ toEngine \in Seq(EngineMessages)
  BY OnePlayer DEF TInv, Running
<1>5. /\ \A code : Told(toEngine', code) => Told(toEngine, code)
      /\ \A code : Head(toEngine).code = code => Told(toEngine, code)
  BY <1>1, <1>4, FirstIsTaken
<1>6. CASE Head(toEngine).code = "ended" /\ Logs("ended") /\ played' = (played \/ loaded \notin failed)
  <2>1. Told(toEngine, "ended")
    BY <1>5, <1>6
  <2>2. hostEnded' /\ loaded \notin failed /\ Heard({"-> blob"})
    BY <1>1, <1>4, <2>1 DEF EndIsTrue, FailedIsSilent, PlayOnce
  <2>3. \A kind : Heard(kind)' <=> Heard(kind) \/ "ended" \in kind
    <3>1. "ended" \in Lines /\ console \in Seq(Lines)
      BY <1>4 DEF Lines, TestTypes
    <3> QED
      BY <1>6, <3>1, LineIsLogged
  <2>4. played' = TRUE
    BY <1>6, <2>2
  <2>5. BridgeStep
    BY <1>1, <1>2, <1>4, <1>6, <2>4 DEF BridgeStep, TestTypes
  <2>6. PlayOnce'
    BY <1>1, <1>2, <1>4, <1>5, <2>3 DEF PlayOnce, Untold, Playing, HasSource
  <2>7. FailedIsSilent'
    BY <1>1, <1>2, <1>4, <1>5 DEF FailedIsSilent, Untold, Playing, HasSource
  <2>8. EndIsTrue'
    BY <2>2, <2>3, <2>4 DEF EndIsTrue
  <2> QED
    BY <2>5, <2>6, <2>7, <2>8, BridgeKeepsTInv
<1>7. CASE console' = console /\ played' = played
  <2>1. \A kind : Heard(kind)' <=> Heard(kind)
    BY <1>7 DEF Heard
  <2>2. BridgeStep
    BY <1>1, <1>2, <1>4, <1>7 DEF BridgeStep, TestTypes
  <2>3. PlayOnce'
    BY <1>1, <1>2, <1>4, <1>5, <2>1 DEF PlayOnce, Untold, Playing, HasSource
  <2>4. FailedIsSilent'
    BY <1>1, <1>2, <1>4, <1>5 DEF FailedIsSilent, Untold, Playing, HasSource
  <2>5. EndIsTrue'
    BY <1>1, <1>4, <1>5, <1>7, <2>1 DEF EndIsTrue
  <2> QED
    BY <2>2, <2>3, <2>4, <2>5, BridgeKeepsTInv
<1> QED
  BY <1>3, <1>6, <1>7

\* The element plays no more than before, of the same source.
LEMMA QuieterKeepsTInv ==
  ASSUME MInv, TInv, Running, UNCHANGED <<m_id, nextID, loaded, m_resource, m_httpFailed, failed>>,
         UNCHANGED mediaTestVars,
         mediaPlayers'[m_id].source = mediaPlayers[m_id].source,
         HasSource /\ mediaPlayers[m_id].level >= HaveFutureData =>
           mediaPlayers'[m_id].level >= HaveFutureData,
         mediaPlayers'[m_id].at = "loading" => mediaPlayers[m_id].at = "loading",
         mediaPlayers'[m_id].playing => mediaPlayers[m_id].playing,
         toPage' = toPage \/ (toPage # <<>> /\ toPage' = Tail(toPage)),
         Told(toEngine', "ended") => Told(toEngine, "ended")
  PROVE  TInv'
<1>1. UNCHANGED <<boot, parsed, wantsPlay, console, phase, hostEnded, played, mediaLate>>
  BY DEF mediaTestVars
<1>2. PlayOnce /\ FailedIsSilent /\ TestTypes /\ EndIsTrue /\ toPage \in Seq(PageMessages)
  BY OnePlayer DEF TInv, Running
<1>3. /\ \A op : Sent(toPage', op) => Sent(toPage, op)
      /\ \A op : OnlyOnce(toPage, op) => OnlyOnce(toPage', op)
  <2>1. CASE toPage' = toPage
    BY <2>1
  <2>2. CASE toPage # <<>> /\ toPage' = Tail(toPage)
    BY <1>2, <2>2, FirstIsTaken
  <2> QED
    BY <2>1, <2>2
<1>4. /\ m_id' = m_id /\ loaded' = loaded /\ m_resource' = m_resource
      /\ m_httpFailed' = m_httpFailed /\ failed' = failed
  OBVIOUS
<1>5. /\ HasSource' <=> HasSource
      /\ Playing' => Playing
      /\ Untold' <=> Untold
  BY <1>1, <1>4 DEF HasSource, Playing, Untold
<1>6. PlayOnce'
  BY <1>1, <1>2, <1>3, <1>4, <1>5 DEF PlayOnce, Heard
<1>7. FailedIsSilent'
  BY <1>2, <1>3, <1>4, <1>5 DEF FailedIsSilent
<1>8. EndIsTrue'
  BY <1>1, <1>2 DEF EndIsTrue, Heard
<1>9. BridgeStep
  BY <1>1, <1>2 DEF BridgeStep, TestTypes
<1> QED
  BY <1>6, <1>7, <1>8, <1>9, BridgeKeepsTInv

\* The source is there: it was fetched, and nothing of it is under way any more.
LEMMA SourceIsThere ==
  ASSUME MInv, TInv, Running, HasSource
  PROVE  m_resource = "none" /\ ~Sent(toPage, "bytes")
<1>1. /\ Fetching /\ OnTheirWay /\ MediaTypeOK /\ \A i \in DOMAIN toPage : toPage[i].id = m_id
  BY OnePlayer
<1>2. m_resource = "none"
  BY <1>1 DEF Fetching, HasSource
<1>3. ~Sent(toPage, "bytes")
  BY <1>1 DEF OnTheirWay, Sent, HasSource
<1> QED
  BY <1>2, <1>3

\* The source turns out not to be playable: nothing plays it, now or later.
LEMMA FailureKeepsTInv ==
  ASSUME MInv, TInv, Running, HasSource, HasSource', ~Playing', UNCHANGED mediaTestVars,
         UNCHANGED <<m_id, nextID, loaded, m_resource, m_httpFailed>>,
         toPage' = toPage \/ (toPage # <<>> /\ toPage' = Tail(toPage)),
         ~Sent(toPage', "play"), ~Told(toEngine', "ended"), ~Untold \/ mediaPlayers'[m_id].at = "failed"
  PROVE  TInv'
<1>1. UNCHANGED <<boot, parsed, wantsPlay, console, phase, hostEnded, played, mediaLate>>
  BY DEF mediaTestVars
<1>2. PlayOnce /\ TestTypes /\ EndIsTrue /\ toPage \in Seq(PageMessages)
  BY OnePlayer DEF TInv, Running
<1>3. ~Sent(toPage', "bytes") /\ OnlyOnce(toPage', "play")
  <2>1. ~Sent(toPage, "bytes") /\ OnlyOnce(toPage, "play")
    BY <1>2, SourceIsThere DEF PlayOnce
  <2>2. CASE toPage' = toPage
    BY <2>1, <2>2
  <2>3. CASE toPage # <<>> /\ toPage' = Tail(toPage)
    BY <1>2, <2>1, <2>3, FirstIsTaken
  <2> QED
    BY <2>2, <2>3
<1>4. m_resource' = "none" /\ m_id' = m_id
  BY SourceIsThere
<1>5. Untold' <=> Untold
  BY <1>1 DEF Untold
<1>6. PlayOnce'
  BY <1>1, <1>2, <1>3 DEF PlayOnce, Heard
<1>7. FailedIsSilent'
  BY <1>3, <1>4, <1>5 DEF FailedIsSilent
<1>8. EndIsTrue'
  BY <1>1, <1>2 DEF EndIsTrue, Heard
<1>9. BridgeStep
  BY <1>1, <1>2 DEF BridgeStep, TestTypes
<1> QED
  BY <1>6, <1>7, <1>8, <1>9, BridgeKeepsTInv

\* The host's element ends.
LEMMA HostEndsKeepsTInv ==
  ASSUME MInv, TInv, Running, HostEnds
  PROVE  TInv'
<1>1. /\ hostEnded' = TRUE
      /\ UNCHANGED <<boot, parsed, wantsPlay, console, phase, played, mediaLate>>
  BY DEF HostEnds
<1>2. PICK id \in Ids : ElementEnds(id)
  BY DEF HostEnds
<1>3. /\ mediaPlayers[id].at = "loading" /\ mediaPlayers[id].playing
      /\ mediaPlayers' = [mediaPlayers EXCEPT ![id] = [mediaPlayers[id] EXCEPT !.playing = FALSE]]
      /\ UNCHANGED <<toPage, failed, nextID, loaded, m_id, m_resource, m_httpFailed>>
  BY <1>2 DEF ElementEnds, ElementSays, SetElement, PageStep, playerVars
<1>4. id = m_id /\ mediaPlayers \in [Ids -> Elements]
  BY <1>3, OnePlayer
<1>5. /\ mediaPlayers'[m_id].source = mediaPlayers[m_id].source
      /\ mediaPlayers'[m_id].level = mediaPlayers[m_id].level
      /\ ~mediaPlayers'[m_id].playing
  <2>1. mediaPlayers'[m_id] = [mediaPlayers[m_id] EXCEPT !.playing = FALSE]
    BY <1>3, <1>4
  <2> QED
    BY <1>4, <2>1 DEF Elements
<1>6. PlayOnce /\ FailedIsSilent /\ TestTypes /\ EndIsTrue
  BY DEF TInv, Running
<1>7. Playing /\ ~Playing' /\ (HasSource' <=> HasSource) /\ (Untold' <=> Untold)
  BY <1>1, <1>3, <1>4, <1>5 DEF Playing, HasSource, Untold
<1>8. PlayOnce'
  BY <1>1, <1>3, <1>5, <1>6, <1>7 DEF PlayOnce, Heard
<1>9. FailedIsSilent'
  BY <1>3, <1>6, <1>7 DEF FailedIsSilent
<1>10. EndIsTrue'
  BY <1>1, <1>6 DEF EndIsTrue, Heard
<1>11. BridgeStep
  BY <1>1, <1>3, <1>6 DEF BridgeStep, TestTypes
<1> QED
  BY <1>8, <1>9, <1>10, <1>11, BridgeKeepsTInv

\* The page takes a message, the source's bytes perhaps.
LEMMA BlobArrivesKeepsTInv ==
  ASSUME MInv, TInv, Running, BlobArrives
  PROVE  TInv'
<1> DEFINE msg == Head(toPage)
           id  == msg.id
           old == mediaPlayers[id]
<1>1. /\ toPage # <<>> /\ toPage' = Tail(toPage)
      /\ UNCHANGED <<m_id, nextID, loaded, m_resource, m_httpFailed>>
      /\ UNCHANGED <<boot, parsed, wantsPlay, phase, hostEnded, played, mediaLate>>
      /\ IF msg.op = "bytes" /\ old.at # "gone" THEN Logs("-> blob") ELSE UNCHANGED console
  BY DEF BlobArrives, PageMessage, PageStep, playerVars
<1>2. /\ toPage \in Seq(PageMessages) /\ toEngine \in Seq(EngineMessages) /\ m_id \in Ids
      /\ mediaPlayers \in [Ids -> Elements] /\ MediaTypeOK /\ OnTheirWay
      /\ PlayOnce /\ FailedIsSilent /\ TestTypes /\ EndIsTrue
  BY OnePlayer DEF TInv, Running
<1>3. /\ msg \in PageMessages /\ 1 \in DOMAIN toPage /\ toPage[1] = msg /\ id = m_id
      /\ msg.op \notin {"unload", "destroy"}
      /\ msg.op = "bytes" => msg.source = loaded /\ old.source # loaded
  <2>1. msg \in PageMessages /\ 1 \in DOMAIN toPage /\ toPage[1] = msg
    BY <1>1, <1>2, TailShift
  <2>2. id = m_id
    BY <2>1, OnePlayer
  <2> QED
    BY <1>2, <2>1, <2>2 DEF OnTheirWay
<1>4. /\ \A op : Sent(toPage', op) => Sent(toPage, op)
      /\ \A op : OnlyOnce(toPage, op) => OnlyOnce(toPage', op)
      /\ \A op : OnlyOnce(toPage, op) /\ msg.op = op => ~Sent(toPage', op)
      /\ \A op : msg.op = op => Sent(toPage, op)
  BY <1>1, <1>2, FirstIsTaken
<1>5. old \in Elements /\ old = mediaPlayers[m_id]
  BY <1>2, <1>3
<1> HIDE DEF id, old, msg
<1>6. \A code \in Events : Event(id, code) \in EngineMessages /\ Event(id, code).code = code
  BY <1>2, <1>3, <1>5 DEF Event, EngineMessages, Elements
<1>7. {"playing", "pause", "error"} \subseteq Events
  BY DEF Events
<1>8. \A code \in {"playing", "pause", "error"} :
        Told(Append(toEngine, Event(id, code)), "ended") => Told(toEngine, "ended")
  <2>1. ASSUME NEW code \in {"playing", "pause", "error"}
        PROVE  Told(Append(toEngine, Event(id, code)), "ended") => Told(toEngine, "ended")
    <3> DEFINE m == Event(id, code)
    <3>1. m \in EngineMessages /\ m.code # "ended"
      BY <1>6, <1>7
    <3> HIDE DEF m
    <3>2. \A c : Told(Append(toEngine, m), c) <=> Told(toEngine, c) \/ m.code = c
      BY <1>2, <3>1, OneIsTold
    <3> QED
      BY <3>1, <3>2 DEF m
  <2> QED
    BY <2>1
<1>9. ASSUME msg.op # "bytes" \/ old.at = "gone"
      PROVE  UNCHANGED mediaTestVars
  BY <1>1, <1>9 DEF mediaTestVars
<1>10. CASE /\ msg.op = "create"
            /\ SetElement(id, [Gone EXCEPT !.at = "empty"])
            /\ UNCHANGED <<toEngine, urls, failed>>
  <2>1. mediaPlayers'[m_id] = [Gone EXCEPT !.at = "empty"]
    BY <1>2, <1>3, <1>10 DEF SetElement
  <2>2. old.at = "gone" /\ old.source = 0
    <3>1. CreatedFirst /\ GoneIsEmpty
      BY DEF MInv, Lives
    <3>2. mediaPlayers[msg.id].at = "gone"
      BY <1>3, <1>10, <3>1 DEF CreatedFirst
    <3> QED
      BY <1>2, <1>3, <1>5, <3>1, <3>2 DEF GoneIsEmpty, id
  <2>3. /\ mediaPlayers'[m_id].source = 0 /\ mediaPlayers'[m_id].at = "empty"
        /\ ~mediaPlayers'[m_id].playing
    BY <2>1 DEF Gone
  <2>4. ~HasSource
    BY <1>5, <2>2, OnePlayer DEF HasSource
  <2>5. UNCHANGED mediaTestVars
    BY <1>9, <1>10
  <2> QED
    BY <1>1, <1>5, <1>10, <2>2, <2>3, <2>4, <2>5, QuieterKeepsTInv
<1>11. CASE /\ msg.op # "create" /\ old.at = "gone"
            /\ UNCHANGED <<mediaPlayers, toEngine, urls, failed>>
  <2>1. UNCHANGED mediaTestVars /\ mediaPlayers'[m_id] = mediaPlayers[m_id]
    BY <1>9, <1>11
  <2> QED
    BY <1>1, <1>11, <2>1, QuieterKeepsTInv
<1>12. CASE /\ msg.op = "bytes" /\ old.at # "gone"
            /\ urls' = urls - RevokeUrl(old) + 1
            /\ SetElement(id, [Gone EXCEPT !.at = "loading", !.source = msg.source, !.url = TRUE])
            /\ UNCHANGED <<toEngine, failed>>
  <2>1. mediaPlayers'[m_id] = [Gone EXCEPT !.at = "loading", !.source = msg.source, !.url = TRUE]
    BY <1>2, <1>3, <1>12 DEF SetElement
  <2>2. ~Playing' /\ HasSource'
    BY <1>1, <1>3, <1>12, <2>1 DEF Gone, Playing, HasSource
  <2>3. ~HasSource
    BY <1>3, <1>5, <1>12 DEF HasSource
  <2>4. /\ ~Sent(toPage', "play") /\ ~Playing /\ ~Told(toEngine', "ended")
        /\ OnlyOnce(toPage', "play")
    BY <1>2, <1>4, <1>12, <2>3 DEF PlayOnce
  <2>5. loaded' \notin failed'
    BY <1>1, <1>2, <1>4, <1>12 DEF FailedIsSilent
  <2>6. \A kind : Heard(kind)' <=> Heard(kind) \/ "-> blob" \in kind
    <3>1. "-> blob" \in Lines /\ console \in Seq(Lines) /\ Logs("-> blob")
      BY <1>1, <1>2, <1>12 DEF Lines, TestTypes
    <3> QED
      BY <3>1, LineIsLogged
  <2>7. PlayOnce'
    BY <2>2, <2>4, <2>6 DEF PlayOnce
  <2>8. FailedIsSilent'
    BY <2>5 DEF FailedIsSilent
  <2>9. EndIsTrue'
    BY <1>1, <1>2, <2>4, <2>6 DEF EndIsTrue
  <2>10. BridgeStep
    BY <1>1, <1>2, <1>12 DEF BridgeStep, TestTypes
  <2> QED
    BY <2>7, <2>8, <2>9, <2>10, BridgeKeepsTInv
<1>13. CASE /\ msg.op = "play" /\ old.at # "gone"
            /\ \/ /\ old.at = "loading" /\ old.level >= HaveFutureData
                  /\ SetElement(id, [old EXCEPT !.playing = TRUE])
                  /\ toEngine' = IF old.playing THEN toEngine
                                 ELSE Append(toEngine, Event(id, "playing"))
                  /\ UNCHANGED failed
               \/ /\ toEngine' = Append(toEngine, Event(id, "error"))
                  /\ failed' = failed \cup {old.source}
                  /\ UNCHANGED mediaPlayers
            /\ UNCHANGED urls
  <2>1. /\ Sent(toPage, "play") /\ ~Sent(toPage', "play") /\ OnlyOnce(toPage', "play")
        /\ HasSource /\ old.level >= HaveFutureData /\ ~Playing /\ ~Told(toEngine, "ended")
        /\ ~Untold
    BY <1>2, <1>4, <1>5, <1>13 DEF PlayOnce
  <2>2. UNCHANGED mediaTestVars
    BY <1>9, <1>13
  <2>3. ~Told(toEngine', "ended")
    BY <1>8, <1>13, <2>1
  <2>4. ~Untold'
    BY <1>1, <2>1 DEF Untold
  <2>5. CASE /\ old.at = "loading" /\ old.level >= HaveFutureData
             /\ SetElement(id, [old EXCEPT !.playing = TRUE])
             /\ UNCHANGED failed
    <3>1. mediaPlayers'[m_id] = [old EXCEPT !.playing = TRUE]
      BY <1>2, <1>3, <2>5 DEF SetElement
    <3>2. /\ mediaPlayers'[m_id].source = old.source /\ mediaPlayers'[m_id].level = old.level
          /\ mediaPlayers'[m_id].at = old.at
      BY <1>5, <3>1 DEF Elements
    <3>3. HasSource'
      BY <1>1, <1>5, <2>1, <3>2 DEF HasSource
    <3>4. loaded' \notin failed'
      BY <1>1, <1>2, <1>5, <2>1, <2>5 DEF FailedIsSilent
    <3>5. UNCHANGED console
      BY <2>2 DEF mediaTestVars
    <3>6. PlayOnce'
      BY <1>1, <1>2, <2>1, <2>3, <2>4, <3>2, <3>3, <3>5 DEF PlayOnce, Heard
    <3>7. FailedIsSilent'
      BY <3>4 DEF FailedIsSilent
    <3>8. EndIsTrue'
      BY <1>1, <1>2, <2>3, <3>5 DEF EndIsTrue, Heard
    <3>9. BridgeStep
      BY <1>1, <1>2, <3>5 DEF BridgeStep, TestTypes
    <3> QED
      BY <3>6, <3>7, <3>8, <3>9, BridgeKeepsTInv
  <2>6. CASE UNCHANGED mediaPlayers
    <3>1. HasSource' /\ ~Playing'
      BY <1>1, <2>1, <2>6 DEF HasSource, Playing
    <3> QED
      BY <1>1, <2>1, <2>2, <2>3, <3>1, FailureKeepsTInv
  <2> QED
    BY <1>13, <2>5, <2>6
<1>14. CASE /\ msg.op = "pause" /\ old.at # "gone"
            /\ SetElement(id, [old EXCEPT !.playing = FALSE])
            /\ toEngine' = IF old.playing THEN Append(toEngine, Event(id, "pause")) ELSE toEngine
            /\ UNCHANGED <<urls, failed>>
  <2>1. mediaPlayers'[m_id] = [old EXCEPT !.playing = FALSE]
    BY <1>2, <1>3, <1>14 DEF SetElement
  <2>2. /\ mediaPlayers'[m_id].source = old.source /\ mediaPlayers'[m_id].level = old.level
        /\ mediaPlayers'[m_id].at = old.at /\ ~mediaPlayers'[m_id].playing
    BY <1>5, <2>1 DEF Elements
  <2>3. UNCHANGED mediaTestVars /\ (Told(toEngine', "ended") => Told(toEngine, "ended"))
    BY <1>8, <1>9, <1>14
  <2> QED
    BY <1>1, <1>5, <1>14, <2>2, <2>3, QuieterKeepsTInv
<1>15. CASE /\ msg.op = "seek" /\ old.at # "gone"
            /\ SetElement(id, [old EXCEPT !.seeking = (old.at = "loading")])
            /\ UNCHANGED <<toEngine, urls, failed>>
  <2>1. mediaPlayers'[m_id] = [old EXCEPT !.seeking = (old.at = "loading")]
    BY <1>2, <1>3, <1>15 DEF SetElement
  <2>2. /\ mediaPlayers'[m_id].source = old.source /\ mediaPlayers'[m_id].level = old.level
        /\ mediaPlayers'[m_id].at = old.at /\ mediaPlayers'[m_id].playing = old.playing
    BY <1>5, <2>1 DEF Elements
  <2>3. UNCHANGED mediaTestVars
    BY <1>9, <1>15
  <2> QED
    BY <1>1, <1>5, <1>15, <2>2, <2>3, QuieterKeepsTInv
<1>16. PageMessage
  BY DEF BlobArrives
<1> QED
  BY <1>3, <1>10, <1>11, <1>12, <1>13, <1>14, <1>15, <1>16 DEF PageMessage, msg, old, id

\* The host's element works on its blob.
LEMMA ElementAdvancesKeepsTInv ==
  ASSUME MInv, TInv, Running, NEW id \in Ids, UNCHANGED mediaTestVars,
         ElementAdvances(id) \/ ElementCanPlayThrough(id)
  PROVE  TInv'
<1> DEFINE old == mediaPlayers[id]
<1>1. /\ old.at = "loading"
      /\ UNCHANGED <<toPage, m_id, nextID, loaded, m_resource, m_httpFailed>>
  BY DEF ElementAdvances, ElementCanPlayThrough, ElementSays, PageStep, playerVars
<1>2. /\ toEngine \in Seq(EngineMessages) /\ mediaPlayers \in [Ids -> Elements] /\ MediaTypeOK
      /\ id = m_id /\ NotThereYet /\ old \in Elements /\ old.level \in 0..4
      /\ old = mediaPlayers[m_id]
  BY <1>1, OnePlayer DEF Elements
<1>3. HasSource /\ PlayOnce
  BY <1>1, <1>2 DEF HasSource, NotThereYet, TInv, Running
<1>4. {"loadedmetadata", "canplay", "canplaythrough", "error"} \subseteq Events
  BY DEF Events
<1> HIDE DEF old
<1>5. ASSUME NEW e, NEW code \in {"loadedmetadata", "canplay", "canplaythrough", "error"},
             ElementSays(id, e, <<code>>)
      PROVE  /\ Told(toEngine', "ended") => Told(toEngine, "ended")
             /\ mediaPlayers'[m_id] = e
  <2>1. /\ mediaPlayers' = [mediaPlayers EXCEPT ![id] = e]
        /\ toEngine' = toEngine \o [i \in DOMAIN <<code>> |-> Event(id, <<code>>[i])]
    BY <1>5 DEF ElementSays, SetElement
  <2> DEFINE m == Event(id, code)
  <2>2. m \in EngineMessages /\ toEngine' = Append(toEngine, m)
    BY <1>2, <1>4, <2>1, SaysOne
  <2>3. m.code # "ended"
    BY DEF Event
  <2> HIDE DEF m
  <2>4. \A c : Told(Append(toEngine, m), c) <=> Told(toEngine, c) \/ m.code = c
    BY <1>2, <2>2, OneIsTold
  <2>5. mediaPlayers'[m_id] = e
    BY <1>2, <2>1
  <2> QED
    BY <2>2, <2>3, <2>4, <2>5
<1>6. ASSUME NEW level \in {1, 3, 4}, old.level < level, failed' = failed,
             NEW code \in {"loadedmetadata", "canplay", "canplaythrough"},
             ElementSays(id, [old EXCEPT !.level = level], <<code>>)
      PROVE  TInv'
  <2> DEFINE e == [old EXCEPT !.level = level]
  <2>1. /\ e.at = old.at /\ e.source = old.source /\ e.playing = old.playing /\ e.level = level
    BY <1>2 DEF Elements
  <2>2. ElementSays(id, e, <<code>>)
    BY <1>6
  <2> HIDE DEF e
  <2>3. /\ Told(toEngine', "ended") => Told(toEngine, "ended")
        /\ mediaPlayers'[m_id] = e
    BY <1>5, <2>2
  <2>4. old.level >= HaveFutureData => e.level >= HaveFutureData
    BY <1>2, <1>6, <2>1, ElementKinds
  <2> QED
    BY <1>1, <1>2, <1>6, <2>1, <2>3, <2>4, QuieterKeepsTInv
<1>7. CASE /\ old.level = HaveNothing
           /\ ElementSays(id, [old EXCEPT !.level = HaveMetadata], <<"loadedmetadata">>)
           /\ UNCHANGED failed
  <2>1. HaveMetadata = 1 /\ HaveNothing = 0 /\ old.level < HaveMetadata
    BY <1>7, ElementKinds
  <2> QED
    BY <1>6, <1>7, <2>1
<1>8. CASE /\ old.level = HaveMetadata
           /\ ElementSays(id, [old EXCEPT !.level = HaveFutureData], <<"canplay">>)
           /\ UNCHANGED failed
  <2>1. HaveFutureData = 3 /\ old.level < HaveFutureData
    BY <1>8, ElementKinds
  <2> QED
    BY <1>6, <1>8, <2>1
<1>9. CASE /\ old.level = HaveFutureData
           /\ ElementSays(id, [old EXCEPT !.level = HaveEnoughData], <<"canplaythrough">>)
           /\ UNCHANGED failed
  <2>1. HaveEnoughData = 4 /\ old.level < HaveEnoughData
    BY <1>9, ElementKinds
  <2> QED
    BY <1>6, <1>9, <2>1
<1>10. CASE /\ old.level < HaveFutureData
            /\ ElementSays(id, [old EXCEPT !.at = "failed"], <<"error">>)
            /\ failed' = failed \cup {old.source}
  <2> DEFINE e == [old EXCEPT !.at = "failed"]
  <2>1. e.at = "failed" /\ e.source = old.source /\ e.playing = old.playing
    BY <1>2 DEF Elements
  <2>2. ElementSays(id, e, <<"error">>)
    BY <1>10
  <2> HIDE DEF e
  <2>3. /\ Told(toEngine', "ended") => Told(toEngine, "ended")
        /\ mediaPlayers'[m_id] = e
    BY <1>5, <2>2
  <2>4. ~(old.level >= HaveFutureData)
    BY <1>2, <1>10, ElementKinds
  <2>5. ~Sent(toPage, "play") /\ ~Playing /\ ~Told(toEngine, "ended")
    BY <1>2, <1>3, <2>4 DEF PlayOnce
  <2>6. HasSource' /\ ~Playing'
    BY <1>1, <1>2, <1>3, <2>1, <2>3, <2>5 DEF HasSource, Playing
  <2> QED
    BY <1>1, <1>3, <2>1, <2>3, <2>5, <2>6, FailureKeepsTInv
<1> QED
  BY <1>7, <1>8, <1>9, <1>10 DEF ElementAdvances, ElementCanPlayThrough, old

LEMMA OthersKeepTInv ==
  ASSUME MInv, TInv, Running, OthersProceed
  PROVE  TInv'
<1>1. UNCHANGED mediaTestVars
  BY DEF OthersProceed
<1>2. CASE FetchProceeds
  BY <1>1, <1>2, FetchKeepsTInv
<1>3. CASE \E id \in Ids : ElementAdvances(id) \/ ElementCanPlayThrough(id)
  <2>1. PICK id \in Ids : ElementAdvances(id) \/ ElementCanPlayThrough(id)
    BY <1>3
  <2> QED
    BY <1>1, <2>1, ElementAdvancesKeepsTInv
<1> QED
  BY <1>2, <1>3 DEF OthersProceed, ElementProceeds

\* Without a player nothing is under way.
LEMMA NothingIsUnderWay ==
  ASSUME TInv, ~Running, GuestPlays \/ EndedArrives \/ BlobArrives \/ HostEnds \/ OthersProceed
  PROVE  FALSE
<1>1. MediaInit
  BY DEF TInv, TestTypes, TestPage, Running
<1>2. /\ m_id = 0 /\ toPage = <<>> /\ toEngine = <<>> /\ m_resource = "none"
      /\ \A id \in Ids : mediaPlayers[id].at = "gone"
  BY <1>1, ElementKinds DEF MediaInit
<1>3. ~GuestPlays
  BY <1>2 DEF GuestPlays, Play, Control
<1>4. ~EndedArrives /\ ~BlobArrives
  BY <1>2 DEF EndedArrives, BlobArrives, HandleEvent, PageMessage
<1>5. ~HostEnds
  BY <1>2 DEF HostEnds, ElementEnds
<1>6. ~OthersProceed
  BY <1>2 DEF OthersProceed, FetchProceeds, ResponseReceived, LoadFailed, LoadFinished,
              ElementProceeds, ElementAdvances, ElementCanPlayThrough
<1> QED
  BY <1>3, <1>4, <1>5, <1>6

\* The parser meets the element, or asks in vain.
LEMMA PageParsesKeepsTInv ==
  ASSUME MInv, TInv, PageParses
  PROVE  TInv'
<1>1. /\ ~parsed /\ parsed' = TRUE
      /\ UNCHANGED <<boot, wantsPlay, phase, hostEnded, played, mediaLate>>
      /\ IF boot = 1 THEN SetSource /\ Logs("canPlayType maybe")
                     ELSE UNCHANGED mediaVars /\ Logs("canPlayType empty")
  BY DEF PageParses, MediaFlag
<1>2. /\ TestTypes /\ TestPhases /\ EndIsTrue /\ MediaInit /\ console = <<>>
      /\ boot \in {1, 2} /\ console \in Seq(Lines)
  BY <1>1 DEF TInv, TestPage, TestTypes
<1>3. /\ m_id = 0 /\ nextID = 0 /\ loaded = 0 /\ toPage = <<>> /\ toEngine = <<>> /\ failed = {}
      /\ \A i \in Ids : mediaPlayers[i] = Gone
  BY <1>2 DEF MediaInit
<1> DEFINE line == IF boot = 1 THEN "canPlayType maybe" ELSE "canPlayType empty"
<1>4. line \in Lines /\ line # "ended" /\ Logs(line)
  BY <1>1 DEF Lines, CanPlay
<1> HIDE DEF line
<1>5. /\ console' \in Seq(Lines) /\ console' # <<>> /\ console'[1] = line
      /\ \A kind : Heard(kind)' <=> Heard(kind) \/ line \in kind
  BY <1>2, <1>4, LineIsLogged
<1>6. TestTypes' /\ TestPhases'
  BY <1>1, <1>2, <1>5 DEF TestTypes, TestPhases
<1>7. EndIsTrue' /\ toEngine' = <<>>
  <2>1. toEngine' = toEngine
    BY <1>1 DEF SetSource, mediaVars
  <2>2. Heard({"ended"})' => Heard({"ended"})
    BY <1>4, <1>5
  <2>3. Heard({"-> blob"}) => Heard({"-> blob"})'
    BY <1>5
  <2>4. EndIsTrue'
    BY <1>1, <1>2, <2>1, <2>2, <2>3 DEF EndIsTrue
  <2> QED
    BY <1>3, <2>1, <2>4
<1>8. CASE boot = 1
  <2>1. /\ nextID < MaxPlayers /\ nextID' = nextID + 1 /\ m_id' = nextID'
        /\ toPage' = toPage
                       \o (IF m_id = 0 THEN <<>>
                           ELSE <<Message(m_id, "unload", 0), Message(m_id, "destroy", 0)>>)
                       \o <<Message(nextID', "create", 0)>>
        /\ LoadSource
        /\ mediaPlayers' = mediaPlayers
    BY <1>1, <1>8 DEF SetSource
  <2>2. /\ nextID' = 1 /\ m_id' = 1 /\ loaded' = 1 /\ 1 \in Ids /\ 0 # 1
    BY <1>3, <2>1, MediaAssumption DEF LoadSource, Ids
  <2>3. \A j \in DOMAIN toPage' : toPage'[j].op = "create"
    <3>1. MediaTypeOK
      BY DEF MInv
    <3>2. \E r \in Seq(PageMessages) :
            /\ r = toPage
            /\ \A j \in DOMAIN toPage' : j \in DOMAIN r \/ toPage'[j].op = "create"
      BY <1>3, <2>1, <2>2, <3>1, SourceIsSent
    <3> QED
      BY <1>3, <3>2
  <2>4. /\ ~Sent(toPage', "play") /\ ~Sent(toPage', "bytes") /\ OnlyOnce(toPage', "play")
        /\ ~Told(toEngine', "ended")
    BY <1>7, <2>3 DEF Sent, OnlyOnce, Told
  <2>5. ~Playing' /\ ~HasSource'
    BY <1>3, <2>1, <2>2, ElementKinds DEF Playing, HasSource
  <2>6. loaded' \in failed' => m_resource' = "none"
    BY <1>3, <2>1 DEF LoadSource
  <2>7. PlayOnce' /\ FailedIsSilent'
    BY <2>4, <2>5, <2>6 DEF PlayOnce, FailedIsSilent
  <2>8. boot' # 2 /\ line = "canPlayType maybe"
    <3>1. boot' = 1
      BY <1>1, <1>8
    <3> QED
      BY <1>8, <3>1 DEF line
  <2>9. TestPage'
    BY <1>1, <1>5, <1>8, <2>2, <2>8 DEF TestPage
  <2> QED
    BY <1>6, <1>7, <2>7, <2>9 DEF TInv
<1>9. CASE boot = 2
  <2>1. boot # 1 /\ boot' # 1
    <3>1. boot' = 2
      BY <1>1, <1>9
    <3> QED
      BY <1>9, <3>1
  <2>2. line = "canPlayType empty"
    BY <2>1 DEF line
  <2>3. MediaInit'
    BY <1>1, <1>2, <2>1 DEF MediaInit, mediaVars, playerVars
  <2>4. TestPage'
    BY <1>1, <1>5, <2>1, <2>2, <2>3 DEF TestPage
  <2> QED
    BY <1>6, <1>7, <2>1, <2>4 DEF TInv
<1> QED
  BY <1>2, <1>8, <1>9

\* The test looks at the console: it is no nearer to being told to play.
LEMMA TestOnlyKeepsTInv ==
  ASSUME TInv, TestOnly, UNCHANGED <<boot, console>>, TestTypes', TestPhases', Untold' => Untold
  PROVE  TInv'
<1>1. UNCHANGED <<m_id, playerRegistry, m_networkState, m_readyState, m_paused, m_ended, m_seeking,
                  m_httpFailed, m_resource, toPage, toEngine, mediaPlayers, nextID, loaded, failed,
                  urls, mediaCalls>>
  BY DEF TestOnly, mediaVars, playerVars
<1>2. UNCHANGED <<parsed, hostEnded, played, boot, console>>
  BY DEF TestOnly
<1>3. TestPage'
  BY <1>1, <1>2 DEF TInv, TestPage, MediaInit
<1>4. EndIsTrue'
  BY <1>1, <1>2 DEF TInv, EndIsTrue, Heard
<1>5. PlayOnce => PlayOnce'
  BY <1>1, <1>2 DEF PlayOnce, Playing, HasSource, Heard
<1>6. FailedIsSilent => FailedIsSilent'
  BY <1>1 DEF FailedIsSilent, Playing, HasSource
<1> QED
  BY <1>2, <1>3, <1>4, <1>5, <1>6 DEF TInv

\* The first answer on the console is this boot's.
LEMMA FirstAnswer ==
  ASSUME TInv, Heard(CanPlay)
  PROVE  parsed /\ FirstLine(CanPlay) = IF boot = 1 THEN "canPlayType maybe" ELSE "canPlayType empty"
<1>1. console # <<>> /\ console \in Seq(Lines) /\ parsed
  <2>1. console # <<>>
    BY DEF Heard
  <2> QED
    BY <2>1 DEF TInv, TestTypes, TestPage
<1>2. 1 \in DOMAIN console /\ DOMAIN console = 1..Len(console) /\ Len(console) \in Nat
  BY <1>1, OneLess
<1>3. console[1] = IF boot = 1 THEN "canPlayType maybe" ELSE "canPlayType empty"
  BY <1>1 DEF TInv, TestPage
<1> DEFINE First(i) == console[i] \in CanPlay /\ \A j \in 1..(i - 1) : console[j] \notin CanPlay
           i0 == CHOOSE i \in DOMAIN console : First(i)
<1>4. First(1)
  <2>1. console[1] \in CanPlay
    BY <1>3 DEF CanPlay
  <2>2. 1..(1 - 1) = {}
    OBVIOUS
  <2> QED
    BY <2>1, <2>2
<1>5. i0 \in DOMAIN console /\ First(i0)
  BY <1>2, <1>4
<1>6. ASSUME NEW i \in DOMAIN console, First(i) PROVE i = 1
  <2>1. i \in Nat /\ i >= 1 /\ ~(1 \in 1..(i - 1))
    BY <1>2, <1>4, <1>6
  <2> QED
    BY <2>1
<1>7. i0 = 1
  BY <1>5, <1>6
<1>8. FirstLine(CanPlay) = console[i0]
  BY DEF FirstLine
<1> QED
  BY <1>1, <1>3, <1>7, <1>8

LEMMA TestLooksKeepsTInv ==
  ASSUME TInv, BootSeen \/ EvalPlay \/ EventSeen \/ MediaTestTimesOut
  PROVE  TInv'
<1>1. TestTypes /\ TestPhases
  BY DEF TInv
<1>2. TestOnly /\ UNCHANGED <<boot, console>>
  BY DEF BootSeen, EvalPlay, EventSeen, MediaTestTimesOut
<1>3. UNCHANGED <<parsed, hostEnded, played, boot, console>>
  BY <1>2 DEF TestOnly
<1>4. CASE BootSeen
  <2>1. /\ phase = "boot" /\ Heard(CanPlay) /\ UNCHANGED <<wantsPlay, mediaLate>>
        /\ phase' = IF (FirstLine(CanPlay) = "canPlayType empty") = (boot = 1) THEN "FAIL"
                    ELSE IF boot = 1 THEN "play" ELSE "PASS"
    BY <1>4 DEF BootSeen, MediaFlag
  <2>2. boot = 1 => FirstLine(CanPlay) = "canPlayType maybe"
    BY <2>1, FirstAnswer
  <2>3. boot # 1 => FirstLine(CanPlay) = "canPlayType empty"
    BY <2>1, FirstAnswer
  <2>4. phase' = IF boot = 1 THEN "play" ELSE "PASS"
    <3>1. CASE boot = 1
      <4>1. FirstLine(CanPlay) # "canPlayType empty"
        BY <2>2, <3>1
      <4> QED
        BY <2>1, <3>1, <4>1
    <3>2. CASE boot # 1
      <4>1. FirstLine(CanPlay) = "canPlayType empty"
        BY <2>3, <3>2
      <4> QED
        BY <2>1, <3>2, <4>1
    <3> QED
      BY <3>1, <3>2
  <2>5. TestTypes' /\ TestPhases'
    <3>1. boot' = boot /\ boot \in {1, 2} /\ ~wantsPlay /\ wantsPlay' = wantsPlay
      BY <1>1, <1>3, <2>1 DEF TestTypes, TestPhases
    <3>2. (boot = 1 /\ boot # 2 /\ phase' = "play") \/ (boot = 2 /\ phase' = "PASS")
      BY <2>4, <3>1
    <3>3. TestTypes'
      BY <1>1, <1>3, <2>1, <3>2 DEF TestTypes
    <3>4. TestPhases'
      BY <1>1, <1>3, <3>1, <3>2 DEF TestPhases
    <3> QED
      BY <3>3, <3>4
  <2>6. Untold' => Untold
    BY <2>1 DEF Untold
  <2> QED
    BY <1>2, <2>5, <2>6, TestOnlyKeepsTInv
<1>5. CASE EvalPlay
  <2>1. phase = "play" /\ wantsPlay' = TRUE /\ phase' = "playing" /\ UNCHANGED mediaLate
    BY <1>5 DEF EvalPlay
  <2>2. TestTypes' /\ TestPhases'
    BY <1>1, <1>3, <2>1 DEF TestTypes, TestPhases
  <2>3. Untold' => Untold
    BY <2>1 DEF Untold
  <2> QED
    BY <1>2, <2>2, <2>3, TestOnlyKeepsTInv
<1>6. CASE EventSeen
  <2>1. /\ phase \in {"playing", "ended"} /\ Heard({phase}) /\ UNCHANGED <<wantsPlay, mediaLate>>
        /\ phase' = IF phase = "playing" THEN "ended" ELSE "witness"
    BY <1>6 DEF EventSeen
  <2>2. phase' = "witness" => Heard({"ended"}) /\ Heard({"ended"})'
    <3>1. phase' = "witness" => phase = "ended"
      BY <2>1
    <3> QED
      BY <1>3, <2>1, <3>1 DEF Heard
  <2>3. TestTypes' /\ TestPhases'
    BY <1>1, <1>3, <2>1, <2>2 DEF TestTypes, TestPhases
  <2>4. Untold' => Untold
    BY <2>1 DEF Untold
  <2> QED
    BY <1>2, <2>3, <2>4, TestOnlyKeepsTInv
<1>7. CASE MediaTestTimesOut
  <2>1. /\ phase \in {"boot", "playing", "ended"} /\ phase' = "FAIL" /\ mediaLate' = TRUE
        /\ UNCHANGED wantsPlay
    BY <1>7 DEF MediaTestTimesOut
  <2>2. TestTypes' /\ TestPhases'
    BY <1>1, <1>3, <2>1 DEF TestTypes, TestPhases
  <2>3. Untold' => Untold
    BY <2>1 DEF Untold
  <2> QED
    BY <1>2, <2>2, <2>3, TestOnlyKeepsTInv
<1> QED
  BY <1>4, <1>5, <1>6, <1>7

\* What the host looks for is there, and the page is closed.
LEMMA WitnessKeepsTInv ==
  ASSUME TInv, Witness
  PROVE  TInv'
<1>1. phase = "witness" /\ UNCHANGED <<played, mediaLate>>
  BY DEF Witness
<1>2. Heard({"ended"}) /\ played /\ hostEnded /\ Heard({"-> blob"}) /\ TestTypes
  BY <1>1 DEF TInv, TestPhases, EndIsTrue
<1>3. /\ phase' = "boot" /\ boot' = 2 /\ console' = <<>>
      /\ parsed' = FALSE /\ wantsPlay' = FALSE /\ hostEnded' = FALSE /\ MediaInit' /\ toEngine' = <<>>
  BY <1>2 DEF Witness, ClearedLines, Reset, ClearedHttpFailed, MediaInit
<1>4. DOMAIN console' = {} /\ DOMAIN toEngine' = {}
  BY <1>3
<1>5. EndIsTrue'
  BY <1>4 DEF EndIsTrue, Heard, Told
<1>6. TestTypes'
  BY <1>1, <1>2, <1>3, EmptySeq DEF TestTypes
<1>7. TestPhases' /\ TestPage'
  BY <1>1, <1>2, <1>3 DEF TestPhases, TestPage
<1> QED
  BY <1>3, <1>5, <1>6, <1>7 DEF TInv

LEMMA MediaTestStepKeepsTInv ==
  ASSUME MInv, TInv, MediaTestStep
  PROVE  TInv'
<1>1. CASE PageParses
  BY <1>1, PageParsesKeepsTInv
<1>2. CASE GuestPlays \/ EndedArrives \/ BlobArrives \/ HostEnds \/ OthersProceed
  <2>1. Running
    BY <1>2, NothingIsUnderWay
  <2> QED
    BY <1>2, <2>1, GuestPlaysKeepsTInv, EndedArrivesKeepsTInv, BlobArrivesKeepsTInv,
       HostEndsKeepsTInv, OthersKeepTInv
<1>3. CASE BootSeen \/ EvalPlay \/ EventSeen \/ MediaTestTimesOut
  BY <1>3, TestLooksKeepsTInv
<1>4. CASE Witness
  BY <1>4, WitnessKeepsTInv
<1> QED
  BY <1>1, <1>2, <1>3, <1>4 DEF MediaTestStep

LEMMA TInvTellsTheTruth == TInv => MediaTestTellsTheTruth
  BY DEF TInv, TestPhases, MediaTestTellsTheTruth

-----------------------------------------------------------------------------
(* The whole page *)

LEMMA WInvStable ==
  ASSUME WInv, UNCHANGED wasmVars
  PROVE  WInv'
<1>1. /\ UNCHANGED <<workerVars, windows, global, pageRuns>>
      /\ UNCHANGED <<compiled, instantiated, fetching, returned, wasmCalls, fetchFaults>>
  BY DEF wasmVars, windowVars
<1>2. /\ compiled \in BOOLEAN /\ instantiated \in BOOLEAN /\ fetching \in BOOLEAN
      /\ returned \in Returns \cup {None} /\ wasmCalls \in 0..MaxWasmCalls
      /\ fetchFaults \in 0..MaxFetchFaults
  BY DEF WInv, WasmTypeOK
<1> QED
  BY <1>1, <1>2, CallsKeepWInv

LEMMA SInvStable ==
  ASSUME SInv, UNCHANGED stubVars
  PROVE  SInv'
<1>1. UNCHANGED <<el, listeners, onerror, timers, stack, wanted, calling, nextEntry, calls, defined>>
  BY DEF stubVars
<1> QED
  BY <1>1 DEF SInv, StubTypeOK, LoadStateIsHonest, TokensCount, ListWanted

LEMMA MInvStable ==
  ASSUME MInv, UNCHANGED mediaVars
  PROVE  MInv'
<1>1. UNCHANGED <<m_id, playerRegistry, m_networkState, m_readyState, m_paused, m_ended, m_seeking,
                  m_httpFailed, m_resource, toPage, toEngine, mediaPlayers, nextID, loaded, failed,
                  urls, mediaCalls>>
  BY DEF mediaVars, playerVars
<1>2. MediaTypeOK /\ Lives /\ UrlsCounted /\ Fetching /\ Current
  BY DEF MInv
<1>3. MediaTypeOK' /\ UrlsCounted' /\ Fetching'
  BY <1>1, <1>2 DEF MediaTypeOK, UrlsCounted, WithUrl, Fetching
<1>4. Lives'
  BY <1>1, <1>2 DEF Lives, Numbered, CreatedFirst, DestroyedLast, GoneIsEmpty
<1>5. Current'
  BY <1>1, <1>2 DEF Current, OnTheirWay, NotThereYet, WithoutData, WithData, ErrorsAreTrue
<1> QED
  BY <1>3, <1>4, <1>5 DEF MInv

\* The media test closes its page: the player begins anew.
LEMMA MediaInitAgain == MediaInit' => MInv'
  BY MInitMInv, PTL

LEMMA MediaTestStepKeepsMInv ==
  ASSUME MInv, MediaTestStep
  PROVE  MInv'
<1>1. CASE PageParses
  <2>1. SetSource \/ UNCHANGED mediaVars
    BY <1>1 DEF PageParses
  <2> QED
    BY <2>1, SetSourceKeepsMInv, MInvStable
<1>2. CASE GuestPlays
  BY <1>2, ControlKeepsMInv DEF GuestPlays
<1>3. CASE EndedArrives
  BY <1>3, HandleEventKeepsMInv DEF EndedArrives
<1>4. CASE BlobArrives
  BY <1>4, PageMessageKeepsMInv DEF BlobArrives
<1>5. CASE HostEnds
  <2>1. PICK id \in Ids : ElementEnds(id)
    BY <1>5 DEF HostEnds
  <2> QED
    BY <2>1, ElementsKeepMInv
<1>6. CASE OthersProceed
  <2>1. CASE FetchProceeds
    BY <2>1, FetchKeepsMInv
  <2>2. CASE \E id \in Ids : ElementAdvances(id) \/ ElementCanPlayThrough(id)
    <3>1. PICK id \in Ids : ElementAdvances(id) \/ ElementCanPlayThrough(id)
      BY <2>2
    <3> QED
      BY <3>1, ElementsKeepMInv
  <2> QED
    BY <1>6, <2>1, <2>2 DEF OthersProceed, ElementProceeds
<1>7. CASE BootSeen \/ EvalPlay \/ EventSeen \/ MediaTestTimesOut
  <2>1. UNCHANGED mediaVars
    BY <1>7 DEF BootSeen, EvalPlay, EventSeen, MediaTestTimesOut, TestOnly
  <2> QED
    BY <2>1, MInvStable
<1>8. CASE Witness
  <2>1. UNCHANGED mediaVars \/ MediaInit'
    BY <1>8 DEF Witness, Reset, ClearedHttpFailed, MediaInit
  <2> QED
    BY <2>1, MInvStable, MediaInitAgain
<1> QED
  BY <1>1, <1>2, <1>3, <1>4, <1>5, <1>6, <1>7, <1>8 DEF MediaTestStep

IInv ==
  /\ uses \in Apis
  /\ WInv /\ SInv /\ MInv
  /\ uses = "gate 9" => GInv
  /\ uses = "media test" => TInv

LEMMA InitIInv == Init => IInv
  BY WInitWInv, SInitSInv, MInitMInv, GInitGInv, TInitTInv DEF Init, IInv

OnlyWanted == (calling' # NoListener /\ stack' # stack) => wanted[calling'] # "no"

\* What the three parts do not share stays as it is.
LEMMA OnlyTheInjection ==
  ASSUME IInv, UNCHANGED uses, WInv', UNCHANGED <<mediaVars, testVars>>,
         Ready => Ready', fetchFaults' = 0 => fetchFaults = 0,
         SInv', OnlyWanted
  PROVE  IInv' /\ OnlyWanted
<1>1. /\ uses \in Apis /\ MInv /\ WInv
      /\ (uses = "gate 9" => GInv) /\ (uses = "media test" => TInv)
  BY DEF IInv
<1>2. MInv'
  BY <1>1, MInvStable
<1>3. fetchFaults \in Nat /\ fetchFaults' \in Nat
  <2>1. fetchFaults \in 0..MaxFetchFaults /\ fetchFaults' \in 0..MaxFetchFaults
    BY <1>1 DEF WInv, WasmTypeOK
  <2> QED
    BY <2>1, WasmAssumption
<1>4. uses = "gate 9" => GInv'
  <2>1. UNCHANGED gate9Vars
    BY DEF testVars
  <2> QED
    BY <1>1, <1>3, <2>1, GInvStable
<1>5. uses = "media test" => TInv'
  <2>1. UNCHANGED mediaTestVars
    BY DEF testVars
  <2> QED
    BY <1>1, <2>1, TInvStable
<1> QED
  BY <1>1, <1>2, <1>4, <1>5 DEF IInv

LEMMA StepKeepsIInv ==
  ASSUME IInv, Next
  PROVE  IInv' /\ OnlyWanted
<1>1. /\ uses' = uses /\ uses \in Apis /\ WInv /\ SInv /\ MInv
      /\ (uses = "gate 9" => GInv) /\ (uses = "media test" => TInv)
  BY DEF Next, IInv
<1>2. ASSUME UNCHANGED stubVars PROVE SInv' /\ OnlyWanted
  <2>1. stack' = stack
    BY <1>2 DEF stubVars
  <2> QED
    BY <1>1, <1>2, <2>1, SInvStable DEF OnlyWanted
<1>3. ASSUME CallReturns \/ PageStarts, UNCHANGED <<stubVars, mediaVars, testVars>>
      PROVE  IInv' /\ OnlyWanted
  <2>1. WInv'
    BY <1>1, <1>3, WindowsKeepWInv
  <2>2. UNCHANGED <<hooks, binaryen, fetchFaults>>
    BY <1>3 DEF CallReturns, PageStarts, workerVars
  <2>3. (Ready => Ready') /\ (fetchFaults' = 0 => fetchFaults = 0)
    BY <2>2 DEF Ready
  <2> QED
    BY <1>1, <1>2, <1>3, <2>1, <2>3, OnlyTheInjection
<1>4. ASSUME BootStep, UNCHANGED <<stubVars, mediaVars, testVars>>
      PROVE  IInv' /\ OnlyWanted
  <2>1. /\ WInv' /\ (hooks => hooks') /\ (binaryen = "loaded" /\ hooks => binaryen' = "loaded")
        /\ (fetchFaults' = 0 => fetchFaults = 0)
    BY <1>1, <1>4, BootKeepsWInv
  <2>2. Ready => Ready'
    BY <2>1 DEF Ready
  <2> QED
    BY <1>1, <1>2, <1>4, <2>1, <2>2, OnlyTheInjection
<1>5. ASSUME Navigate \/ Reannounce
      PROVE  IInv' /\ OnlyWanted
  <2>1. PICK halves : StubInWindow(halves) \/ StubInNewWindow(halves)
    BY <1>5 DEF Navigate, Reannounce
  <2>2. SInv' /\ OnlyWanted
    BY <1>1, <2>1, ScriptKeepsSInv DEF OnlyWanted
  <2>3. /\ UNCHANGED <<mediaVars, testVars>> /\ (NewWindow \/ SameWindow)
        /\ WInv'
    BY <1>1, <1>5, WindowsKeepWInv DEF Navigate, Reannounce
  <2>4. UNCHANGED <<hooks, binaryen>> /\ (fetchFaults' = fetchFaults \/ Spent(1))
    BY <2>3 DEF NewWindow, SameWindow, workerVars, ReadSource
  <2>5. (Ready => Ready') /\ (fetchFaults' = 0 => fetchFaults = 0)
    <3>1. ASSUME Spent(1) PROVE fetchFaults' = 0 => fetchFaults = 0
      BY <1>1, <3>1, FaultsGrow DEF WInv, WasmTypeOK
    <3>2. Ready => Ready'
      BY <2>4 DEF Ready
    <3> QED
      BY <2>4, <3>1, <3>2
  <2> QED
    BY <1>1, <2>2, <2>3, <2>5, OnlyTheInjection
<1>6. ASSUME WasmPage PROVE IInv' /\ OnlyWanted
  <2>1. uses \notin Tests /\ WInv' /\ UNCHANGED <<stubVars, mediaVars>>
    BY <1>1, <1>6, WasmStepKeepsWInv DEF WasmPage, Tests
  <2>2. SInv' /\ OnlyWanted /\ MInv'
    BY <1>1, <1>2, <2>1, MInvStable
  <2> QED
    BY <1>1, <2>1, <2>2 DEF IInv, Tests
<1>7. ASSUME StubPage PROVE IInv' /\ OnlyWanted
  <2>1. /\ uses \notin Tests /\ UNCHANGED wasmVars /\ UNCHANGED mediaVars
        /\ GuestStep \/ StubStep
    BY <1>7 DEF StubPage, Tests
  <2>2. SInv' /\ OnlyWanted
    BY <1>1, <2>1, GuestStepKeepsSInv, StubStepKeepsSInv DEF OnlyWanted
  <2>3. WInv' /\ MInv'
    BY <1>1, <2>1, WInvStable, MInvStable
  <2> QED
    BY <1>1, <2>1, <2>2, <2>3 DEF IInv, Tests
<1>8. ASSUME MediaPage PROVE IInv' /\ OnlyWanted
  <2>1. /\ uses \notin Tests /\ UNCHANGED wasmVars /\ UNCHANGED stubVars
        /\ MediaCall \/ MediaStep
    BY <1>8 DEF MediaPage, Tests
  <2>2. WInv' /\ MInv'
    BY <1>1, <2>1, WInvStable, MediaCallKeepsMInv, MediaStepKeepsMInv
  <2> QED
    BY <1>1, <1>2, <2>1, <2>2 DEF IInv, Tests
<1>9. ASSUME Gate9Page PROVE IInv' /\ OnlyWanted
  <2>1. uses = "gate 9" /\ uses # "media test" /\ Gate9Step /\ UNCHANGED stubVars /\ UNCHANGED mediaVars
    BY <1>9 DEF Gate9Page
  <2>2. WInv' /\ GInv' /\ MInv'
    BY <1>1, <2>1, Gate9StepKeepsGInv, MInvStable
  <2> QED
    BY <1>1, <1>2, <2>1, <2>2 DEF IInv, Tests
<1>10. ASSUME MediaTestPage PROVE IInv' /\ OnlyWanted
  <2>1. uses = "media test" /\ uses # "gate 9" /\ MediaTestStep /\ UNCHANGED wasmVars /\ UNCHANGED stubVars
    BY <1>10 DEF MediaTestPage
  <2>2. WInv' /\ MInv' /\ TInv'
    BY <1>1, <2>1, WInvStable, MediaTestStepKeepsMInv, MediaTestStepKeepsTInv
  <2> QED
    BY <1>1, <1>2, <2>1, <2>2 DEF IInv, Tests
<1> QED
  BY <1>3, <1>4, <1>5, <1>6, <1>7, <1>8, <1>9, <1>10 DEF Next

LEMMA StutterKeepsIInv ==
  ASSUME IInv, UNCHANGED vars
  PROVE  IInv' /\ UNCHANGED stubVars
<1>1. /\ uses' = uses /\ UNCHANGED wasmVars /\ UNCHANGED stubVars /\ UNCHANGED mediaVars
      /\ UNCHANGED testVars /\ UNCHANGED gate9Vars
  BY DEF vars, testVars
<1>2. WInv' /\ SInv'
  BY <1>1, WInvStable, SInvStable DEF IInv
<1>3. (Ready => Ready') /\ fetchFaults' = fetchFaults
  BY <1>1 DEF wasmVars, workerVars, Ready
<1>4. OnlyWanted
  BY <1>1 DEF stubVars, OnlyWanted
<1> QED
  BY <1>1, <1>2, <1>3, <1>4, OnlyTheInjection

\* Every reachable state is one IInv describes.
THEOREM Invariance == Spec => []IInv
<1>1. IInv /\ [Next]_vars => IInv'
  BY StepKeepsIInv, StutterKeepsIInv
<1> QED
  BY InitIInv, <1>1, PTL DEF Spec

\* Every variable of the four parts keeps its type, whatever the page uses.
THEOREM TypeCorrect == Spec => []TypeOK
<1>1. IInv => TypeOK
  BY DEF IInv, WInv, SInv, MInv, TypeOK, ListWanted, ListedOnce
<1> QED
  BY Invariance, <1>1, PTL

\* Whatever the scripts could be fetched and however often a window is announced, no
\* page runs with the bridge on its global object, and the text injected is the one
\* that the hooks fetched, not the emptiness from before them; without it is only the
\* session in which an allocation failed.
THEOREM InjectionIsSound == Spec => []InjectionSound
<1>1. IInv => InjectionSound
  BY DEF IInv, WInv, InjectionSound, BridgeTakenBack
<1> QED
  BY Invariance, <1>1, PTL

\* A call of the polyfill is the only step that tells the guest something of a module.
LEMMA ScanStays ==
  ASSUME ScanTellsTables, [Next]_vars
  PROVE  ScanTellsTables'
<1>1. ASSUME returned' = returned PROVE ScanTellsTables'
  BY <1>1 DEF ScanTellsTables
<1>2. ASSUME returned' = None PROVE ScanTellsTables'
  BY <1>2 DEF ScanTellsTables
<1>3. ASSUME UNCHANGED wasmVars PROVE ScanTellsTables'
  BY <1>1, <1>3 DEF wasmVars
<1>4. ASSUME CallReturns \/ Navigate \/ Reannounce PROVE ScanTellsTables'
  BY <1>2, <1>4 DEF CallReturns, Navigate, Reannounce, NewWindow, SameWindow
<1>5. ASSUME BootStep \/ PageStarts PROVE ScanTellsTables'
  BY <1>1, <1>5 DEF BootStep, Attempt, BuildModule, MainStarts, BinaryenArrives, PageStarts
<1>6. ASSUME WasmPage PROVE ScanTellsTables'
  BY <1>6, WasmStepTells DEF WasmPage
<1>7. ASSUME StubPage \/ MediaPage \/ MediaTestPage PROVE ScanTellsTables'
  BY <1>3, <1>7 DEF StubPage, MediaPage, MediaTestPage
<1>8. ASSUME Gate9Page PROVE ScanTellsTables'
  <2>1. Gate9Step
    BY <1>8 DEF Gate9Page
  <2>2. UNCHANGED wasmVars \/ returned' = returned
    BY <2>1 DEF Gate9Step, ProbeSync, ProbeAsync, ProbeStreams, ProbeVerdict, VerdictSeen,
                GateTimesOut, Proceeds
  <2> QED
    BY <1>1, <1>3, <2>2
<1>9. ASSUME UNCHANGED vars PROVE ScanTellsTables'
  BY <1>3, <1>9 DEF vars
<1> QED
  BY <1>4, <1>5, <1>6, <1>7, <1>8, <1>9 DEF Next

\* The pre-scan decides exactly the modules whose bytes list several tables, well-formed
\* or not, cut off or not; every other one has its answer on its merits, and so have
\* these, but for those that are broken elsewhere, which validate as "true".
THEOREM ScanTellsTheTables == Spec => []ScanTellsTables
<1>1. Init => ScanTellsTables
  BY DEF Init, WasmInit, ScanTellsTables
<1> QED
  BY <1>1, ScanStays, PTL DEF Spec

\* While the stub's element is loading, the failure of its latest load is queued; its
\* error is the latest load's; and a source taken away stays empty.
THEOREM LoadStateHonest == Spec => []LoadStateIsHonest
<1>1. IInv => LoadStateIsHonest
  BY DEF IInv, SInv
<1> QED
  BY Invariance, <1>1, PTL

\* No dispatch calls a listener that the guest has removed, or a once listener again.
THEOREM OnlyWantedCalled == Spec => OnlyWantedAreCalled
<1>1. IInv /\ [Next]_vars =>
        [(calling' # NoListener /\ stack' # stack) => wanted[calling'] # "no"]_stubVars
  BY StepKeepsIInv, StutterKeepsIInv DEF OnlyWanted
<1> QED
  BY Invariance, <1>1, PTL DEF Spec, OnlyWantedAreCalled

\* What the player tells WebCore is about its current source, and once the page has
\* caught up no blob URL is left but that of the current element.
THEOREM MediaStateIsSound == Spec => []MediaStateSound
<1>1. IInv => MediaStateSound
  BY MInvIsSound DEF IInv
<1> QED
  BY Invariance, <1>1, PTL

\* Gate 9 and the media test say PASS only of what did work: every check of the probe
\* with binaryen there, a sound source played to its end; and they say FAIL only for a
\* cause, never on what an earlier boot logged.
THEOREM AcceptanceIsHonest == Spec => []AcceptanceTellsTheTruth
<1>1. IInv => AcceptanceTellsTheTruth
  BY GInvTellsTheTruth, TInvTellsTheTruth DEF IInv, AcceptanceTellsTheTruth
<1> QED
  BY Invariance, <1>1, PTL

-----------------------------------------------------------------------------
(* The server that the page comes from: dev-server.mjs, the browser's copy *)
(* of an artifact, a build that rewrites it, and gate 6.                   *)
(*                                                                         *)
(* A 304 confirms whatever copy the browser has.  CopyHonest says why that *)
(* is no torn one: a stream reads something else than stat saw only when a *)
(* later build has truncated the file, and then no stat will see that      *)
(* content again.                                                          *)

Builds == 1..(MaxBuilds + 1)

Copies == [etag : ETags, body : Bodies, of : Bodies, time : 0..MaxClock]
RequestRecords == [at : {"none", "sent", "streaming"}, ifNoneMatch : ETags, etag : ETags,
          body : Bodies, of : Bodies, time : 0..MaxClock]
Statuses == {0, 200, 304, 403, 404, 500}
AnswerRecords == [path : Paths, status : Statuses, body : Bodies,
            file : {Route(path).file : path \in Paths} \cup {Missing}]

FilesTyped ==
  /\ file \in Bodies /\ mtime \in 0..now /\ now \in 0..MaxClock
  /\ unwritten \in 0..MaxChunks /\ build \in Builds
  /\ Len(file) + unwritten <= MaxChunks

BrowserTyped ==
  /\ cache \in Copies /\ request \in RequestRecords /\ answer \in AnswerRecords
  /\ loads \in 0..MaxLoads /\ quiet \in BOOLEAN

GateTyped ==
  /\ leg \in {"none", "set", "echo", "redirect-set", "redirected"}
  /\ jar \subseteq Cookies /\ carried \subseteq Cookies
  /\ signals \in [Signals -> Colours] /\ shown \in [Signals -> Colours]
  /\ driver \in Drivers /\ verdict \in {"none", "PASS", "FAIL"}
  /\ faults \in 0..MaxFaults

StartsWith(f, s) == Len(s) <= Len(f) /\ \A i \in 1..Len(s) : s[i] = f[i]

\* Content that a later build has overwritten.
Past(s, b) == s # <<>> /\ \A i \in 1..Len(s) : s[i] < b

\* A copy that is not what stat saw is of the past: the build that tore it has begun
\* a new content since.
CopyHonest ==
  /\ \A i \in 1..Len(file) : file[i] = build
  /\ cache.etag = <<>> \/ cache.etag = <<Len(cache.of), cache.time>>
  /\ cache.body = cache.of \/ Past(cache.of, build)

\* What the stream reads is what stat saw, or that is of the past.
StreamHonest ==
  /\ request # NoRequest =>
       /\ answer.file = Artifact /\ answer.status = 0
       /\ request.at \in {"sent", "streaming"}
  /\ request.at = "sent" => request.ifNoneMatch = cache.etag /\ request.body = <<>>
  /\ request.at = "streaming" =>
       /\ request.etag = <<Len(request.of), request.time>>
       /\ \/ Past(request.of, build) \/ request.of = <<>>
          \/ StartsWith(file, request.of) /\ StartsWith(file, request.body)
       /\ quiet => request.of = file

\* What is not refused is under the root of its mount.
Mounted ==
  /\ answer.file # Missing => InRoot(answer.file, MountOf(answer.path).root)
  /\ answer.status \in {200, 304} => answer.file # Missing

BothCookies == {"bibtest", "bibredir"}

\* Each leg of the gate finds the cookies of the ones before it; a signal is red, on the
\* page or on the screen, because something failed, and does not turn gray again.
GateHonest ==
  /\ leg \in {"echo", "redirect-set"} => "bibtest" \in jar
  /\ leg = "redirected" => BothCookies \subseteq carried
  /\ \A s \in Signals : /\ signals[s] = "red" \/ shown[s] = "red" => faults > 0
                        /\ shown[s] # "gray" => signals[s] # "gray"
  /\ signals["redir"] = "green" \/ shown["redir"] = "green" => BothCookies \subseteq carried
  /\ driver = "booting" => leg = "none" /\ signals = Gray /\ shown = Gray
  /\ driver = "checking" /\ faults = 0 => AllLeftGray
  /\ driver # "done" => verdict = "none"

BrowserInv == FilesTyped /\ BrowserTyped /\ CopyHonest /\ StreamHonest /\ Mounted /\ LoadsAreFresh
GateInv == GateTyped /\ GateHonest /\ GateTellsTheTruth
ServerInv == BrowserInv /\ GateInv

-----------------------------------------------------------------------------
(* Mounts *)

\* The first mount that fits is the most specific one.
LEMMA MountIsMostSpecific ==
  ASSUME NEW path
  PROVE  LET fits == {i \in DOMAIN mounts : IsPrefix(mounts[i].prefix, path)}
         IN IF fits = {} THEN MountOf(path).root = ROOT
            ELSE \E i \in fits :
                   /\ \A j \in fits : Len(mounts[j].prefix) <= Len(mounts[i].prefix)
                   /\ MountOf(path).root = mounts[i].root
<1> DEFINE fits == {i \in DOMAIN mounts : IsPrefix(mounts[i].prefix, path)}
<1>1. DOMAIN mounts = {1, 2}
  BY DEF mounts
<1>2. Len(mounts[1].prefix) = 2 /\ Len(mounts[2].prefix) = 1
  BY DEF mounts
<1>3. fits \subseteq {1, 2}
  BY <1>1
<1>4. CASE fits = {}
  BY <1>4 DEF MountOf
<1>5. CASE fits # {}
  <2> DEFINE i == CHOOSE x \in fits : \A j \in fits : x <= j
  <2>1. \E x \in fits : \A j \in fits : x <= j
    BY <1>3, <1>5
  <2>2. i \in fits /\ \A j \in fits : i <= j
    BY <2>1
  <2>3. MountOf(path).root = mounts[i].root
    BY <1>5 DEF MountOf
  <2> HIDE DEF i
  <2>4. \A j \in fits : Len(mounts[j].prefix) <= Len(mounts[i].prefix)
    <3> SUFFICES ASSUME NEW j \in fits
                 PROVE  Len(mounts[j].prefix) <= Len(mounts[i].prefix)
      OBVIOUS
    <3>1. i \in {1, 2} /\ j \in {1, 2} /\ i <= j
      BY <1>3, <2>2
    <3>2. (i = 1 /\ j \in {1, 2}) \/ (i = 2 /\ j = 2)
      BY <3>1
    <3>3. CASE i = 1 /\ j = 1
      BY <1>2, <3>3
    <3>4. CASE i = 1 /\ j = 2
      <4>1. Len(mounts[j].prefix) = 1 /\ Len(mounts[i].prefix) = 2
        BY <1>2, <3>4
      <4>2. 1 <= 2
        OBVIOUS
      <4> QED
        BY <4>1, <4>2
    <3>5. CASE i = 2 /\ j = 2
      BY <1>2, <3>5
    <3> QED
      BY <3>2, <3>3, <3>4, <3>5
  <2> QED
    BY <1>5, <2>2, <2>3, <2>4
<1> QED
  BY <1>4, <1>5

\* A route that is not refused stays inside the root of its mount, through directories
\* and links too.
LEMMA RouteIsMounted ==
  ASSUME NEW path
  PROVE  /\ Route(path).status \in {200, 403, 404}
         /\ Route(path).status = 200 <=> Route(path).file # Missing
         /\ Route(path).file # Missing => InRoot(Route(path).file, MountOf(path).root)
<1> DEFINE root == MountOf(path).root
           candidate == Resolve(root, SubSeq(path, Len(MountOf(path).prefix) + 1, Len(path)))
           real == Realpath(candidate)
           served == IF real \in Directories THEN Realpath(Append(real, "index.html")) ELSE real
<1>1. Route(path) = IF ~InRoot(candidate, root) THEN Refused(403)
                    ELSE IF served = Missing THEN Refused(404)
                    ELSE IF ~InRoot(served, root) THEN Refused(403)
                    ELSE [status |-> 200, file |-> served]
  BY DEF Route
<1> HIDE DEF root, candidate, real, served
<1>2. root = MountOf(path).root
  BY DEF root
<1> QED
  BY <1>1, <1>2 DEF Refused

LEMMA ArtifactThere == Artifact # Missing /\ <<>> \in Paths /\ Len(<<>>) = 0
<1>1. Artifact[1] = "bin" /\ Missing[1] = "missing"
  BY DEF Artifact, Missing
<1>2. Artifact # Missing
  BY <1>1
<1>3. <<>> \in Paths
  BY DEF Paths
<1> QED
  BY <1>2, <1>3, EmptySeq

-----------------------------------------------------------------------------
(* Contents and tags *)

LEMMA BodiesAreSequences ==
  ASSUME NEW s
  PROVE  s \in Bodies <=> s \in Seq(Builds) /\ Len(s) <= MaxChunks
<1>1. ASSUME s \in Bodies PROVE s \in Seq(Builds) /\ Len(s) <= MaxChunks
  <2>1. PICK n \in 0..MaxChunks : s \in [1..n -> Builds]
    BY <1>1 DEF Bodies, Builds
  <2>2. n \in Nat /\ n <= MaxChunks
    BY <2>1, BoundAssumption
  <2>3. s \in Seq(Builds)
    BY <2>1, <2>2, SeqDef
  <2>4. Len(s) \in Nat /\ 1..Len(s) = 1..n
    BY <2>1, <2>3, LenProperties
  <2>5. Len(s) = n
    BY <2>2, <2>4
  <2> QED
    BY <2>2, <2>3, <2>5
<1>2. ASSUME s \in Seq(Builds), Len(s) <= MaxChunks PROVE s \in Bodies
  <2>1. Len(s) \in 0..MaxChunks /\ s \in [1..Len(s) -> Builds]
    BY <1>2, LenProperties, BoundAssumption
  <2> QED
    BY <2>1 DEF Bodies, Builds
<1> QED
  BY <1>1, <1>2

LEMMA EmptyBody == <<>> \in Bodies
<1>1. <<>> \in Seq(Builds) /\ Len(<<>>) = 0
  BY EmptySeq
<1>2. 0 <= MaxChunks
  BY BoundAssumption
<1> QED
  BY <1>1, <1>2, BodiesAreSequences

LEMMA TagTyped ==
  ASSUME FilesTyped
  PROVE  ETag \in ETags /\ mtime \in 0..MaxClock
<1>1. file \in Seq(Builds) /\ Len(file) <= MaxChunks
  BY BodiesAreSequences DEF FilesTyped
<1>2. Len(file) \in 0..MaxChunks
  BY <1>1, LenProperties, BoundAssumption
<1>3. mtime \in 0..MaxClock
  BY BoundAssumption DEF FilesTyped
<1> QED
  BY <1>2, <1>3 DEF ETag, ETags

-----------------------------------------------------------------------------
(* What a build does to a copy *)

LEMMA PastStays ==
  ASSUME NEW s \in Seq(Builds), NEW b \in Builds, NEW c \in Builds, b <= c, Past(s, b)
  PROVE  Past(s, c)
<1>1. \A i \in 1..Len(s) : s[i] \in Nat /\ s[i] < b
  BY LenProperties, ElementOfSeq, BoundAssumption DEF Past, Builds
<1>2. b \in Nat /\ c \in Nat
  BY BoundAssumption DEF Builds
<1> QED
  BY <1>1, <1>2 DEF Past

\* What a load or a copy was when stat saw it is of the past once the build truncates.
LEMMA TruncatedIsPast ==
  ASSUME NEW f \in Seq(Builds), NEW s \in Seq(Builds), NEW b \in Builds, s # <<>>,
         \A i \in 1..Len(f) : f[i] = b, StartsWith(f, s)
  PROVE  Past(s, b + 1)
<1>1. Len(s) \in Nat /\ Len(f) \in Nat
  BY LenProperties
<1>2. \A i \in 1..Len(s) : i \in 1..Len(f) /\ s[i] = b
  BY <1>1 DEF StartsWith
<1>3. b < b + 1
  BY BoundAssumption DEF Builds
<1> QED
  BY <1>2, <1>3 DEF Past

LEMMA StartsStay ==
  ASSUME NEW f \in Seq(Builds), NEW s \in Seq(Builds), NEW b \in Builds, StartsWith(f, s)
  PROVE  StartsWith(Append(f, b), s)
<1>1. /\ Len(s) \in Nat /\ Len(f) \in Nat /\ Len(Append(f, b)) = Len(f) + 1
      /\ \A i \in 1..Len(f) : Append(f, b)[i] = f[i]
  BY OneMore, LenProperties
<1>2. Len(s) <= Len(f) /\ \A i \in 1..Len(s) : s[i] = f[i]
  BY DEF StartsWith
<1>3. \A i \in 1..Len(s) : i \in 1..Len(f)
  BY <1>1, <1>2
<1>4. Len(s) <= Len(f) + 1
  BY <1>1, <1>2
<1> QED
  BY <1>1, <1>2, <1>3, <1>4 DEF StartsWith

\* The sequences that BrowserInv speaks of.
LEMMA BrowserFacts ==
  ASSUME BrowserInv
  PROVE  /\ file \in Seq(Builds) /\ Len(file) \in Nat /\ Len(file) <= MaxChunks
         /\ cache \in Copies /\ cache.body \in Seq(Builds) /\ cache.of \in Seq(Builds)
         /\ cache.etag \in ETags /\ cache.body \in Bodies
         /\ request \in RequestRecords /\ request.body \in Seq(Builds) /\ request.of \in Seq(Builds)
         /\ request.body \in Bodies /\ request.of \in Bodies /\ request.etag \in ETags
         /\ answer \in AnswerRecords
<1>1. /\ file \in Bodies /\ cache \in Copies /\ request \in RequestRecords /\ answer \in AnswerRecords
  BY DEF BrowserInv, FilesTyped, BrowserTyped
<1>2. /\ cache.body \in Bodies /\ cache.of \in Bodies /\ cache.etag \in ETags
      /\ request.body \in Bodies /\ request.of \in Bodies /\ request.etag \in ETags
  BY <1>1 DEF Copies, RequestRecords
<1>3. \A s : s \in Bodies => s \in Seq(Builds) /\ Len(s) <= MaxChunks
  BY BodiesAreSequences
<1>4. Len(file) \in Nat
  BY <1>1, <1>3, LenProperties
<1> QED
  BY <1>1, <1>2, <1>3, <1>4

\* What the file holds is not of the past.
LEMMA NowIsNotPast ==
  ASSUME BrowserInv
  PROVE  ~Past(file, build)
<1>1. SUFFICES ASSUME file # <<>> PROVE \E i \in 1..Len(file) : ~(file[i] < build)
  BY DEF Past
<1>2. 1 \in 1..Len(file)
  BY <1>1, BrowserFacts, LenProperties, EmptySeq
<1>3. file[1] = build /\ build \in Nat
  BY <1>2, BoundAssumption DEF CopyHonest, BrowserInv, FilesTyped, Builds
<1> QED
  BY <1>2, <1>3

\* The first n elements of a sequence.
LEMMA FrontPart ==
  ASSUME NEW S, NEW s \in Seq(S), NEW n \in Nat, n <= Len(s)
  PROVE  /\ SubSeq(s, 1, n) \in Seq(S) /\ Len(SubSeq(s, 1, n)) = n
         /\ \A i \in 1..n : SubSeq(s, 1, n)[i] = s[i]
<1>1. Len(s) \in Nat
  BY LenProperties
<1>2. 1 \in 1..(Len(s) + 1) /\ n \in (1 - 1)..Len(s) /\ n - 1 + 1 = n
  BY <1>1
<1>3. /\ SubSeq(s, 1, n) \in Seq(S) /\ Len(SubSeq(s, 1, n)) = n - 1 + 1
      /\ \A i \in 1..(n - 1 + 1) : SubSeq(s, 1, n)[i] = s[1 + i - 1]
  BY <1>2, SubSeqProperties
<1>4. \A i \in 1..n : 1 + i - 1 = i
  OBVIOUS
<1> QED
  BY <1>2, <1>3, <1>4

LEMMA BuildStartsKeeps ==
  ASSUME BrowserInv, BuildStarts
  PROVE  BrowserInv'
<1>1. /\ build <= MaxBuilds /\ build' = build + 1 /\ unwritten' \in 1..MaxChunks
      /\ file' = <<>> /\ mtime' = now /\ quiet' = FALSE
      /\ UNCHANGED <<now, cache, request, answer, loads>>
  BY DEF BuildStarts, Wrote, browserVars
<1>2. FilesTyped /\ BrowserTyped /\ CopyHonest /\ StreamHonest /\ Mounted
  BY DEF BrowserInv
<1>3. build \in Builds /\ build' \in Builds /\ build <= build'
  BY <1>1, <1>2, BoundAssumption DEF FilesTyped, Builds
<1>4. FilesTyped'
  <2>1. now \in 0..MaxClock /\ mtime' \in 0..now
    BY <1>1, <1>2, BoundAssumption DEF FilesTyped
  <2>2. unwritten' \in 0..MaxChunks /\ 0 + unwritten' <= MaxChunks
    <3>1. unwritten' \in 1..MaxChunks
      BY <1>1
    <3>2. \A u \in 1..MaxChunks : u \in 0..MaxChunks /\ 0 + u <= MaxChunks
      BY BoundAssumption
    <3> QED
      BY <3>1, <3>2
  <2>3. file' \in Bodies /\ Len(file') = 0
    BY <1>1, EmptyBody, EmptySeq
  <2> QED
    BY <1>1, <1>3, <2>1, <2>2, <2>3 DEF FilesTyped
<1>5. BrowserTyped'
  BY <1>1, <1>2 DEF BrowserTyped
<1>6. CopyHonest'
  <2>1. \A i \in 1..Len(file') : file'[i] = build'
    BY <1>1, EmptySeq
  <2>2. Past(cache.of, build) => Past(cache.of, build')
    BY <1>3, PastStays, BrowserFacts
  <2> QED
    BY <1>1, <1>2, <2>1, <2>2 DEF CopyHonest
<1>7. StreamHonest'
  <2>1. ASSUME request.at = "streaming" PROVE Past(request.of, build') \/ request.of = <<>>
    <3>1. CASE Past(request.of, build)
      BY <1>3, <3>1, PastStays, BrowserFacts
    <3>2. CASE request.of # <<>> /\ StartsWith(file, request.of)
      <4>1. \A i \in 1..Len(file) : file[i] = build
        BY <1>2 DEF CopyHonest
      <4> QED
        BY <1>1, <1>3, <3>2, <4>1, TruncatedIsPast, BrowserFacts
    <3> QED
      BY <1>2, <2>1, <3>1, <3>2 DEF StreamHonest
  <2> QED
    BY <1>1, <1>2, <2>1 DEF StreamHonest
<1>8. Mounted'
  BY <1>1, <1>2 DEF Mounted
<1>9. LoadsAreFresh'
  BY <1>1 DEF LoadsAreFresh
<1> QED
  BY <1>4, <1>5, <1>6, <1>7, <1>8, <1>9 DEF BrowserInv

LEMMA BuildWritesKeeps ==
  ASSUME BrowserInv, BuildWrites
  PROVE  BrowserInv'
<1>1. /\ unwritten > 0 /\ unwritten' = unwritten - 1
      /\ file' = Append(file, build) /\ mtime' = now /\ quiet' = FALSE
      /\ UNCHANGED <<now, build, cache, request, answer, loads>>
  BY DEF BuildWrites, Wrote, browserVars
<1>2. FilesTyped /\ BrowserTyped /\ CopyHonest /\ StreamHonest /\ Mounted
  BY DEF BrowserInv
<1>3. build \in Builds /\ file \in Seq(Builds) /\ Len(file) \in Nat
  BY <1>2, BrowserFacts DEF FilesTyped
<1>4. /\ file' \in Seq(Builds) /\ Len(file') = Len(file) + 1
      /\ \A i \in 1..Len(file) : file'[i] = file[i]
      /\ file'[Len(file) + 1] = build
  BY <1>1, <1>3, OneMore
<1>5. FilesTyped'
  <2>1. now \in 0..MaxClock /\ mtime' \in 0..now
    BY <1>1, <1>2, BoundAssumption DEF FilesTyped
  <2>2. /\ unwritten' \in 0..MaxChunks /\ Len(file') + unwritten' <= MaxChunks
        /\ Len(file') <= MaxChunks
    <3>1. unwritten \in 0..MaxChunks /\ Len(file) + unwritten <= MaxChunks
      BY <1>2 DEF FilesTyped
    <3>2. Len(file') = Len(file) + 1
      BY <1>4
    <3> QED
      BY <1>1, <1>3, <3>1, <3>2, BoundAssumption
  <2>3. file' \in Bodies
    BY <1>4, <2>2, BodiesAreSequences
  <2> QED
    BY <1>1, <1>3, <2>1, <2>2, <2>3 DEF FilesTyped
<1>6. BrowserTyped'
  BY <1>1, <1>2 DEF BrowserTyped
<1>7. CopyHonest'
  <2>1. ASSUME NEW i \in 1..Len(file') PROVE file'[i] = build
    <3>1. i \in 1..Len(file) \/ i = Len(file) + 1
      <4>1. Len(file') = Len(file) + 1
        BY <1>4
      <4> QED
        BY <1>3, <4>1
    <3> QED
      BY <1>2, <1>4, <3>1 DEF CopyHonest
  <2> QED
    BY <1>1, <1>2, <2>1 DEF CopyHonest
<1>8. StreamHonest'
  <2>1. \A s \in Seq(Builds) : StartsWith(file, s) => StartsWith(file', s)
    BY <1>1, <1>3, StartsStay
  <2> QED
    BY <1>1, <1>2, <2>1, BrowserFacts DEF StreamHonest
<1>9. Mounted'
  BY <1>1, <1>2 DEF Mounted
<1>10. LoadsAreFresh'
  BY <1>1 DEF LoadsAreFresh
<1> QED
  BY <1>5, <1>6, <1>7, <1>8, <1>9, <1>10 DEF BrowserInv

LEMMA ClockTicksKeeps ==
  ASSUME BrowserInv, ClockTicks
  PROVE  BrowserInv'
<1>1. /\ now < MaxClock /\ now' = now + 1
      /\ UNCHANGED <<file, mtime, unwritten, build, cache, request, answer, loads, quiet>>
  BY DEF ClockTicks, browserVars, buildVars
<1>2. FilesTyped /\ BrowserTyped /\ CopyHonest /\ StreamHonest /\ Mounted /\ LoadsAreFresh
  BY DEF BrowserInv
<1>3. FilesTyped'
  <2>1. now' \in 0..MaxClock /\ mtime \in 0..now'
    BY <1>1, <1>2, BoundAssumption DEF FilesTyped
  <2> QED
    BY <1>1, <1>2, <2>1 DEF FilesTyped
<1> QED
  BY <1>1, <1>2, <1>3
     DEF BrowserInv, BrowserTyped, CopyHonest, StreamHonest, Mounted, LoadsAreFresh

-----------------------------------------------------------------------------
(* What a load does *)

LEMMA NothingAsked ==
  NoRequest \in RequestRecords /\ NoRequest.at = "none" /\ NoRequest.body = <<>>
<1>1. <<>> \in ETags /\ <<>> \in Bodies /\ 0 \in 0..MaxClock
  BY EmptyBody, BoundAssumption DEF ETags
<1> QED
  BY <1>1 DEF NoRequest, RequestRecords

LEMMA RequestKeeps ==
  ASSUME BrowserInv, NEW path \in Paths, Request(path)
  PROVE  BrowserInv'
<1> DEFINE route == Route(path)
<1>1. Routes[path] = route
  BY DEF Routes
<1>2. /\ request = NoRequest /\ loads < MaxLoads /\ loads' = loads + 1
      /\ quiet' = (unwritten = 0)
      /\ answer' = [path |-> path, file |-> route.file, body |-> <<>>,
                    status |-> IF route.file = Artifact THEN 0 ELSE route.status]
      /\ route.file # Artifact => request' = NoRequest
      /\ route.file = Artifact =>
           request' = [NoRequest EXCEPT !.at = "sent", !.ifNoneMatch = cache.etag]
      /\ UNCHANGED <<file, mtime, unwritten, build, now, cache>>
  BY <1>1 DEF Request, buildVars
<1>3. /\ route.status \in {200, 403, 404}
      /\ route.status = 200 <=> route.file # Missing
      /\ route.file # Missing => InRoot(route.file, MountOf(path).root)
      /\ route.file \in {Route(p).file : p \in Paths} \cup {Missing}
  BY RouteIsMounted
<1> HIDE DEF route
<1>4. /\ answer'.path = path /\ answer'.file = route.file /\ answer'.body = <<>>
      /\ route.file = Artifact => answer'.status = 0
      /\ route.file # Artifact => answer'.status = route.status
  BY <1>2
<1>5. FilesTyped /\ BrowserTyped /\ CopyHonest /\ StreamHonest /\ Mounted
  BY DEF BrowserInv
<1>6. route.file = Artifact =>
        /\ request'.at = "sent" /\ request'.ifNoneMatch = cache.etag /\ request'.body = <<>>
        /\ request' # NoRequest /\ request' \in RequestRecords
  BY <1>2, NothingAsked, BrowserFacts DEF RequestRecords
<1>7. BrowserTyped'
  <2>1. answer' \in AnswerRecords
    <3>1. answer'.status \in Statuses /\ <<>> \in Bodies
      BY <1>3, <1>4, EmptyBody DEF Statuses
    <3> QED
      BY <1>2, <1>3, <1>4, <3>1 DEF AnswerRecords
  <2>2. request' \in RequestRecords
    BY <1>2, <1>5, <1>6 DEF BrowserTyped
  <2>3. loads' \in 0..MaxLoads
    <3>1. loads \in 0..MaxLoads /\ loads < MaxLoads /\ loads' = loads + 1
      BY <1>2, <1>5 DEF BrowserTyped
    <3> QED
      BY <3>1, BoundAssumption
  <2>4. quiet' \in BOOLEAN
    BY <1>2
  <2> QED
    BY <1>2, <1>5, <2>1, <2>2, <2>3, <2>4 DEF BrowserTyped
<1>8. StreamHonest'
  <2>1. CASE route.file = Artifact
    BY <1>2, <1>4, <1>6, <2>1 DEF StreamHonest
  <2>2. CASE route.file # Artifact
    BY <1>2, <2>2 DEF StreamHonest, NoRequest
  <2> QED
    BY <2>1, <2>2
<1>9. Mounted'
  BY <1>3, <1>4, ArtifactThere DEF Mounted
<1>10. LoadsAreFresh'
  BY <1>2, <1>4, <1>6 DEF LoadsAreFresh
<1> QED
  BY <1>2, <1>5, <1>7, <1>8, <1>9, <1>10 DEF BrowserInv, FilesTyped, CopyHonest

\* How a load ends.
LEMMA EndingKeeps ==
  ASSUME BrowserInv, NEW status \in Statuses, NEW body \in Bodies, request # NoRequest,
         Ended(status, body), UNCHANGED <<buildVars, now, loads, quiet>>,
         cache' \in Copies, CopyHonest',
         quiet /\ status \in {200, 304} =>
           body = file \/ (cache'.of # file /\ Len(cache'.of) = Len(file) /\ cache'.time = mtime)
  PROVE  BrowserInv'
<1>1. /\ request' = NoRequest /\ answer' = [answer EXCEPT !.status = status, !.body = body]
      /\ UNCHANGED <<file, mtime, unwritten, build, now, loads, quiet>>
  BY DEF Ended, buildVars
<1>2. FilesTyped /\ BrowserTyped /\ StreamHonest /\ Mounted /\ answer \in AnswerRecords
  BY BrowserFacts DEF BrowserInv
<1>3. /\ answer' \in AnswerRecords /\ answer'.path = answer.path /\ answer'.file = answer.file
      /\ answer'.status = status /\ answer'.body = body
  BY <1>1, <1>2 DEF AnswerRecords
<1>4. answer.file = Artifact /\ Artifact # Missing
  BY <1>2, ArtifactThere DEF StreamHonest
<1>5. BrowserTyped'
  BY <1>1, <1>2, <1>3, NothingAsked DEF BrowserTyped
<1>6. StreamHonest'
  BY <1>1 DEF StreamHonest, NoRequest
<1>7. Mounted'
  BY <1>2, <1>3, <1>4 DEF Mounted
<1>8. LoadsAreFresh'
  BY <1>1, <1>3 DEF LoadsAreFresh
<1> QED
  BY <1>1, <1>2, <1>5, <1>6, <1>7, <1>8 DEF BrowserInv, FilesTyped

LEMMA StatMatchesKeeps ==
  ASSUME BrowserInv, StatMatches
  PROVE  BrowserInv'
<1>1. /\ request.at = "sent" /\ request.ifNoneMatch = ETag /\ Ended(304, cache.body)
      /\ UNCHANGED <<buildVars, now, cache, loads, quiet>>
      /\ UNCHANGED <<file, build>>
  BY DEF StatMatches, buildVars
<1>2. CopyHonest /\ StreamHonest /\ request # NoRequest
  BY <1>1 DEF BrowserInv, NoRequest
<1>3. cache.body \in Bodies /\ 304 \in Statuses /\ cache' \in Copies /\ CopyHonest'
  BY <1>1, <1>2, BrowserFacts, SMTT(30) DEF Statuses, CopyHonest
<1>4. Len(cache.of) = Len(file) /\ cache.time = mtime
  <2>1. cache.etag = <<Len(file), mtime>>
    BY <1>1, <1>2 DEF StreamHonest, ETag
  <2>2. cache.etag # <<>>
    BY <2>1
  <2>3. <<Len(cache.of), cache.time>> = <<Len(file), mtime>>
    BY <1>2, <2>1, <2>2 DEF CopyHonest
  <2> QED
    BY <2>3
<1>5. ASSUME cache.of = file PROVE cache.body = file
  <2>1. ~Past(file, build)
    BY NowIsNotPast
  <2> QED
    BY <1>2, <1>5, <2>1 DEF CopyHonest
<1> QED
  BY <1>1, <1>2, <1>3, <1>4, <1>5, EndingKeeps

LEMMA StatDiffersKeeps ==
  ASSUME BrowserInv, StatDiffers
  PROVE  BrowserInv'
<1>1. /\ request.at = "sent"
      /\ request' = [request EXCEPT !.at = "streaming", !.etag = ETag, !.of = file, !.time = mtime]
      /\ UNCHANGED <<file, mtime, unwritten, build, now, cache, answer, loads, quiet>>
  BY DEF StatDiffers, buildVars
<1>2. FilesTyped /\ BrowserTyped /\ CopyHonest /\ StreamHonest /\ Mounted /\ request # NoRequest
  BY <1>1 DEF BrowserInv, NoRequest
<1>3. request \in RequestRecords /\ file \in Bodies /\ file \in Seq(Builds) /\ Len(file) \in Nat
  BY <1>2, BrowserFacts DEF FilesTyped
<1>4. /\ request' \in RequestRecords /\ request'.at = "streaming" /\ request'.of = file
      /\ request'.etag = ETag /\ request'.time = mtime /\ request'.body = request.body
  BY <1>1, <1>2, <1>3, TagTyped DEF RequestRecords
<1>5. StreamHonest'
  <2>1. request.body = <<>>
    BY <1>1, <1>2 DEF StreamHonest
  <2>2. StartsWith(file, file) /\ StartsWith(file, <<>>)
    <3>1. Len(<<>>) = 0
      BY EmptySeq
    <3> QED
      BY <1>3, <3>1 DEF StartsWith
  <2> QED
    BY <1>1, <1>2, <1>4, <2>1, <2>2 DEF StreamHonest, ETag
<1>6. LoadsAreFresh'
  <2>1. request' # NoRequest
    BY <1>4 DEF NoRequest
  <2> QED
    BY <2>1 DEF LoadsAreFresh
<1> QED
  BY <1>1, <1>2, <1>4, <1>5, <1>6 DEF BrowserInv, FilesTyped, BrowserTyped, CopyHonest, Mounted

LEMMA StreamReadsKeeps ==
  ASSUME BrowserInv, StreamReads
  PROVE  BrowserInv'
<1> DEFINE n == Len(request.body)
           chunk == file[n + 1]
<1>1. /\ request.at = "streaming" /\ n < Len(file)
      /\ request' = [request EXCEPT !.body = Append(request.body, chunk)]
      /\ UNCHANGED <<file, mtime, unwritten, build, now, cache, answer, loads, quiet>>
  BY DEF StreamReads, buildVars
<1>2. FilesTyped /\ BrowserTyped /\ CopyHonest /\ StreamHonest /\ Mounted /\ request # NoRequest
  BY <1>1 DEF BrowserInv, NoRequest
<1>3. /\ request \in RequestRecords /\ request.body \in Seq(Builds) /\ n \in Nat
      /\ file \in Seq(Builds) /\ Len(file) \in Nat /\ Len(file) <= MaxChunks
  BY BrowserFacts, LenProperties
<1> HIDE DEF n
<1>4. n + 1 \in 1..Len(file) /\ n + 1 <= MaxChunks
  BY <1>1, <1>3, BoundAssumption
<1>5. chunk \in Builds
  BY <1>3, <1>4, ElementOfSeq
<1> HIDE DEF chunk
<1> DEFINE body == Append(request.body, chunk)
<1>6. /\ body \in Seq(Builds) /\ Len(body) = n + 1 /\ body[n + 1] = chunk
      /\ \A i \in 1..n : body[i] = request.body[i]
  BY <1>3, <1>5, OneMore DEF n
<1> HIDE DEF body
<1>7. body \in Bodies
  BY <1>4, <1>6, BodiesAreSequences
<1>8. /\ request' \in RequestRecords /\ request'.body = body /\ request'.at = "streaming"
      /\ request'.of = request.of /\ request'.time = request.time /\ request'.etag = request.etag
  BY <1>1, <1>3, <1>7 DEF RequestRecords, body
<1>9. StartsWith(file, request.body) => StartsWith(file, body)
  <2>1. SUFFICES ASSUME StartsWith(file, request.body) PROVE StartsWith(file, body)
    OBVIOUS
  <2>2. \A i \in 1..n : request.body[i] = file[i]
    BY <2>1 DEF StartsWith, n
  <2>3. \A i \in 1..(n + 1) : i \in 1..n \/ i = n + 1
    BY <1>3
  <2>4. n + 1 <= Len(file)
    BY <1>3, <1>4
  <2> QED
    BY <1>6, <2>2, <2>3, <2>4 DEF StartsWith, chunk
<1>10. StreamHonest'
  BY <1>1, <1>2, <1>8, <1>9 DEF StreamHonest
<1>11. LoadsAreFresh'
  <2>1. request' # NoRequest
    BY <1>8 DEF NoRequest
  <2> QED
    BY <2>1 DEF LoadsAreFresh
<1> QED
  BY <1>1, <1>2, <1>8, <1>10, <1>11 DEF BrowserInv, FilesTyped, BrowserTyped, CopyHonest, Mounted

\* A whole stream is what stat saw, or that is of the past.
LEMMA StreamEndsKeeps ==
  ASSUME BrowserInv, StreamEnds
  PROVE  BrowserInv'
<1> DEFINE length == Len(request.of)
           body == SubSeq(request.body, 1, length)
<1>1. /\ request.at = "streaming" /\ Len(request.body) >= Len(file)
      /\ IF Len(request.body) < length
         THEN Ended(500, <<>>) /\ UNCHANGED cache
         ELSE /\ cache' = [etag |-> request.etag, body |-> body, of |-> request.of,
                           time |-> request.time]
              /\ Ended(200, body)
      /\ UNCHANGED <<buildVars, now, loads, quiet>> /\ UNCHANGED <<file, mtime, build>>
  BY DEF StreamEnds, buildVars
<1>2. CopyHonest /\ StreamHonest /\ request # NoRequest
  BY <1>1 DEF BrowserInv, NoRequest
<1>3. CASE Len(request.body) < length
  <2>1. Ended(500, <<>>) /\ cache' = cache
    BY <1>1, <1>3
  <2>2. <<>> \in Bodies /\ 500 \in Statuses /\ cache' \in Copies /\ CopyHonest'
    BY <1>1, <1>2, <2>1, EmptyBody, BrowserFacts DEF Statuses, CopyHonest
  <2> QED
    BY <1>1, <1>2, <2>1, <2>2, EndingKeeps
<1>4. CASE ~(Len(request.body) < length)
  <2>1. /\ cache' = [etag |-> request.etag, body |-> body, of |-> request.of,
                     time |-> request.time]
        /\ Ended(200, body)
    BY <1>1, <1>4
  <2>2. /\ request.of \in Seq(Builds) /\ length \in Nat /\ length <= MaxChunks
        /\ request.body \in Seq(Builds) /\ Len(request.body) \in Nat
        /\ file \in Seq(Builds) /\ Len(file) \in Nat
    BY BrowserFacts, BodiesAreSequences, LenProperties
  <2>3. length <= Len(request.body)
    BY <1>4, <2>2
  <2>4. body \in Seq(Builds) /\ Len(body) = length /\ \A i \in 1..length : body[i] = request.body[i]
    BY <2>2, <2>3, FrontPart
  <2>5. body \in Bodies
    BY <2>2, <2>4, BodiesAreSequences
  <2>6. request.etag \in ETags /\ request.of \in Bodies /\ request.time \in 0..MaxClock
    BY BrowserFacts DEF RequestRecords
  <2>7. Past(request.of, build) \/ body = request.of
    <3>1. CASE request.of = <<>>
      <4>1. Len(body) = 0
        BY <2>4, <3>1, EmptySeq
      <4> QED
        BY <2>4, <3>1, <4>1, EmptySeq
    <3>2. CASE StartsWith(file, request.of) /\ StartsWith(file, request.body)
      <4>1. \A i \in 1..length : i \in 1..Len(request.body)
        BY <2>2, <2>3
      <4>2. \A i \in 1..length : body[i] = request.of[i]
        BY <2>4, <3>2, <4>1 DEF StartsWith
      <4> HIDE DEF body
      <4> QED
        BY <2>2, <2>4, <4>2, SeqEqual
    <3> QED
      BY <1>1, <1>2, <3>1, <3>2 DEF StreamHonest
  <2> HIDE DEF body
  <2>8. /\ cache' \in Copies /\ cache'.of = request.of /\ cache'.body = body
        /\ cache'.etag = <<Len(cache'.of), cache'.time>>
    BY <1>1, <1>2, <2>1, <2>5, <2>6 DEF Copies, StreamHonest
  <2>9. CopyHonest'
    BY <1>1, <1>2, <2>7, <2>8 DEF CopyHonest
  <2>10. quiet => body = file
    <3>1. SUFFICES ASSUME quiet PROVE body = file
      OBVIOUS
    <3>2. request.of = file
      BY <1>1, <1>2, <3>1 DEF StreamHonest
    <3>3. ~Past(file, build)
      BY NowIsNotPast
    <3> QED
      BY <2>7, <3>2, <3>3
  <2>11. 200 \in Statuses
    BY DEF Statuses
  <2> QED
    BY <1>1, <1>2, <2>1, <2>5, <2>8, <2>9, <2>10, <2>11, EndingKeeps
<1> QED
  BY <1>3, <1>4

LEMMA StreamFailsKeeps ==
  ASSUME BrowserInv, StreamFails
  PROVE  BrowserInv'
<1>1. /\ request.at = "streaming" /\ Ended(500, <<>>)
      /\ UNCHANGED <<buildVars, now, cache, loads, quiet>> /\ UNCHANGED <<file, build>>
  BY DEF StreamFails, buildVars
<1>2. CopyHonest /\ request # NoRequest
  BY <1>1 DEF BrowserInv, NoRequest
<1>3. <<>> \in Bodies /\ 500 \in Statuses /\ cache' \in Copies /\ CopyHonest'
  BY <1>1, <1>2, EmptyBody, BrowserFacts DEF Statuses, CopyHonest
<1> QED
  BY <1>1, <1>2, <1>3, EndingKeeps

-----------------------------------------------------------------------------
(* Gate 6 *)

LEMMA GateBeginsKeeps ==
  ASSUME GateInv, GateBegins
  PROVE  GateInv'
<1>1. /\ driver = "booting" /\ driver' = "waiting" /\ jar' = {"bibdom"} /\ leg' = "set"
      /\ signals' = [Gray EXCEPT !["dom"] = "green", !["enabled"] = "green"]
      /\ UNCHANGED <<shown, verdict, carried, faults>>
  BY DEF GateBegins
<1>2. shown = Gray /\ verdict = "none" /\ GateTyped
  BY <1>1 DEF GateInv, GateHonest
<1>3. /\ signals' \in [Signals -> Colours]
      /\ \A s \in Signals : signals'[s] \in {"gray", "green"} /\ shown[s] = "gray"
      /\ signals'["redir"] = "gray" /\ shown["redir"] = "gray"
  BY <1>1, <1>2 DEF Gray, Signals, Colours
<1>4. GateTyped'
  BY <1>1, <1>2, <1>3 DEF GateTyped, Drivers, Cookies
<1>5. GateHonest'
  BY <1>1, <1>2, <1>3 DEF GateHonest
<1>6. GateTellsTheTruth'
  BY <1>1, <1>2 DEF GateTellsTheTruth
<1> QED
  BY <1>4, <1>5, <1>6 DEF GateInv

LEMMA LegAnsweredKeeps ==
  ASSUME GateInv, LegAnswered
  PROVE  GateInv'
<1>1. /\ GateTyped /\ GateHonest /\ GateTellsTheTruth
      /\ UNCHANGED <<shown, driver, verdict, faults>>
      /\ signals \in [Signals -> Colours]
  BY DEF GateInv, GateTyped, LegAnswered
<1>2. "net" \in Signals /\ "redir" \in Signals /\ {"gray", "green", "red"} = Colours
  BY DEF Signals, Colours
<1>a. driver # "booting"
  <2>1. leg # "none"
    BY DEF LegAnswered
  <2> QED
    BY <1>1, <2>1 DEF GateHonest
<1>3. CASE leg = "set"
  <2>1. jar' = jar \cup {"bibtest"} /\ leg' = "echo" /\ UNCHANGED <<carried, signals>>
    BY <1>3 DEF LegAnswered, SetCookieOf, IsRedirect
  <2>2. GateTyped'
    BY <1>1, <2>1 DEF GateTyped, Cookies
  <2>3. GateHonest'
    BY <1>1, <1>a, <2>1 DEF GateHonest, AllLeftGray
  <2> QED
    BY <1>1, <2>1, <2>2, <2>3 DEF GateInv, GateTellsTheTruth
<1>4. CASE leg = "echo"
  <2>1. jar' = jar /\ leg' = "redirect-set" /\ UNCHANGED carried
    BY <1>4 DEF LegAnswered, SetCookieOf, IsRedirect
  <2>2. signals' = [signals EXCEPT !["net"] = IF "bibtest" \in jar THEN "green" ELSE "red"]
    BY <1>4 DEF LegAnswered
  <2>3. "bibtest" \in jar
    BY <1>1, <1>4 DEF GateHonest
  <2>4. signals' = [signals EXCEPT !["net"] = "green"]
    BY <2>2, <2>3
  <2>5. /\ signals' \in [Signals -> Colours] /\ signals'["net"] = "green"
        /\ \A s \in Signals : s # "net" => signals'[s] = signals[s]
    BY <1>1, <1>2, <2>4
  <2>6. GateTyped'
    BY <1>1, <2>1, <2>5 DEF GateTyped
  <2>7. GateHonest'
    BY <1>1, <1>2, <1>a, <2>1, <2>3, <2>5 DEF GateHonest, AllLeftGray
  <2> QED
    BY <1>1, <2>1, <2>6, <2>7 DEF GateInv, GateTellsTheTruth
<1>5. CASE leg = "redirect-set"
  <2>1. jar' = jar \cup {"bibredir"} /\ leg' = "redirected" /\ carried' = jar'
        /\ UNCHANGED signals
    BY <1>5 DEF LegAnswered, SetCookieOf, IsRedirect
  <2>2. "bibtest" \in jar /\ BothCookies \subseteq carried'
    BY <1>1, <1>5, <2>1 DEF GateHonest, BothCookies
  <2>3. GateTyped'
    BY <1>1, <2>1 DEF GateTyped, Cookies
  <2>4. GateHonest'
    BY <1>1, <1>a, <2>1, <2>2 DEF GateHonest, AllLeftGray
  <2> QED
    BY <1>1, <2>1, <2>2, <2>3, <2>4 DEF GateInv, GateTellsTheTruth, BothCookies
<1>6. CASE leg = "redirected"
  <2>1. jar' = jar /\ leg' = "none" /\ UNCHANGED carried
    BY <1>6 DEF LegAnswered, SetCookieOf, IsRedirect
  <2>2. signals' = [signals EXCEPT !["redir"] = IF BothCookies \subseteq carried
                                                THEN "green" ELSE "red"]
    BY <1>6 DEF LegAnswered, BothCookies
  <2>3. BothCookies \subseteq carried
    BY <1>1, <1>6 DEF GateHonest
  <2>4. signals' = [signals EXCEPT !["redir"] = "green"]
    BY <2>2, <2>3
  <2>5. /\ signals' \in [Signals -> Colours] /\ signals'["redir"] = "green"
        /\ \A s \in Signals : s # "redir" => signals'[s] = signals[s]
    BY <1>1, <1>2, <2>4
  <2>6. GateTyped'
    BY <1>1, <2>1, <2>5 DEF GateTyped
  <2>7. GateHonest'
    BY <1>1, <1>2, <1>a, <2>1, <2>3, <2>5 DEF GateHonest, AllLeftGray
  <2> QED
    BY <1>1, <2>1, <2>6, <2>7 DEF GateInv, GateTellsTheTruth
<1> QED
  BY <1>3, <1>4, <1>5, <1>6 DEF LegAnswered

LEMMA LegFailsKeeps ==
  ASSUME GateInv, LegFails
  PROVE  GateInv'
<1>1. /\ GateTyped /\ GateHonest /\ GateTellsTheTruth /\ signals \in [Signals -> Colours]
      /\ leg # "none" /\ leg' = "none"
      /\ signals' = [signals EXCEPT !["net"] = "red", !["redir"] = "red"]
      /\ UNCHANGED <<jar, shown, driver, verdict, carried>>
  BY DEF GateInv, GateTyped, LegFails
<1>2. faults' \in 1..MaxFaults /\ faults' \in 0..MaxFaults /\ faults' > 0
  <2>1. faults \in 0..MaxFaults /\ faults < MaxFaults /\ faults' = faults + 1
    BY DEF LegFails, GateInv, GateTyped
  <2> QED
    BY <2>1, BoundAssumption
<1>3. /\ signals' \in [Signals -> Colours] /\ signals'["redir"] = "red"
      /\ \A s \in Signals : signals'[s] = signals[s] \/ signals'[s] = "red"
  BY <1>1 DEF Signals, Colours
<1>4. GateTyped'
  BY <1>1, <1>2, <1>3 DEF GateTyped
<1>5. driver # "booting" /\ faults' # 0
  BY <1>1, <1>2 DEF GateHonest
<1>6. GateHonest'
  BY <1>1, <1>2, <1>3, <1>5 DEF GateHonest
<1>7. GateTellsTheTruth'
  BY <1>1, <1>2 DEF GateTellsTheTruth
<1> QED
  BY <1>4, <1>6, <1>7 DEF GateInv

LEMMA FrameShownKeeps ==
  ASSUME GateInv, FrameShown
  PROVE  GateInv'
<1>1. /\ GateTyped /\ GateHonest /\ GateTellsTheTruth
      /\ driver # "booting" /\ shown' = signals
      /\ UNCHANGED <<jar, leg, signals, driver, verdict, carried, faults>>
  BY DEF GateInv, FrameShown
<1>2. GateTyped'
  BY <1>1 DEF GateTyped
<1>3. GateHonest'
  BY <1>1 DEF GateHonest, AllLeftGray
<1>4. GateTellsTheTruth'
  BY <1>1 DEF GateTellsTheTruth
<1> QED
  BY <1>2, <1>3, <1>4 DEF GateInv

LEMMA DriverKeeps ==
  ASSUME GateInv, SignalsIn \/ WaitTimesOut \/ Verdict
  PROVE  GateInv'
<1>1. /\ GateTyped /\ GateHonest /\ GateTellsTheTruth
      /\ UNCHANGED <<jar, leg, signals, shown, carried>>
  BY DEF GateInv, SignalsIn, WaitTimesOut, Verdict
<1>2. CASE SignalsIn
  <2>1. /\ driver = "waiting" /\ AllLeftGray /\ driver' = "checking"
        /\ UNCHANGED <<verdict, faults>>
    BY <1>2 DEF SignalsIn
  <2>2. GateTyped'
    BY <1>1, <2>1 DEF GateTyped, Drivers
  <2>3. GateHonest'
    BY <1>1, <2>1 DEF GateHonest, AllLeftGray
  <2> QED
    BY <1>1, <2>1, <2>2, <2>3 DEF GateInv, GateTellsTheTruth
<1>3. CASE WaitTimesOut
  <2>1. driver = "waiting" /\ driver' = "checking" /\ UNCHANGED verdict
    BY <1>3 DEF WaitTimesOut
  <2>2. faults' \in 0..MaxFaults /\ faults' > 0 /\ faults' # 0
    <3>1. faults \in 0..MaxFaults /\ faults < MaxFaults /\ faults' = faults + 1
      BY <1>1, <1>3 DEF WaitTimesOut, GateTyped
    <3> QED
      BY <3>1, BoundAssumption
  <2>3. GateTyped'
    BY <1>1, <2>1, <2>2 DEF GateTyped, Drivers
  <2>4. GateHonest'
    BY <1>1, <2>1, <2>2 DEF GateHonest
  <2> QED
    BY <1>1, <2>1, <2>2, <2>3, <2>4 DEF GateInv, GateTellsTheTruth
<1>4. CASE Verdict
  <2>1. /\ driver = "checking" /\ driver' = "done" /\ UNCHANGED faults
        /\ verdict' = IF \A s \in Signals : shown[s] = "green" THEN "PASS" ELSE "FAIL"
    BY <1>4 DEF Verdict
  <2>2. GateTyped'
    BY <1>1, <2>1 DEF GateTyped, Drivers
  <2>3. GateHonest'
    BY <1>1, <2>1 DEF GateHonest
  <2>4. verdict' = "PASS" => BothCookies \subseteq carried
    <3>1. "redir" \in Signals
      BY DEF Signals
    <3> QED
      BY <1>1, <2>1, <3>1 DEF GateHonest
  <2>5. verdict' = "FAIL" => faults > 0
    <3>1. SUFFICES ASSUME NEW s \in Signals, shown[s] # "green" PROVE faults > 0
      BY <2>1
    <3>2. CASE shown[s] = "red"
      BY <1>1, <3>2 DEF GateHonest
    <3>3. CASE shown[s] = "gray"
      <4>1. faults # 0
        BY <1>1, <2>1, <3>3 DEF GateHonest, AllLeftGray
      <4>2. faults \in Nat
        BY <1>1, BoundAssumption DEF GateTyped
      <4> QED
        BY <4>1, <4>2
    <3>4. shown[s] \in {"gray", "green", "red"}
      BY <1>1 DEF GateTyped, Colours
    <3> QED
      BY <3>1, <3>2, <3>3, <3>4
  <2> QED
    BY <1>1, <2>1, <2>2, <2>3, <2>4, <2>5 DEF GateInv, GateTellsTheTruth, BothCookies
<1> QED
  BY <1>2, <1>3, <1>4

-----------------------------------------------------------------------------

LEMMA ServerStart ==
  ASSUME ServerInit
  PROVE  ServerInv
<1>1. <<1>> \in Bodies /\ Len(<<1>>) = 1 /\ <<1>>[1] = 1 /\ 1 \in Builds /\ 1 <= MaxChunks
  <2>1. 1 \in Builds /\ 1 <= MaxChunks
    BY BoundAssumption DEF Builds
  <2>2. <<1>> \in Seq(Builds) /\ Len(<<1>>) = 1
    BY <2>1, SingletonSeq
  <2> QED
    BY <2>1, <2>2, BodiesAreSequences
<1>2. FilesTyped
  <2>1. file \in Bodies /\ Len(file) = 1 /\ build \in Builds
    BY <1>1 DEF ServerInit
  <2>2. 0 \in 0..0 /\ 0 \in 0..MaxClock /\ 0 \in 0..MaxChunks /\ 1 + 0 <= MaxChunks
    BY <1>1, BoundAssumption
  <2> QED
    BY <2>1, <2>2 DEF ServerInit, FilesTyped
<1>3. BrowserTyped
  <2>1. /\ <<>> \in Bodies /\ <<>> \in ETags /\ 0 \in 0..MaxClock /\ 0 \in 0..MaxLoads
        /\ <<>> \in Paths
    BY EmptyBody, ArtifactThere, BoundAssumption DEF ETags
  <2>2. NoCopy \in Copies /\ NoAnswer \in AnswerRecords
    BY <2>1 DEF NoCopy, Copies, NoAnswer, AnswerRecords, Statuses
  <2> QED
    BY <2>1, <2>2, NothingAsked DEF ServerInit, BrowserTyped
<1>4. CopyHonest
  <2>1. \A i \in 1..Len(file) : file[i] = build
    BY <1>1 DEF ServerInit
  <2> QED
    BY <2>1 DEF ServerInit, CopyHonest, NoCopy
<1>5. StreamHonest
  BY NothingAsked DEF ServerInit, StreamHonest
<1>6. Mounted
  BY DEF ServerInit, Mounted, NoAnswer
<1>7. LoadsAreFresh
  BY DEF ServerInit, LoadsAreFresh, NoAnswer
<1>8. GateTyped
  <2>1. Gray \in [Signals -> Colours] /\ 0 \in 0..MaxFaults
    BY BoundAssumption DEF Gray, Colours
  <2> QED
    BY <2>1 DEF ServerInit, GateTyped, Drivers
<1>9. GateHonest
  BY DEF ServerInit, GateHonest, Gray, Signals
<1>10. GateTellsTheTruth
  BY DEF ServerInit, GateTellsTheTruth
<1> QED
  BY <1>2, <1>3, <1>4, <1>5, <1>6, <1>7, <1>8, <1>9, <1>10 DEF ServerInv, BrowserInv, GateInv

LEMMA GateUntouched ==
  ASSUME GateInv, UNCHANGED gateVars
  PROVE  GateInv'
BY DEF gateVars, GateInv, GateTyped, GateHonest, GateTellsTheTruth, AllLeftGray

LEMMA BrowserUntouched ==
  ASSUME BrowserInv, UNCHANGED <<buildVars, now, browserVars, quiet>>
  PROVE  BrowserInv'
BY DEF buildVars, browserVars, BrowserInv, FilesTyped, BrowserTyped, CopyHonest, StreamHonest,
       Mounted, LoadsAreFresh

LEMMA ServerStep ==
  ASSUME ServerInv
  PROVE  [ServerNext]_serverVars => ServerInv'
<1> SUFFICES ASSUME [ServerNext]_serverVars PROVE ServerInv'
  OBVIOUS
<1>a. BrowserInv /\ GateInv
  BY DEF ServerInv
<1>1. ASSUME BuildStarts \/ BuildWrites \/ ClockTicks PROVE ServerInv'
  <2>1. UNCHANGED gateVars
    BY <1>1 DEF BuildStarts, BuildWrites, ClockTicks, Wrote
  <2> QED
    BY <1>1, <1>a, <2>1, GateUntouched, BuildStartsKeeps, BuildWritesKeeps, ClockTicksKeeps
       DEF ServerInv
<1>2. ASSUME NEW path \in Paths, Request(path) PROVE ServerInv'
  <2>1. UNCHANGED gateVars
    BY <1>2 DEF Request
  <2> QED
    BY <1>2, <1>a, <2>1, GateUntouched, RequestKeeps DEF ServerInv
<1>3. ASSUME StatMatches \/ StatDiffers \/ StreamReads \/ StreamEnds \/ StreamFails
      PROVE  ServerInv'
  <2>1. UNCHANGED gateVars
    BY <1>3 DEF StatMatches, StatDiffers, StreamReads, StreamEnds, StreamFails
  <2> QED
    BY <1>3, <1>a, <2>1, GateUntouched, StatMatchesKeeps, StatDiffersKeeps, StreamReadsKeeps,
       StreamEndsKeeps, StreamFailsKeeps DEF ServerInv
<1>4. ASSUME GateBegins \/ LegAnswered \/ LegFails \/ FrameShown PROVE ServerInv'
  <2>1. UNCHANGED <<buildVars, now, browserVars, quiet>>
    BY <1>4 DEF GateBegins, LegAnswered, LegFails, FrameShown
  <2> QED
    BY <1>4, <1>a, <2>1, BrowserUntouched, GateBeginsKeeps, LegAnsweredKeeps, LegFailsKeeps,
       FrameShownKeeps DEF ServerInv
<1>5. ASSUME SignalsIn \/ WaitTimesOut \/ Verdict PROVE ServerInv'
  <2>1. UNCHANGED <<buildVars, now, browserVars, quiet>>
    BY <1>5 DEF SignalsIn, WaitTimesOut, Verdict
  <2> QED
    BY <1>5, <1>a, <2>1, BrowserUntouched, DriverKeeps DEF ServerInv
<1>6. ASSUME UNCHANGED serverVars PROVE ServerInv'
  <2>1. UNCHANGED gateVars /\ UNCHANGED <<buildVars, now, browserVars, quiet>>
    BY <1>6 DEF serverVars
  <2> QED
    BY <1>a, <2>1, GateUntouched, BrowserUntouched DEF ServerInv
<1> QED
  BY <1>1, <1>2, <1>3, <1>4, <1>5, <1>6 DEF ServerNext

LEMMA ServerInvariance == ServerSpec => []ServerInv
<1>1. ServerInit => ServerInv
  BY ServerStart
<1>2. ServerInv /\ [ServerNext]_serverVars => ServerInv'
  BY ServerStep
<1> QED
  BY <1>1, <1>2, PTL DEF ServerSpec

\* The server, the browser's copy, the request in progress and gate 6 keep their types:
\* tags are sizes and times there can be, and no body is longer than an artifact
\* (dev-server.mjs, gate6-cookies-test.mjs).
THEOREM ServerTypeCorrect == ServerSpec => []ServerTypeOK
<1>1. ASSUME ServerInv PROVE ServerTypeOK
  <2>1. BrowserInv /\ GateTyped
    BY <1>1 DEF ServerInv, GateInv
  <2>2. FilesTyped /\ loads \in 0..MaxLoads /\ quiet \in BOOLEAN
    BY <2>1 DEF BrowserInv, BrowserTyped
  <2>3. /\ cache \in Copies /\ request \in RequestRecords /\ answer \in AnswerRecords
    BY <2>1, BrowserFacts
  <2>4. cache.etag \in ETags /\ cache.body \in Bodies /\ cache.of \in Bodies
    BY <2>3 DEF Copies
  <2>5. /\ request.at \in {"none", "sent", "streaming"}
        /\ request.ifNoneMatch \in ETags /\ request.etag \in ETags
        /\ request.body \in Bodies /\ request.of \in Bodies
    BY <2>3 DEF RequestRecords
  <2>6. answer.status \in {0, 200, 304, 403, 404, 500} /\ answer.body \in Bodies
    BY <2>3 DEF AnswerRecords, Statuses
  <2> QED
    BY <2>1, <2>2, <2>4, <2>5, <2>6 DEF ServerTypeOK, FilesTyped, GateTyped, Builds
<1> QED
  BY <1>1, ServerInvariance, PTL

\* A browser that loads while nobody writes gets the artifact as it is, by a stream or by
\* a 304, for artifacts of any size and any number of builds that tore earlier loads
\* (dev-server.mjs 140-160: stat, tag, stream).
THEOREM LoadsStayFresh == ServerSpec => []LoadsAreFresh
<1>1. ServerInv => LoadsAreFresh
  BY DEF ServerInv, BrowserInv
<1> QED
  BY <1>1, ServerInvariance, PTL

\* What is served lies under the root of the most specific mount of its path
\* (dev-server.mjs 111-138: mount, resolve, realpath).
THEOREM ServedFromMount == ServerSpec => []ServedFromItsMount
<1>1. ASSUME ServerInv PROVE ServedFromItsMount
  <2>1. answer.status \in {200, 304} => InRoot(answer.file, MountOf(answer.path).root)
    BY <1>1 DEF ServerInv, BrowserInv, Mounted
  <2> QED
    BY <2>1, MountIsMostSpecific DEF ServedFromItsMount
<1> QED
  BY <1>1, ServerInvariance, PTL

\* Gate 6 passes only when the redirected hop carried both cookies and fails only when
\* something failed, for any number of failures (gate6-cookies-test.mjs).
THEOREM Gate6IsHonest == ServerSpec => []GateTellsTheTruth
<1>1. ServerInv => GateTellsTheTruth
  BY DEF ServerInv, GateInv
<1> QED
  BY <1>1, ServerInvariance, PTL
=============================================================================
