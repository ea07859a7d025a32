------------------------------ MODULE Gate9Test ------------------------------
(***************************************************************************)
(* The polyfill under its acceptance test, tools/gate9-wasm-test.mjs: the  *)
(* guest page web/probe/wasmprobe.html calls the API and prints a line for *)
(* each check and a verdict at the end; the test reads the console only.   *)
(*                                                                         *)
(* The probe's first checks are synchronous.  Nothing makes it wait for    *)
(* binaryen, which arrives when the worker's event loop gets to it.        *)
(***************************************************************************)
EXTENDS WasmPolyfill

VARIABLES
  probe,       \* where its script is: sync, async, streaming, verdict, over
  failures,    \* a check has failed
  tooEarly,    \* it ran before binaryen was there
  gateVerdict, \* what the test has noticed: none, PASS or FAIL
  gateEnd,     \* how it ended: running, PASS or FAIL
  gateLate     \* a deadline of the test has passed

probeVars == <<probe, failures, tooEarly>>
gate9Vars == <<probeVars, gateVerdict, gateEnd, gateLate>>

Gate9Init ==
  /\ probe = "sync" /\ failures = FALSE /\ tooEarly = FALSE
  /\ gateVerdict = "none" /\ gateEnd = "running" /\ gateLate = FALSE

\* The modules of the probe, and the one it wants to see refused.
Good == [head |-> "v1", sections |-> <<>>, cut |-> 0, code |-> "fine"]
Bad == [Good EXCEPT !.code = "invalid"]

-----------------------------------------------------------------------------
(* The console *)

Line(type, ok) == [type |-> type, ok |-> ok]
IsVerdict(line) == line.type = "verdict"

\* What the test makes of the lines of a step, in order.
Hear(lines) ==
  LET verdicts == {i \in DOMAIN lines : IsVerdict(lines[i])}
  IN gateVerdict' = IF verdicts = {} THEN gateVerdict
                    ELSE IF lines[Max(verdicts)].ok THEN "PASS" ELSE "FAIL"

\* The next stretch of the script, up to an await; if it throws, the verdict is what
\* is left to print.
Proceeds(next, checks, throws) ==
  /\ probe' = IF throws THEN "verdict" ELSE next
  /\ failures' = (failures \/ throws \/ \E i \in DOMAIN checks : ~checks[i])
  /\ Hear([i \in DOMAIN checks |-> Line("check", checks[i])])
  /\ UNCHANGED <<windowVars, workerVars, returned, wasmCalls, gateEnd, gateLate>>

-----------------------------------------------------------------------------
(* The probe *)

\* typeof, validate twice, Module and Instance, in one go.
ProbeSync ==
  /\ probe = "sync" /\ pageRuns
  /\ tooEarly' = ~Ready
  /\ \/ /\ ~global.WebAssembly
        /\ Proceeds("async", <<FALSE>>, TRUE) /\ UNCHANGED fetchFaults
     \/ /\ global.WebAssembly
        /\ \E good \in Bridge(Good, "validate"), bad \in Bridge(Bad, "validate"),
              module \in Bridge(Good, "translate") :
             /\ Proceeds("async", <<TRUE, good = "1", bad # "1">>, module # "factory")
             /\ Spent(Short(good) + Short(bad) + Short(module))

\* instantiate, with an import or a memory; then of bytes that are no module.
ProbeAsync ==
  /\ probe = "async"
  /\ \E module \in Bridge(Good, "translate") :
       /\ Proceeds("streaming", <<~Translatable(Bad)>>, module # "factory")
       /\ Spent(Short(module))
  /\ UNCHANGED tooEarly

\* instantiateStreaming of a response that comes, or does not.
ProbeStreams ==
  /\ probe = "streaming"
  /\ \/ \E module \in Bridge(Good, "translate") :
          /\ Proceeds("verdict", <<TRUE>>, module # "factory")
          /\ Spent(Short(module))
     \/ Spent(1) /\ Proceeds("verdict", <<>>, TRUE)
  /\ UNCHANGED tooEarly

ProbeVerdict ==
  /\ probe = "verdict"
  /\ probe' = "over"
  /\ Hear(<<Line("verdict", ~failures)>>)
  /\ UNCHANGED <<failures, tooEarly, gateEnd, gateLate, wasmVars>>

-----------------------------------------------------------------------------
(* The test *)

VerdictSeen ==
  /\ gateEnd = "running" /\ gateVerdict # "none"
  /\ gateEnd' = gateVerdict
  /\ UNCHANGED <<probeVars, gateVerdict, gateLate, wasmVars>>

\* The boot or the wait for the verdict takes too long.
GateTimesOut ==
  /\ gateEnd = "running" /\ gateVerdict = "none"
  /\ gateEnd' = "FAIL" /\ gateLate' = TRUE
  /\ UNCHANGED <<probeVars, gateVerdict, wasmVars>>

Gate9Step == ProbeSync \/ ProbeAsync \/ ProbeStreams \/ ProbeVerdict
               \/ VerdictSeen \/ GateTimesOut

-----------------------------------------------------------------------------
(* Properties *)

\* Gate 9 passes only when every check did, to the last: not on the first line that
\* says PASS.  It fails only for a cause: a deadline, a script or a response that
\* could not be fetched, an answer without memory -- or a probe that ran before binaryen was there.
Gate9TellsTheTruth ==
  /\ gateEnd = "PASS" => probe = "over" /\ ~failures /\ Ready
  /\ gateEnd = "FAIL" => gateLate \/ tooEarly \/ fetchFaults > 0
=============================================================================
