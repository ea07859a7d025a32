------------------------------ MODULE GuestPage ------------------------------
(***************************************************************************)
(* What a guest page finds where the engine lacks a web API: WebAssembly   *)
(* over binaryen, and either the media stub (builds without media          *)
(* elements) or real elements with the player of ?media=1.  The worker     *)
(* boots, windows are created and injected, and the page's scripts call.   *)
(*                                                                         *)
(* A page uses one of the three, chosen at the start: they share the boot, *)
(* the injection and the engine's thread, but no state of their own.  Or   *)
(* the page is one of an acceptance test, and the test drives it.          *)
(***************************************************************************)
EXTENDS Gate9Test, MediaTest, MediaStub

VARIABLE uses   \* which of the APIs the page calls, or which test it is for

testVars == <<gate9Vars, mediaTestVars>>
vars == <<uses, wasmVars, stubVars, mediaVars, testVars>>

Tests == {"gate 9", "media test"}
Apis == {"WebAssembly", "stub", "player"} \cup Tests
TypeOK == uses \in Apis /\ WasmTypeOK /\ StubTypeOK /\ ListedOnce /\ MediaTypeOK

RealElements == uses \in {"player", "media test"}

Init == /\ uses \in Apis
        /\ WasmInit /\ StubInit /\ MediaInit /\ Gate9Init /\ MediaTestInit

-----------------------------------------------------------------------------
\* The stub is a script of the window: it begins anew with it, and is evaluated
\* again when the window is announced again.
StubInWindow(halves) ==
  IF "media" \in halves THEN EvaluateStub(RealElements) ELSE UNCHANGED stubVars
StubInNewWindow(halves) ==
  /\ defined' = ("media" \in halves /\ ~RealElements)
  /\ el' = NewElement /\ listeners' = <<>> /\ onerror' = NoListener
  /\ timers' = {} /\ stack' = <<>>
  /\ wanted' = [f \in Listeners |-> "no"] /\ calling' = NoListener
  /\ nextEntry' = 0 /\ UNCHANGED calls

\* The tests navigate once, to the page that they watch.
MayNavigate == stack = <<>> /\ (uses \in Tests => ~pageRuns)

\* A navigation: the old window's scripts and elements are gone.
Navigate ==
  /\ MayNavigate /\ m_id = 0
  /\ NewWindow /\ StubInNewWindow(source')
  /\ UNCHANGED <<mediaVars, testVars>>

Reannounce ==
  /\ MayNavigate
  /\ SameWindow /\ StubInWindow(source)
  /\ UNCHANGED <<mediaVars, testVars>>

WasmPage ==
  /\ uses = "WebAssembly"
  /\ WasmStep
  /\ UNCHANGED <<stubVars, mediaVars, testVars>>

StubPage ==
  /\ uses = "stub"
  /\ \/ pageRuns /\ GuestStep
     \/ StubStep
  /\ UNCHANGED <<wasmVars, mediaVars, testVars>>

MediaPage ==
  /\ uses = "player"
  /\ \/ pageRuns /\ MediaCall
     \/ MediaStep
  /\ UNCHANGED <<wasmVars, stubVars, testVars>>

Gate9Page ==
  /\ uses = "gate 9"
  /\ Gate9Step
  /\ UNCHANGED <<stubVars, mediaVars, mediaTestVars>>

MediaTestPage ==
  /\ uses = "media test" /\ pageRuns
  /\ MediaTestStep
  /\ UNCHANGED <<wasmVars, stubVars, gate9Vars>>

Next ==
  /\ UNCHANGED uses
  /\ \/ CallReturns /\ UNCHANGED <<stubVars, mediaVars, testVars>>
     \/ /\ returned = None
        /\ \/ (BootStep \/ PageStarts) /\ UNCHANGED <<stubVars, mediaVars, testVars>>
           \/ Navigate \/ Reannounce
           \/ WasmPage \/ StubPage \/ MediaPage
           \/ Gate9Page \/ MediaTestPage

Spec == Init /\ [][Next]_vars /\ MediaFairness

-----------------------------------------------------------------------------
(* Properties *)

\* Both acceptance tests of these APIs say PASS only of what did work, and FAIL only
\* when something did go wrong or took too long.
AcceptanceTellsTheTruth ==
  /\ uses = "gate 9" => Gate9TellsTheTruth
  /\ uses = "media test" => MediaTestTellsTheTruth
=============================================================================
