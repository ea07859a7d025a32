------------------------------ MODULE Gate8Test ------------------------------
(***************************************************************************)
(* The GPU path under its acceptance test, tools/gate8-gpu-test.mjs: the   *)
(* boot is judged by a readback, the test has the engine lose and restore  *)
(* its context, and a second readback must find the picture again, in the  *)
(* same document.  A second page then boots with the guard against         *)
(* software renderers on, and must end in the mode its benchmark calls     *)
(* for.  The test reads the console, the readbacks and the pages only.     *)
(* Behaviours without the test are those of GpuPresent.                    *)
(***************************************************************************)
EXTENDS GpuPresent, GpuGuard

CONSTANT MaxTimeouts  \* bound: deadlines of the test that pass
ASSUME TimeoutAssumption == MaxTimeouts \in Nat

VARIABLES
  tested,    \* the test drives the page, and nothing else takes its context
  phase,     \* boot, probe, lose, waiting, probe again, recovered, then the second
             \* page: guard, read, locate; judge, done
  seen,      \* the console lines the test has noticed: lost, restored, fellBack
  probes,    \* readbacks that showed the picture, of the two
  g4Ok,      \* the context came back in place
  p2verdict, \* the verdict read from the second page: none, pending, PASS, gone
  landed,    \* the second page was seen in raster mode
  early,     \* its verdict was awaited in a document that was being replaced
  verdict,   \* none, PASS or FAIL
  timeouts

secondVars == <<guardVars, p2verdict, landed, early>>
testVars == <<tested, phase, seen, probes, g4Ok, secondVars, verdict, timeouts>>

GateInit ==
  /\ Init /\ GuardInit
  /\ g4Ok = FALSE /\ p2verdict = "none" /\ landed = FALSE /\ early = FALSE
  /\ tested \in BOOLEAN
  /\ phase = IF tested THEN "boot" ELSE "done"
  /\ seen = {} /\ probes = {} /\ verdict = "none" /\ timeouts = 0

Proceed(from, to) ==
  /\ tested /\ phase = from /\ phase' = to
  /\ UNCHANGED <<tested, verdict>>
OnFirstPage == UNCHANGED <<g4Ok, secondVars>>
OnSecondPage == UNCHANGED <<vars, seen, probes, g4Ok>>
Deadline == timeouts < MaxTimeouts /\ timeouts' = timeouts + 1

\* The demo's verdict is in and ten ticks have passed: something was presented.
Booted ==
  /\ Proceed("boot", "probe") /\ OnFirstPage
  /\ firstFramePushed
  /\ UNCHANGED <<vars, seen, probes, timeouts>>

\* Three minutes without a verdict throw to the test's end.
BootTimesOut ==
  /\ tested /\ phase = "boot" /\ phase' = "done"
  /\ Deadline
  /\ verdict' = "FAIL"
  /\ OnFirstPage
  /\ UNCHANGED <<vars, tested, seen, probes>>

\* __bib.probe: a readback, good if it has the picture.  While the context is lost
\* there is none (bib_render_readback answers null).
Probe(from, to) ==
  /\ Proceed(from, to) /\ OnFirstPage
  /\ Running
  /\ IF gpuLost THEN UNCHANGED <<vars, probes>>
     ELSE Readback /\ probes' = IF surface' # Blank THEN probes \cup {from} ELSE probes
  /\ UNCHANGED <<seen, timeouts>>

\* _bib_gpu_test_lose_restore: WEBGL_lose_context, and its restore 500 ms later.
TestLoses ==
  /\ Proceed("lose", "waiting") /\ OnFirstPage
  /\ LoseContext
  /\ UNCHANGED <<seen, probes, timeouts>>

\* "gpu context restored", or 15 seconds without it, which is not yet a failure;
\* then the second probe.
RestoredSeen ==
  /\ Proceed("waiting", "probe again") /\ OnFirstPage
  /\ "restored" \in seen
  /\ UNCHANGED <<vars, seen, probes, timeouts>>
WaitTimesOut ==
  /\ Proceed("waiting", "probe again") /\ OnFirstPage
  /\ Deadline
  /\ UNCHANGED <<vars, seen, probes>>

\* A wrong form of the next: the picture is back, no matter how.
AnyRecovery == "lost" \in seen /\ probes = {"probe", "probe again"}
\* g4Ok and the first probe.
InPlaceRecovery == {"lost", "restored"} \subseteq seen /\ "fellBack" \notin seen
                     /\ probes = {"probe", "probe again"}

\* What the first page showed is settled; the second one is opened.
OpenGuard ==
  /\ Proceed("recovered", "guard")
  /\ g4Ok' = InPlaceRecovery
  /\ GuardLoads("gpu")
  /\ UNCHANGED <<vars, seen, probes, p2verdict, landed, early, timeouts>>

\* waitForFunction outlives the reload: a verdict in either document, or two
\* minutes without one.
GuardVerdictSeen ==
  /\ Proceed("guard", "read") /\ OnSecondPage
  /\ \/ guardVerdict # "pending" /\ timeouts' = timeouts
     \/ Deadline
  /\ early' = (guardDoc = "gpu" /\ guardMode = "raster")
  /\ UNCHANGED <<guardVars, p2verdict, landed>>

\* The page is asked again for its verdict, and then where it is: a navigation that
\* commits under the question makes it "(gone)", and no.
GuardVerdictRead ==
  /\ Proceed("read", "locate") /\ OnSecondPage
  /\ \/ p2verdict' = guardVerdict /\ UNCHANGED guardVars
     \/ p2verdict' = "gone" /\ GuardCommits
  /\ UNCHANGED <<landed, early, timeouts>>
GuardLocated ==
  /\ Proceed("locate", "judge") /\ OnSecondPage
  /\ \/ landed' = (guardDoc = "raster") /\ UNCHANGED guardVars
     \/ landed' = FALSE /\ GuardCommits
  /\ UNCHANGED <<p2verdict, early, timeouts>>

\* guardOk.  The benchmark and its policy must have come to the same answer.
GuardOk ==
  /\ p2verdict = "PASS"
  /\ \/ guardBench = "slow" /\ guardFellBack /\ landed
     \/ guardBench = "fast" /\ ~guardFellBack /\ ~landed

Judge ==
  /\ tested /\ phase = "judge"
  /\ phase' = "done"
  /\ verdict' = IF InPlaceRecovery /\ g4Ok /\ GuardOk THEN "PASS" ELSE "FAIL"
  /\ UNCHANGED <<vars, tested, seen, probes, g4Ok, secondVars, timeouts>>

\* The steps of the system in a tested page, and what they print.
SystemStep ==
  /\ \/ /\ Push \/ PresentWorkerHello \/ Bind \/ ReceiveConfig \/ ReceiveReady
           \/ ReceiveFrame \/ RestoreContext \/ Reboot
        /\ seen' = seen
     \/ HandleLost /\ seen' = seen \cup {"lost"}
     \/ HandleRestored /\ seen' = IF reloadPosted' THEN seen \cup {"fellBack"}
                                  ELSE IF gpuLost THEN seen \cup {"restored"} ELSE seen
     \/ RestoreTimedOut /\ seen' = IF gpuLost THEN seen \cup {"fellBack"} ELSE seen
     \/ GpuLostReload /\ seen' = IF raster' THEN seen \cup {"fellBack"} ELSE seen
  /\ OnFirstPage
  /\ UNCHANGED <<tested, phase, probes, verdict, timeouts>>

\* The second page is closed once it was read.
SecondPageStep ==
  /\ phase \in {"guard", "read", "locate"}
  /\ GuardStep
  /\ OnSecondPage
  /\ UNCHANGED <<tested, phase, p2verdict, landed, early, verdict, timeouts>>

GateNext ==
  \/ ~tested /\ Next /\ UNCHANGED testVars
  \/ tested /\ SystemStep
  \/ Booted \/ BootTimesOut \/ Probe("probe", "lose") \/ TestLoses
  \/ RestoredSeen \/ WaitTimesOut \/ Probe("probe again", "recovered")
  \/ OpenGuard \/ SecondPageStep \/ GuardVerdictSeen \/ GuardVerdictRead
  \/ GuardLocated \/ Judge

GateSpec == GateInit /\ [][GateNext]_<<vars, testVars>> /\ Fairness

-----------------------------------------------------------------------------
(* Properties *)

\* Gate 8 passes only on a recovery in place: the document that lost its context is
\* still there and has its picture, so no reload, however quick, is taken for one;
\* and only if the second page is left in the mode its renderer is fit for.  It fails
\* only where the recovery failed, a deadline passed, the second page has no GPU to
\* measure, or its verdict was awaited in the document that the guard was replacing.
Gate8TellsTheTruth ==
  /\ verdict = "PASS" =>
       /\ ~gpulost /\ ~raster /\ ~gpuLost /\ surface # Blank
       /\ guardDoc = IF guardBench = "slow" THEN "raster" ELSE "gpu"
       /\ guardEngine = "running" => guardDoc = guardMode
  /\ verdict = "FAIL" =>
       timeouts > 0 \/ "fellBack" \in seen \/ guardBench = "none" \/ early
=============================================================================
