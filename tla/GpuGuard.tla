------------------------------ MODULE GpuGuard ------------------------------
(***************************************************************************)
(* The boot of a ?gpu=1 page whose renderer may be unfit: no context, no   *)
(* surfaces, or a software renderer that the present benchmark finds       *)
(* (main.cpp).  The engine goes on in raster mode, which the page cannot   *)
(* show, so it has the page load itself again with ?gpu=0 (browser.html).  *)
(* Until that navigation commits, the old document lives on.               *)
(***************************************************************************)
EXTENDS Sequences

VARIABLES
  guardDoc,      \* gpuMode of the page's document (its browser can show bitmaps); none
                 \* before it is opened
  guardEngine,   \* its engine: starting, initialised, running
  guardMode,     \* g_gpu: gpu or raster, none while starting
  guardBench,    \* the benchmark the page has printed: none, fast or slow
  guardFellBack, \* SOFTWARE-RENDERED was printed
  guardPosts,    \* what the engine's thread has posted to the page
  guardAsked,    \* a readback (GPU) or a first tick (raster) the engine owes an answer
  guardLeaving,  \* location.replace was called and has not committed
  guardVerdict   \* __bib.verdict of the document: pending or PASS

guardVars == <<guardDoc, guardEngine, guardMode, guardBench, guardFellBack,
               guardPosts, guardAsked, guardLeaving, guardVerdict>>

GuardInit ==
  /\ guardDoc = "none" /\ guardBench = "none" /\ guardFellBack = FALSE
  /\ guardEngine = "starting" /\ guardMode = "none"
  /\ guardPosts = <<>> /\ guardAsked = FALSE /\ guardLeaving = FALSE /\ guardVerdict = "pending"

\* A new document, and an engine of its own.
GuardLoads(doc) ==
  /\ guardDoc' = doc
  /\ guardEngine' = "starting" /\ guardMode' = "none"
  /\ guardPosts' = <<>> /\ guardAsked' = FALSE /\ guardLeaving' = FALSE /\ guardVerdict' = "pending"
  /\ UNCHANGED <<guardBench, guardFellBack>>

\* The context and Skia's, before anything is painted.
GuardStarts ==
  /\ guardDoc # "none" /\ guardEngine = "starting"
  /\ guardEngine' = "initialised"
  /\ \/ guardMode' = guardDoc /\ guardPosts' = guardPosts
     \/ /\ guardDoc = "gpu"
        /\ guardMode' = "raster"
        /\ guardPosts' = Append(guardPosts, "fallback")
  /\ UNCHANGED <<guardDoc, guardBench, guardFellBack, guardAsked, guardLeaving, guardVerdict>>

\* The surfaces, the benchmark where they are there, and the engine is ready.
GuardBenches ==
  /\ guardEngine = "initialised" /\ guardEngine' = "running"
  /\ \/ /\ guardBench' = IF guardMode = "gpu" THEN "fast" ELSE guardBench
        /\ guardPosts' = Append(guardPosts, "ready")
        /\ UNCHANGED <<guardMode, guardFellBack>>
     \/ /\ guardMode = "gpu" /\ guardMode' = "raster"
        /\ \/ guardBench' = "slow" /\ guardFellBack' = TRUE
           \/ UNCHANGED <<guardBench, guardFellBack>>
        /\ guardPosts' = guardPosts \o <<"fallback", "ready">>
  /\ UNCHANGED <<guardDoc, guardAsked, guardLeaving, guardVerdict>>

\* The picture: what a readback answers, or the first frame of a raster page.
GuardAnswers ==
  /\ guardAsked /\ guardAsked' = FALSE
  /\ guardPosts' = Append(guardPosts, "picture")
  /\ UNCHANGED <<guardDoc, guardEngine, guardMode, guardBench, guardFellBack,
                 guardLeaving, guardVerdict>>

GuardPost(post) ==
  /\ guardPosts # <<>> /\ Head(guardPosts) = post
  /\ guardPosts' = Tail(guardPosts)
  /\ UNCHANGED <<guardDoc, guardEngine, guardMode, guardBench, guardFellBack>>

\* bibGpuFallback; a raster page does not reload.
GuardFallback ==
  /\ GuardPost("fallback")
  /\ guardLeaving' = (guardLeaving \/ guardDoc = "gpu")
  /\ UNCHANGED <<guardAsked, guardVerdict>>
\* onEngineReady: a GPU page asks for a readback, a raster page ticks.
GuardReady ==
  /\ GuardPost("ready")
  /\ guardAsked' = TRUE
  /\ UNCHANGED <<guardLeaving, guardVerdict>>
\* judgeHelloFrame.
GuardJudges ==
  /\ GuardPost("picture")
  /\ guardVerdict' = "PASS"
  /\ UNCHANGED <<guardAsked, guardLeaving>>

\* The navigation commits.
GuardCommits == guardLeaving /\ GuardLoads("raster")

GuardStep == \/ GuardStarts \/ GuardBenches \/ GuardAnswers
             \/ GuardFallback \/ GuardReady \/ GuardJudges \/ GuardCommits
=============================================================================
