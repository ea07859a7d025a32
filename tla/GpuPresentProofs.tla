-------------------------- MODULE GpuPresentProofs --------------------------
(***************************************************************************)
(* Safety of the present path for every depth the page may configure.      *)
(*                                                                         *)
(* None of the invariants is inductive alone: what a credit stands for     *)
(* depends on how far the two handshakes have got.  Handshake pins the     *)
(* present port's set-up down to its exact messages, GlShape the few       *)
(* orders in which the GL events can be pending.                           *)
(***************************************************************************)
EXTENDS Gate8Test, SequenceLemmas

\* Until the page's first ready arrives nothing has been posted and the only
\* messages under way are those of Bind; from then on only readies are.
Handshake ==
  /\ ~port => ~hello /\ ~bound
  /\ hello => ~bound
  /\ ~bound => acks = <<>> /\ ~wired
  /\ ~wired => frames = <<>> /\ inFlight = 0
  /\ bound /\ ~wired => \/ acks = <<"config", "ready">>
                        \/ acks = <<"ready">> /\ maxInFlight = PageDepth
  /\ wired => /\ maxInFlight = PageDepth
              /\ \A i \in 1..Len(acks) : acks[i] = "ready"
              /\ inFlight = Len(frames) + Len(acks)
              /\ inFlight <= PageDepth

\* A restored event is only ever pending for a context that is known lost.
GlShape ==
  \/ glEvents = <<>> /\ (glLive \/ gpuLost)
  \/ glEvents = <<"lost">> /\ ~glLive
  \/ glEvents = <<"restored">> /\ glLive /\ gpuLost
  \/ glEvents = <<"restored", "lost">> /\ ~glLive /\ gpuLost

IInv ==
  /\ TypeOK
  /\ Handshake
  /\ GlShape
  /\ LossIsAnswered
  /\ LatestFrameAccounted

USE DEF Version, AckMsg, GlEvent, DropCause, Blank, Running

\* The literal channel contents the two handshakes go through.
LEMMA AckLiterals ==
  /\ <<>> \in Seq(AckMsg)
  /\ <<"ready">> \in Seq(AckMsg) /\ Len(<<"ready">>) = 1
  /\ <<"ready">> # <<>> /\ <<"ready">>[1] = "ready"
  /\ Head(<<"ready">>) = "ready" /\ Tail(<<"ready">>) = <<>>
  /\ <<"config", "ready">> \in Seq(AckMsg) /\ <<"config", "ready">> # <<>>
  /\ Head(<<"config", "ready">>) = "config"
  /\ Tail(<<"config", "ready">>) = <<"ready">>
  /\ <<>> \o <<"config", "ready">> = <<"config", "ready">>
<1>1. "config" \in AckMsg /\ "ready" \in AckMsg
  BY DEF AckMsg
<1> QED
  BY <1>1, EmptySeq, SingletonSeq, PairSeq

LEMMA GlLiterals ==
  /\ <<>> \in Seq(GlEvent) /\ Len(<<>>) = 0
  /\ <<"lost">> \in Seq(GlEvent) /\ <<"lost">> # <<>> /\ Len(<<"lost">>) = 1
  /\ <<"lost">>[1] = "lost" /\ Head(<<"lost">>) = "lost"
  /\ Tail(<<"lost">>) = <<>> /\ Append(<<>>, "lost") = <<"lost">>
  /\ <<"restored">> \in Seq(GlEvent) /\ <<"restored">> # <<>>
  /\ Head(<<"restored">>) = "restored" /\ Tail(<<"restored">>) = <<>>
  /\ Append(<<>>, "restored") = <<"restored">>
  /\ Append(<<"restored">>, "lost") = <<"restored", "lost">>
  /\ <<"restored", "lost">> \in Seq(GlEvent) /\ <<"restored", "lost">> # <<>>
  /\ Len(<<"restored", "lost">>) = 2 /\ <<"restored", "lost">>[2] = "lost"
  /\ Head(<<"restored", "lost">>) = "restored"
  /\ Tail(<<"restored", "lost">>) = <<"lost">>
<1>1. "lost" \in GlEvent /\ "restored" \in GlEvent
  BY DEF GlEvent
<1>2. <<>> \in Seq(GlEvent) /\ Len(<<>>) = 0
  BY EmptySeq
<1>3. /\ <<"lost">> \in Seq(GlEvent) /\ <<"lost">> # <<>> /\ Len(<<"lost">>) = 1
      /\ <<"lost">>[1] = "lost" /\ Head(<<"lost">>) = "lost"
      /\ Tail(<<"lost">>) = <<>> /\ Append(<<>>, "lost") = <<"lost">>
  BY <1>1, SingletonSeq
<1>4. /\ <<"restored">> \in Seq(GlEvent) /\ <<"restored">> # <<>>
      /\ Head(<<"restored">>) = "restored" /\ Tail(<<"restored">>) = <<>>
      /\ Append(<<>>, "restored") = <<"restored">>
  BY <1>1, SingletonSeq
<1>5. /\ Append(<<"restored">>, "lost") = <<"restored", "lost">>
      /\ <<"restored", "lost">> \in Seq(GlEvent) /\ <<"restored", "lost">> # <<>>
      /\ Len(<<"restored", "lost">>) = 2 /\ <<"restored", "lost">>[2] = "lost"
      /\ Head(<<"restored", "lost">>) = "restored"
      /\ Tail(<<"restored", "lost">>) = <<"lost">>
  BY <1>1, PairSeq
<1> QED
  BY <1>2, <1>3, <1>4, <1>5, ZenonT(40)


LEMMA InitIInv == Init => IInv
<1> SUFFICES ASSUME Init PROVE IInv
  OBVIOUS
<1>1. TypeOK
  <2>1. frames \in Seq(Version) /\ acks \in Seq(AckMsg) /\ glEvents \in Seq(GlEvent)
    BY EmptySeq DEF Init
  <2>2. /\ content \in Version /\ surface \in Version /\ screen \in Version
        /\ inFlight \in Nat /\ maxInFlight \in Nat /\ faults \in 0..MaxFaults
    BY DepthAssumption, BoundAssumption DEF Init
  <2> QED
    BY <2>1, <2>2, ZenonT(40) DEF Init, TypeOK
<1>2. Handshake
  BY DEF Init, Handshake
<1>3. GlShape
  BY DEF Init, GlShape
<1>4. LossIsAnswered /\ LatestFrameAccounted
  BY DEF Init, LossIsAnswered, LatestFrameAccounted
<1> QED
  BY <1>1, <1>2, <1>3, <1>4 DEF IInv

\* Two steps whose types need nothing but the types before.
LEMMA LoseContextType ==
  ASSUME TypeOK, LoseContext, glEvents' \in Seq(GlEvent)
  PROVE  TypeOK'
<1>1. surface' \in Version
  BY BoundAssumption DEF LoseContext
<1>2. glLive' \in BOOLEAN
  BY DEF LoseContext
<1>3. /\ content' = content /\ dirty' = dirty /\ firstFramePushed' = firstFramePushed
      /\ reloading' = reloading /\ faults' = faults /\ dropped' = dropped
  BY DEF LoseContext
<1>4. /\ port' = port /\ wired' = wired /\ inFlight' = inFlight
      /\ maxInFlight' = maxInFlight /\ hello' = hello /\ frames' = frames
      /\ acks' = acks /\ bound' = bound /\ screen' = screen
      /\ gpulost' = gpulost /\ raster' = raster
  BY DEF LoseContext, presentVars, channelVars, pageVars
<1>5. gpuLost' = gpuLost /\ deadline' = deadline /\ reloadPosted' = reloadPosted
  BY DEF LoseContext
<1>6. /\ content' \in Version /\ dirty' \in BOOLEAN /\ firstFramePushed' \in BOOLEAN
      /\ reloading' \in BOOLEAN /\ faults' \in 0..MaxFaults
      /\ dropped' \in SUBSET DropCause
  BY <1>3 DEF TypeOK
<1>7. /\ port' \in BOOLEAN /\ wired' \in BOOLEAN /\ inFlight' \in Nat
      /\ maxInFlight' \in Nat /\ hello' \in BOOLEAN /\ frames' \in Seq(Version)
      /\ acks' \in Seq(AckMsg) /\ bound' \in BOOLEAN /\ screen' \in Version
      /\ gpulost' \in BOOLEAN /\ raster' \in BOOLEAN
  BY <1>4 DEF TypeOK
<1>8. gpuLost' \in BOOLEAN /\ deadline' \in BOOLEAN /\ reloadPosted' \in BOOLEAN
  BY <1>5 DEF TypeOK
<1> QED
  BY <1>1, <1>2, <1>6, <1>7, <1>8 DEF TypeOK

LEMMA GpuLostReloadType ==
  ASSUME TypeOK, GpuLostReload
  PROVE  TypeOK'
<1>1. /\ reloadPosted' \in BOOLEAN /\ reloading' \in BOOLEAN
      /\ raster' \in BOOLEAN /\ gpulost' \in BOOLEAN
  <2>1. /\ reloadPosted' = FALSE /\ reloading' = TRUE
        /\ raster' = gpulost /\ gpulost' = TRUE
    BY DEF GpuLostReload, SecondLoss
  <2>2. gpulost \in BOOLEAN
    BY DEF TypeOK
  <2> QED
    BY <2>1, <2>2
<1>2. /\ content' = content /\ dirty' = dirty /\ surface' = surface
      /\ firstFramePushed' = firstFramePushed /\ port' = port /\ wired' = wired
      /\ inFlight' = inFlight /\ maxInFlight' = maxInFlight
      /\ hello' = hello /\ frames' = frames /\ acks' = acks
  BY DEF GpuLostReload, engineVars, presentVars, channelVars
<1>3. /\ bound' = bound /\ screen' = screen /\ glLive' = glLive
      /\ glEvents' = glEvents /\ gpuLost' = gpuLost /\ deadline' = deadline
      /\ faults' = faults /\ dropped' = dropped
  BY DEF GpuLostReload
<1> QED
  BY <1>1, <1>2, <1>3, ZenonT(40) DEF TypeOK

LEMMA StepIInv == IInv /\ [Next]_vars => IInv'
<1> SUFFICES ASSUME IInv, [Next]_vars PROVE IInv'
  OBVIOUS
<1> USE DepthAssumption, BoundAssumption
    DEF IInv, vars, engineVars, presentVars, channelVars, pageVars, glVars
<1>1. CASE Invalidate
  <2>1. TypeOK'
    BY <1>1 DEF Invalidate, TypeOK
  <2>2. Handshake' /\ GlShape'
    BY <1>1 DEF Invalidate, Handshake, GlShape
  <2>3. LossIsAnswered' /\ LatestFrameAccounted'
    BY <1>1 DEF Invalidate, LossIsAnswered, LatestFrameAccounted
  <2> QED
    BY <2>1, <2>2, <2>3
<1>2. CASE Push
  <2>1. surface' \in Version /\ content' \in Version /\ dirty' \in BOOLEAN
        /\ (glLive => dirty' \/ surface' = content')
    BY <1>2 DEF Push, PaintGPUIfDirty, PaintSurface, DamageAfterPaint, TypeOK
  <2>2. /\ frames' \in Seq(Version)
        /\ frames' # <<>>
        /\ Len(frames') = Len(frames) + 1
        /\ frames'[Len(frames')] = surface'
    BY <2>1, <1>2, AppendFacts, LenProperties DEF Push, TypeOK
  <2>3. TypeOK'
    BY <1>2, <2>1, <2>2 DEF Push, TypeOK
  <2>4. Handshake'
    BY <1>2, <2>2 DEF Push, BitmapPresentReady, Handshake, TypeOK
  <2>5. GlShape' /\ LossIsAnswered'
    BY <1>2 DEF Push, GlShape, LossIsAnswered
  <2>6. LatestFrameAccounted'
    BY <1>2, <2>1, <2>2 DEF Push, LatestFrameAccounted, Newest
  <2> QED
    BY <2>3, <2>4, <2>5, <2>6
<1>3. CASE PushPaintFails
  <2>1. TypeOK'
    BY <1>3 DEF PushPaintFails, Fault, TypeOK
  <2>2. Handshake' /\ GlShape'
    BY <1>3 DEF PushPaintFails, Handshake, GlShape
  <2>3. LossIsAnswered' /\ LatestFrameAccounted'
    BY <1>3 DEF PushPaintFails, LossIsAnswered, LatestFrameAccounted
  <2> QED
    BY <2>1, <2>2, <2>3
<1>4. CASE PushPresentFails
  <2>1. TypeOK'
    BY <1>4 DEF PushPresentFails, PaintSurface, Fault, TypeOK
  <2>2. Handshake' /\ GlShape'
    BY <1>4 DEF PushPresentFails, Handshake, GlShape
  <2>3. LossIsAnswered' /\ LatestFrameAccounted'
    BY <1>4 DEF PushPresentFails, LossIsAnswered, LatestFrameAccounted
  <2> QED
    BY <2>1, <2>2, <2>3
<1>5. CASE Readback
  <2>1. TypeOK'
    BY <1>5 DEF Readback, PaintGPUIfDirty, PaintSurface, DamageAfterPaint, TypeOK
  <2>2. Handshake' /\ GlShape' /\ LossIsAnswered'
    BY <1>5 DEF Readback, Handshake, GlShape, LossIsAnswered
  <2>3. LatestFrameAccounted'
    <3>1. UNCHANGED <<frames, screen, reloading, raster, glLive, glEvents, gpuLost,
                      firstFramePushed>>
      BY <1>5 DEF Readback
    <3>2. Newest' = Newest /\ Running' = Running
      BY <3>1 DEF Newest
    <3>3. PICK during \in BOOLEAN :
            /\ dirty' = during
            /\ content' = IF during THEN content + 1 ELSE content
            /\ ~during /\ dirty => dropped' = dropped \cup {"readback"}
            /\ ~during /\ ~dirty => dropped' = dropped
      BY <1>5 DEF Readback, PaintGPUIfDirty, PaintSurface, DamageAfterPaint
    <3>4. CASE during
      BY <3>3, <3>4 DEF LatestFrameAccounted
    <3>5. CASE ~during /\ dirty
      BY <3>3, <3>5 DEF LatestFrameAccounted
    <3>6. CASE ~during /\ ~dirty
      <4>1. content' = content /\ dirty' = dirty /\ dropped' = dropped
        BY <3>3, <3>6 DEF TypeOK
      <4> QED
        BY <3>1, <3>2, <4>1 DEF LatestFrameAccounted
    <3> QED
      BY <3>4, <3>5, <3>6
  <2> QED
    BY <2>1, <2>2, <2>3
<1>6. CASE PresentWorkerHello
  <2>1. TypeOK'
    BY <1>6 DEF PresentWorkerHello, TypeOK
  <2>2. Handshake'
    BY <1>6 DEF PresentWorkerHello, Handshake
  <2>3. GlShape' /\ LossIsAnswered' /\ LatestFrameAccounted'
    BY <1>6 DEF PresentWorkerHello, GlShape, LossIsAnswered,
                LatestFrameAccounted, Newest
  <2> QED
    BY <2>1, <2>2, <2>3
<1>7. CASE Bind
  <2>1. acks = <<>> /\ acks' = <<"config", "ready">>
    BY <1>7, AckLiterals DEF Bind, BindMessages, Handshake
  <2>2. TypeOK'
    <3>1. acks' \in Seq(AckMsg)
      BY <2>1, AckLiterals
    <3>2. /\ hello' \in BOOLEAN /\ bound' \in BOOLEAN
          /\ UNCHANGED <<engineVars, presentVars, frames, screen, gpulost, raster,
                         glVars, reloading, faults, dropped>>
      BY <1>7 DEF Bind
    <3> QED
      BY <3>1, <3>2, SMTT(40) DEF TypeOK
  <2>3. Handshake'
    BY <1>7, <2>1 DEF Bind, Handshake
  <2>4. GlShape' /\ LossIsAnswered' /\ LatestFrameAccounted'
    BY <1>7 DEF Bind, GlShape, LossIsAnswered, LatestFrameAccounted, Newest
  <2> QED
    BY <2>2, <2>3, <2>4
<1>8. CASE ReceiveConfig
  <2>1. bound /\ ~wired /\ acks = <<"config", "ready">>
    <3>1. acks # <<>> /\ acks[1] = "config" /\ Len(acks) \in Nat \ {0}
      BY <1>8, TailFacts DEF ReceiveConfig, TypeOK
    <3>2. ~wired /\ bound
      BY <3>1 DEF Handshake
    <3>3. acks # <<"ready">>
      BY <3>1, AckLiterals
    <3> QED
      BY <3>2, <3>3 DEF Handshake
  <2>2. acks' = <<"ready">>
    BY <1>8, <2>1, AckLiterals DEF ReceiveConfig
  <2>3. TypeOK'
    <3>1. acks' \in Seq(AckMsg) /\ maxInFlight' \in Nat
      <4>1. maxInFlight' = PageDepth
        BY <1>8 DEF ReceiveConfig
      <4>2. acks' \in Seq(AckMsg)
        BY <2>2, AckLiterals
      <4> QED
        BY <4>1, <4>2
    <3> QED
      BY <1>8, <3>1 DEF ReceiveConfig, TypeOK
  <2>4. Handshake'
    BY <1>8, <2>1, <2>2 DEF ReceiveConfig, Handshake
  <2>5. GlShape' /\ LossIsAnswered' /\ LatestFrameAccounted'
    BY <1>8 DEF ReceiveConfig, GlShape, LossIsAnswered, LatestFrameAccounted,
                Newest
  <2> QED
    BY <2>3, <2>4, <2>5
<1>9. CASE ReceiveReady
  <2>1. /\ acks' \in Seq(AckMsg)
        /\ Len(acks) \in Nat \ {0}
        /\ Len(acks') = Len(acks) - 1
        /\ \A i \in 1..Len(acks') : acks'[i] = acks[i + 1]
        /\ acks[1] = "ready"
        /\ acks' = <<>> <=> Len(acks) = 1
    BY <1>9, TailFacts DEF ReceiveReady, TypeOK
  <2>2. TypeOK'
    <3>1. inFlight' \in Nat
      BY <1>9 DEF ReceiveReady, CreditReturned, TypeOK
    <3>2. /\ wired' \in BOOLEAN
          /\ UNCHANGED <<engineVars, port, maxInFlight, hello, frames, pageVars,
                         glVars, reloading, faults, dropped>>
      BY <1>9 DEF ReceiveReady
    <3> QED
      BY <2>1, <3>1, <3>2, SMTT(40) DEF TypeOK
  <2>3. Handshake'
    <3>1. Len(frames) \in Nat
      BY LenProperties DEF TypeOK
    <3>2. CASE wired
      <4>1. inFlight' = Len(frames') + Len(acks') /\ inFlight' <= PageDepth
        <5>1. inFlight = Len(frames) + Len(acks) /\ inFlight <= PageDepth
          BY <3>2 DEF Handshake
        <5>2. frames' = frames /\ inFlight' = inFlight - 1
          <6>1. frames' = frames /\ inFlight' = CreditReturned
            BY <1>9 DEF ReceiveReady
          <6>2. inFlight > 0
            BY <2>1, <3>1, <5>1
          <6> QED
            BY <6>1, <6>2 DEF CreditReturned
        <5> QED
          BY <2>1, <3>1, <5>1, <5>2
      <4>2. \A i \in 1..Len(acks') : acks'[i] = "ready"
        BY <1>9, <2>1, <3>2 DEF Handshake
      <4> QED
        BY <1>9, <3>2, <4>1, <4>2 DEF ReceiveReady, Handshake
    <3>3. CASE ~wired
      <4>1. bound /\ acks = <<"ready">> /\ maxInFlight = PageDepth
        BY <1>9, <3>3, AckLiterals DEF ReceiveReady, Handshake
      <4>2. Len(acks') = 0 /\ Len(frames') = 0 /\ inFlight' = 0
        BY <1>9, <2>1, <3>3, <4>1, AckLiterals, EmptySeq
           DEF ReceiveReady, CreditReturned, Handshake
      <4> QED
        BY <1>9, <4>1, <4>2 DEF ReceiveReady, Handshake
    <3> QED
      BY <3>2, <3>3 DEF TypeOK
  <2>4. GlShape' /\ LossIsAnswered' /\ LatestFrameAccounted'
    BY <1>9 DEF ReceiveReady, GlShape, LossIsAnswered, LatestFrameAccounted,
                Newest
  <2> QED
    BY <2>2, <2>3, <2>4
<1>10. CASE ReceiveFrame
  <2>1. /\ frames' \in Seq(Version)
        /\ Len(frames) \in Nat \ {0}
        /\ Len(frames') = Len(frames) - 1
        /\ \A i \in 1..Len(frames') : frames'[i] = frames[i + 1]
        /\ Head(frames) = frames[1]
        /\ Head(frames) \in Version
        /\ frames' = <<>> <=> Len(frames) = 1
    BY <1>10, TailFacts DEF ReceiveFrame, TypeOK
  <2>2. /\ acks' \in Seq(AckMsg)
        /\ Len(acks) \in Nat
        /\ Len(acks') = Len(acks) + 1
        /\ acks'[Len(acks) + 1] = "ready"
        /\ \A i \in 1..Len(acks) : acks'[i] = acks[i]
    BY <1>10, AppendFacts, LenProperties DEF ReceiveFrame, TypeOK
  <2>3. TypeOK'
    <3>1. screen' \in Version
      BY <1>10, <2>1 DEF ReceiveFrame, TypeOK
    <3>2. faults' \in 0..MaxFaults
      BY <1>10 DEF ReceiveFrame, Fault, TypeOK
    <3>3. dropped' \in SUBSET DropCause
      BY <1>10 DEF ReceiveFrame, TypeOK
    <3>4. UNCHANGED <<engineVars, presentVars, hello, bound, gpulost, raster, glVars,
                      reloading>>
      BY <1>10 DEF ReceiveFrame
    <3> QED
      BY <2>1, <2>2, <3>1, <3>2, <3>3, <3>4 DEF TypeOK
  <2>4. Handshake'
    <3>1. wired /\ bound
      BY <1>10 DEF ReceiveFrame, Handshake, TypeOK
    <3>2. inFlight' = Len(frames') + Len(acks')
      <4>1. inFlight = Len(frames) + Len(acks) /\ inFlight' = inFlight
        BY <1>10, <3>1 DEF ReceiveFrame, presentVars, Handshake
      <4> QED
        BY <2>1, <2>2, <4>1
    <3>3. \A i \in 1..Len(acks') : acks'[i] = "ready"
      BY <2>2, <3>1 DEF Handshake
    <3> QED
      BY <1>10, <3>1, <3>2, <3>3 DEF ReceiveFrame, Handshake
  <2>5. GlShape' /\ LossIsAnswered'
    BY <1>10 DEF ReceiveFrame, GlShape, LossIsAnswered
  <2>6. LatestFrameAccounted'
    <3>1. CASE Len(frames) = 1
      BY <1>10, <2>1, <3>1 DEF ReceiveFrame, LatestFrameAccounted, Newest
    <3>2. CASE Len(frames) # 1
      <4>1. frames' # <<>> /\ frames'[Len(frames')] = frames[Len(frames)]
        BY <2>1, <3>2
      <4> QED
        BY <1>10, <4>1, <3>2 DEF ReceiveFrame, LatestFrameAccounted, Newest
    <3> QED
      BY <3>1, <3>2
  <2> QED
    BY <2>3, <2>4, <2>5, <2>6
<1>11. CASE LoseContext
  <2>1. \/ glEvents' = <<"lost">>
        \/ glEvents' = <<"restored", "lost">> /\ gpuLost
    BY <1>11, GlLiterals DEF LoseContext, GlShape
  <2>2. TypeOK'
    <3>1. glEvents' \in Seq(GlEvent)
      BY <2>1, GlLiterals
    <3> QED
      BY <1>11, <3>1, LoseContextType
  <2>3. Handshake' /\ GlShape'
    BY <1>11, <2>1 DEF LoseContext, Handshake, GlShape
  <2>4. LossIsAnswered' /\ LatestFrameAccounted'
    BY <1>11, <2>1 DEF LoseContext, LossIsAnswered, LatestFrameAccounted
  <2> QED
    BY <2>2, <2>3, <2>4
<1>12. CASE HandleLost
  <2>1. glEvents = <<"lost">> /\ glEvents' = <<>>
    BY <1>12, GlLiterals DEF HandleLost, GlShape
  <2>2. TypeOK'
    <3>1. glEvents' \in Seq(GlEvent)
      BY <2>1, GlLiterals
    <3> QED
      BY <1>12, <3>1 DEF HandleLost, TypeOK
  <2>3. Handshake' /\ GlShape'
    BY <1>12, <2>1 DEF HandleLost, Handshake, GlShape
  <2>4. LossIsAnswered' /\ LatestFrameAccounted'
    BY <1>12 DEF HandleLost, LossIsAnswered, LatestFrameAccounted
  <2> QED
    BY <2>2, <2>3, <2>4
<1>13. CASE RestoreContext
  <2>1. glEvents = <<>> /\ gpuLost /\ glEvents' = <<"restored">>
    <3>1. glEvents # <<"lost">> /\ glEvents # <<"restored", "lost">>
      BY <1>13, GlLiterals DEF RestoreContext
    <3> QED
      BY <1>13, <3>1, GlLiterals DEF RestoreContext, GlShape
  <2>2. TypeOK'
    <3>1. glEvents' \in Seq(GlEvent)
      BY <2>1, GlLiterals
    <3> QED
      BY <1>13, <3>1 DEF RestoreContext, TypeOK
  <2>3. Handshake' /\ GlShape'
    BY <1>13, <2>1 DEF RestoreContext, Handshake, GlShape
  <2>4. LossIsAnswered' /\ LatestFrameAccounted'
    BY <1>13, <2>1 DEF RestoreContext, LossIsAnswered, LatestFrameAccounted
  <2> QED
    BY <2>2, <2>3, <2>4
<1>14. CASE HandleRestored
  <2>1. /\ gpuLost
        /\ \/ glEvents = <<"restored">> /\ glLive /\ glEvents' = <<>>
           \/ glEvents = <<"restored", "lost">> /\ ~glLive /\ glEvents' = <<"lost">>
    <3>1. glEvents # <<>> /\ glEvents # <<"lost">>
      BY <1>14, GlLiterals DEF HandleRestored
    <3> QED
      BY <1>14, <3>1, GlLiterals DEF HandleRestored, GlShape
  <2>2. TypeOK'
    <3>1. glEvents' \in Seq(GlEvent)
      BY <2>1, GlLiterals
    <3>2. surface' \in Version
      BY <1>14, <2>1 DEF HandleRestored, GpuRebuildAfterRestore
    <3>3. /\ gpuLost' \in BOOLEAN /\ dirty' \in BOOLEAN
          /\ dropped' \in SUBSET DropCause /\ reloadPosted' \in BOOLEAN
      BY <1>14, <2>1, ZenonT(40)
         DEF HandleRestored, GpuRebuildAfterRestore, QueueFullRepaint,
             RebuildFailed, TypeOK
    <3> QED
      BY <1>14, <3>1, <3>2, <3>3, ZenonT(40) DEF HandleRestored, TypeOK
  <2>3. Handshake' /\ GlShape'
    BY <1>14, <2>1 DEF HandleRestored, Handshake, GlShape
  <2>4. LossIsAnswered' /\ LatestFrameAccounted'
    BY <1>14, <2>1 DEF HandleRestored, GpuRebuildAfterRestore, QueueFullRepaint,
                       RebuildFailed, LossIsAnswered, LatestFrameAccounted
  <2> QED
    BY <2>2, <2>3, <2>4
<1>15. CASE RestoreTimedOut
  <2>1. TypeOK'
    <3>1. deadline' \in BOOLEAN /\ reloadPosted' \in BOOLEAN
      BY <1>15 DEF RestoreTimedOut, TypeOK
    <3>2. /\ UNCHANGED engineVars /\ UNCHANGED presentVars /\ UNCHANGED channelVars
          /\ UNCHANGED pageVars /\ glLive' = glLive /\ glEvents' = glEvents
          /\ gpuLost' = gpuLost /\ reloading' = reloading
          /\ faults' = faults /\ dropped' = dropped
      BY <1>15 DEF RestoreTimedOut
    <3> QED
      BY <3>1, <3>2 DEF TypeOK
  <2>2. Handshake' /\ GlShape'
    BY <1>15 DEF RestoreTimedOut, Handshake, GlShape
  <2>3. LossIsAnswered' /\ LatestFrameAccounted'
    BY <1>15 DEF RestoreTimedOut, LossIsAnswered, LatestFrameAccounted, Newest
  <2> QED
    BY <2>1, <2>2, <2>3
<1>16. CASE GpuLostReload
  <2>1. TypeOK'
    BY <1>16, GpuLostReloadType
  <2>2. Handshake' /\ GlShape'
    BY <1>16 DEF GpuLostReload, Handshake, GlShape
  <2>3. LossIsAnswered' /\ LatestFrameAccounted'
    BY <1>16 DEF GpuLostReload, LossIsAnswered, LatestFrameAccounted
  <2> QED
    BY <2>1, <2>2, <2>3
<1>17. CASE Reboot
  <2>1. TypeOK'
    <3>1. frames' \in Seq(Version) /\ acks' \in Seq(AckMsg) /\ glEvents' \in Seq(GlEvent)
      BY <1>17, EmptySeq DEF Reboot
    <3>2. /\ content' \in Version /\ surface' \in Version /\ screen' \in Version
          /\ inFlight' \in Nat /\ maxInFlight' \in Nat /\ faults' \in 0..MaxFaults
      BY <1>17 DEF Reboot, TypeOK
    <3> QED
      BY <1>17, <3>1, <3>2, ZenonT(40) DEF Reboot, TypeOK
  <2>2. Handshake' /\ GlShape'
    BY <1>17 DEF Reboot, Handshake, GlShape
  <2>3. LossIsAnswered' /\ LatestFrameAccounted'
    BY <1>17 DEF Reboot, LossIsAnswered, LatestFrameAccounted
  <2> QED
    BY <2>1, <2>2, <2>3
<1>18. CASE UNCHANGED vars
  BY <1>18 DEF TypeOK, Handshake, GlShape, LossIsAnswered,
               LatestFrameAccounted, Newest
<1> QED
  BY <1>1, <1>2, <1>3, <1>4, <1>5, <1>6, <1>7, <1>8, <1>9, <1>10, <1>11, <1>12,
     <1>13, <1>14, <1>15, <1>16, <1>17, <1>18 DEF Next

LEMMA Invariance == Spec => []IInv
BY InitIInv, StepIInv, PTL DEF Spec

\* The variables of the model keep their types.
THEOREM GpuTypeCorrect == Spec => []TypeOK
<1>1. IInv => TypeOK
  BY DEF IInv
<1> QED
  BY <1>1, Invariance, PTL

\* No present credit is lost or invented, for every depth the page may ask for.
THEOREM GpuCreditsConserved == Spec => []CreditsConserved
<1>1. IInv => CreditsConserved
  BY DEF IInv, Handshake, CreditsConserved
<1> QED
  BY <1>1, Invariance, PTL

\* The page never holds more undelivered bitmaps than it asked for.
THEOREM GpuDepthBound == Spec => []DepthBound
<1>1. IInv => DepthBound
  <2> SUFFICES ASSUME IInv PROVE Len(frames) <= PageDepth
    BY DEF DepthBound
  <2>1. Len(frames) \in Nat /\ Len(acks) \in Nat
    BY LenProperties DEF IInv, TypeOK
  <2>2. CASE wired
    BY <2>1, <2>2, DepthAssumption DEF IInv, Handshake
  <2>3. CASE ~wired
    BY <2>3, DepthAssumption DEF IInv, Handshake
  <2> QED
    BY <2>2, <2>3 DEF IInv, TypeOK
<1> QED
  BY <1>1, Invariance, PTL

\* Damage is never lost between the chrome client and #screen.
THEOREM GpuLatestFrameAccounted == Spec => []LatestFrameAccounted
<1>1. IInv => LatestFrameAccounted
  BY DEF IInv
<1> QED
  BY <1>1, Invariance, PTL

\* A lost context always has a restore event, a deadline or a reload ahead.
THEOREM GpuLossIsAnswered == Spec => []LossIsAnswered
<1>1. IInv => LossIsAnswered
  BY DEF IInv
<1> QED
  BY <1>1, Invariance, PTL

-----------------------------------------------------------------------------
(* The acceptance test over it: gate 8 *)

\* What the second page is doing, wherever its boot has got to.
GuardShape ==
  /\ guardDoc \in {"none", "gpu", "raster"}
  /\ guardEngine \in {"starting", "initialised", "running"}
  /\ guardPosts \in Seq({"fallback", "ready", "picture"})
  /\ guardVerdict \in {"pending", "PASS"}
  /\ guardDoc = "none" => guardEngine = "starting" /\ guardBench = "none"
  /\ guardEngine = "starting" => guardMode = "none" /\ guardPosts = <<>> /\ ~guardLeaving
  /\ guardEngine # "starting" => guardMode \in {"gpu", "raster"}
  /\ guardEngine # "running" =>
       /\ ~guardAsked /\ guardVerdict = "pending"
       /\ \A i \in DOMAIN guardPosts : guardPosts[i] = "fallback"
       /\ guardDoc = "gpu" => guardBench = "none"
  /\ guardMode = "gpu" =>
       /\ guardDoc = "gpu" /\ ~guardLeaving
       /\ \A i \in DOMAIN guardPosts : guardPosts[i] # "fallback"
  /\ guardDoc = "raster" => ~guardLeaving
  /\ guardBench \in {"none", "fast", "slow"}
  /\ guardBench = "fast" <=> guardMode = "gpu" /\ guardEngine = "running"
  /\ guardFellBack <=> guardBench = "slow"

\* Its verdict is in, in the document that it stays in.
Settled == guardVerdict = "PASS" /\ (guardDoc = "raster" \/ guardBench = "fast")

\* The first page has its context, and nothing about it is pending.
Sound == glLive /\ glEvents = <<>> /\ ~gpuLost

ProbedOnce == {"lose", "waiting", "probe again"}
OnSecond == {"guard", "read", "locate", "judge"}
ProbedTwice == {"recovered"} \cup OnSecond
GatePhases == {"boot", "probe", "done"} \cup ProbedOnce \cup ProbedTwice

\* What the lines the test has noticed say of the first page.
FirstPage ==
  /\ content # Blank /\ glEvents # <<"restored", "lost">>
  /\ "fellBack" \notin seen =>
       /\ ~reloadPosted /\ ~reloading /\ ~gpulost /\ ~raster
       /\ gpuLost \/ "restored" \in seen => "lost" \in seen
       /\ "restored" \in seen => Sound
       /\ "probe again" \in probes => Sound /\ surface # Blank
  /\ phase \in {"boot", "probe", "lose"} => Sound /\ seen = {}
  /\ phase \in {"boot", "probe"} => probes = {}
  /\ phase \in ProbedOnce => probes = {"probe"}
  /\ phase \in ProbedTwice =>
       /\ probes \in {{"probe"}, {"probe", "probe again"}}
       /\ timeouts = 0 /\ "fellBack" \notin seen => "probe again" \in probes
  /\ phase \in {"probe again"} \cup ProbedTwice /\ timeouts = 0 => "restored" \in seen
  /\ phase \in OnSecond /\ timeouts = 0 /\ "fellBack" \notin seen => g4Ok

SecondPage ==
  /\ phase \in OnSecond => guardDoc # "none"
  /\ phase \in {"boot", "probe", "recovered"} \cup ProbedOnce => guardDoc = "none"
  /\ phase = "read" /\ timeouts = 0 /\ ~early => Settled
  /\ phase = "locate" /\ timeouts = 0 /\ ~early => Settled /\ p2verdict = "PASS"
  /\ phase = "judge" /\ timeouts = 0 /\ ~early =>
       Settled /\ p2verdict = "PASS" /\ (guardDoc = "raster" => landed)
  /\ phase = "judge" /\ landed => guardDoc = "raster"

Verdicts ==
  /\ ~tested => phase = "done" /\ verdict = "none"
  /\ phase # "done" => verdict = "none"
  /\ verdict = "PASS" =>
       InPlaceRecovery /\ GuardOk /\ (landed => guardDoc = "raster")
  /\ verdict = "FAIL" =>
       timeouts > 0 \/ "fellBack" \in seen \/ guardBench = "none" \/ early

GateIInv ==
  /\ IInv
  /\ tested \in BOOLEAN /\ phase \in GatePhases /\ timeouts \in Nat
  /\ GuardShape
  /\ tested => FirstPage
  /\ SecondPage
  /\ Verdicts

LEMMA GuardPostFacts ==
  ASSUME GuardShape, NEW post, GuardPost(post)
  PROVE  /\ guardPosts' \in Seq({"fallback", "ready", "picture"})
         /\ \A i \in DOMAIN guardPosts' : \E k \in DOMAIN guardPosts :
              guardPosts'[i] = guardPosts[k]
         /\ \E k \in DOMAIN guardPosts : guardPosts[k] = post
         /\ UNCHANGED <<guardDoc, guardEngine, guardMode, guardBench, guardFellBack>>
         /\ guardEngine # "starting"
<1>1. /\ guardPosts \in Seq({"fallback", "ready", "picture"}) /\ guardPosts # <<>>
      /\ guardPosts' = Tail(guardPosts) /\ Head(guardPosts) = post
      /\ UNCHANGED <<guardDoc, guardEngine, guardMode, guardBench, guardFellBack>>
  BY DEF GuardShape, GuardPost
<1>2. /\ Tail(guardPosts) \in Seq({"fallback", "ready", "picture"})
      /\ DOMAIN Tail(guardPosts) = 1..(Len(guardPosts) - 1)
      /\ \A i \in 1..(Len(guardPosts) - 1) : Tail(guardPosts)[i] = guardPosts[i + 1]
      /\ Len(guardPosts) \in Nat \ {0} /\ DOMAIN guardPosts = 1..Len(guardPosts)
      /\ 1 \in DOMAIN guardPosts /\ Head(guardPosts) = guardPosts[1]
  BY <1>1, OneLess
<1>3. \A i \in DOMAIN guardPosts' : \E k \in DOMAIN guardPosts : guardPosts'[i] = guardPosts[k]
  BY <1>1, <1>2
<1>4. guardEngine # "starting"
  BY <1>1 DEF GuardShape
<1> QED
  BY <1>1, <1>2, <1>3, <1>4

\* A new document of the second page: the one it is opened with, or the reload.
LEMMA GuardLoadsShape ==
  ASSUME GuardShape,
         \/ guardDoc = "none" /\ GuardLoads("gpu")
         \/ GuardCommits
  PROVE  GuardShape' /\ guardDoc' # "none"
<1>1. guardBench # "fast"
  BY DEF GuardShape, GuardCommits
<1>2. /\ guardDoc' \in {"gpu", "raster"} /\ guardEngine' = "starting" /\ guardMode' = "none"
      /\ guardPosts' = <<>> /\ ~guardAsked' /\ ~guardLeaving' /\ guardVerdict' = "pending"
      /\ UNCHANGED <<guardBench, guardFellBack>>
      /\ guardDoc' = "gpu" => guardBench = "none"
  BY DEF GuardLoads, GuardCommits, GuardShape
<1>3. guardPosts' \in Seq({"fallback", "ready", "picture"}) /\ DOMAIN guardPosts' = {}
  BY <1>2, EmptySeq
<1> QED
  BY <1>1, <1>2, <1>3 DEF GuardShape

LEMMA GuardStartsShape ==
  ASSUME GuardShape, GuardStarts
  PROVE  GuardShape'
<1>1. /\ guardDoc # "none" /\ guardEngine = "starting" /\ guardEngine' = "initialised"
      /\ UNCHANGED <<guardDoc, guardBench, guardFellBack, guardAsked, guardLeaving, guardVerdict>>
  BY DEF GuardStarts
<1>2. guardPosts = <<>> /\ ~guardLeaving /\ ~guardAsked /\ guardVerdict = "pending"
      /\ guardDoc \in {"gpu", "raster"} /\ guardBench # "fast"
  BY <1>1 DEF GuardShape
<1>3. CASE guardMode' = guardDoc /\ guardPosts' = guardPosts
  <2>1. guardPosts' \in Seq({"fallback", "ready", "picture"}) /\ DOMAIN guardPosts' = {}
    BY <1>2, <1>3, EmptySeq
  <2> QED
    BY <1>1, <1>2, <1>3, <2>1 DEF GuardShape
<1>4. CASE guardMode' = "raster" /\ guardPosts' = Append(guardPosts, "fallback")
  <2>1. guardPosts' = <<"fallback">>
    BY <1>2, <1>4, SingletonSeq
  <2>2. /\ guardPosts' \in Seq({"fallback", "ready", "picture"})
        /\ \A i \in DOMAIN guardPosts' : guardPosts'[i] = "fallback"
    BY <2>1
  <2> QED
    BY <1>1, <1>2, <1>4, <2>2 DEF GuardShape
<1> QED
  BY <1>3, <1>4 DEF GuardStarts

LEMMA GuardBenchesShape ==
  ASSUME GuardShape, GuardBenches
  PROVE  GuardShape'
<1> DEFINE Posts == {"fallback", "ready", "picture"}
<1>1. /\ guardEngine = "initialised" /\ guardEngine' = "running"
      /\ UNCHANGED <<guardDoc, guardAsked, guardLeaving, guardVerdict>>
      /\ guardPosts \in Seq(Posts) /\ guardMode \in {"gpu", "raster"} /\ guardBench # "fast"
      /\ guardDoc \in {"gpu", "raster"}
  BY DEF GuardShape, GuardBenches
<1>2. CASE /\ guardBench' = IF guardMode = "gpu" THEN "fast" ELSE guardBench
           /\ guardPosts' = Append(guardPosts, "ready")
           /\ UNCHANGED <<guardMode, guardFellBack>>
  <2>1. "ready" \in Posts
    OBVIOUS
  <2>2. /\ guardPosts' \in Seq(Posts) /\ DOMAIN guardPosts = 1..Len(guardPosts)
        /\ DOMAIN guardPosts' = 1..(Len(guardPosts) + 1) /\ Len(guardPosts) \in Nat
        /\ \A i \in 1..Len(guardPosts) : guardPosts'[i] = guardPosts[i]
        /\ guardPosts'[Len(guardPosts) + 1] = "ready"
    BY <1>1, <1>2, <2>1, OneMore
  <2>3. guardMode = "gpu" => \A i \in DOMAIN guardPosts' : guardPosts'[i] # "fallback"
    <3>1. ASSUME guardMode = "gpu", NEW i \in DOMAIN guardPosts'
          PROVE  guardPosts'[i] # "fallback"
      <4>1. i \in 1..Len(guardPosts) \/ i = Len(guardPosts) + 1
        BY <2>2, <3>1
      <4>2. \A k \in 1..Len(guardPosts) : guardPosts[k] # "fallback"
        BY <2>2, <3>1 DEF GuardShape
      <4> QED
        BY <2>2, <4>1, <4>2
    <3> QED
      BY <3>1
  <2>4. guardMode = "gpu" => guardBench = "none"
    BY <1>1 DEF GuardShape
  <2> QED
    BY <1>1, <1>2, <2>2, <2>3, <2>4 DEF GuardShape
<1>3. CASE /\ guardMode = "gpu" /\ guardMode' = "raster"
           /\ \/ guardBench' = "slow" /\ guardFellBack' = TRUE
              \/ UNCHANGED <<guardBench, guardFellBack>>
           /\ guardPosts' = guardPosts \o <<"fallback", "ready">>
  <2>1. <<"fallback", "ready">> \in Seq(Posts)
    OBVIOUS
  <2>2. guardPosts' \in Seq(Posts)
    BY <1>1, <1>3, <2>1, ConcatElements
  <2> QED
    BY <1>1, <1>3, <2>2 DEF GuardShape
<1> QED
  BY <1>2, <1>3 DEF GuardBenches

LEMMA GuardStepShape ==
  ASSUME GuardShape, GuardStep
  PROVE  /\ GuardShape'
         /\ guardDoc # "none" => guardDoc' # "none"
         /\ Settled => Settled' /\ guardDoc' = guardDoc /\ guardBench' = guardBench
         /\ guardDoc = "raster" => guardDoc' = "raster"
<1>1. CASE GuardStarts
  BY <1>1, GuardStartsShape DEF GuardStarts, Settled, GuardShape
<1>2. CASE GuardBenches
  BY <1>2, GuardBenchesShape DEF GuardBenches, Settled, GuardShape
<1>3. CASE GuardAnswers
  <2>1. /\ guardAsked /\ guardPosts' = Append(guardPosts, "picture")
        /\ guardPosts \in Seq({"fallback", "ready", "picture"}) /\ ~guardAsked'
        /\ UNCHANGED <<guardDoc, guardEngine, guardMode, guardBench, guardFellBack,
                       guardLeaving, guardVerdict>>
    BY <1>3 DEF GuardAnswers, GuardShape
  <2>2. guardEngine = "running"
    BY <2>1 DEF GuardShape
  <2>3. /\ guardPosts' \in Seq({"fallback", "ready", "picture"})
        /\ DOMAIN guardPosts = 1..Len(guardPosts)
        /\ DOMAIN guardPosts' = 1..(Len(guardPosts) + 1) /\ Len(guardPosts) \in Nat
        /\ \A i \in 1..Len(guardPosts) : guardPosts'[i] = guardPosts[i]
        /\ guardPosts'[Len(guardPosts) + 1] = "picture"
    BY <2>1, OneMore
  <2>4. guardMode = "gpu" => \A i \in DOMAIN guardPosts' : guardPosts'[i] # "fallback"
    <3>1. ASSUME guardMode = "gpu", NEW i \in DOMAIN guardPosts'
          PROVE  guardPosts'[i] # "fallback"
      <4>1. i \in 1..Len(guardPosts) \/ i = Len(guardPosts) + 1
        BY <2>3, <3>1
      <4>2. \A k \in 1..Len(guardPosts) : guardPosts[k] # "fallback"
        BY <2>3, <3>1 DEF GuardShape
      <4> QED
        BY <2>3, <4>1, <4>2
    <3> QED
      BY <3>1
  <2> QED
    BY <2>1, <2>2, <2>3, <2>4 DEF GuardShape, Settled
<1>4. CASE GuardFallback
  <2>1. GuardPost("fallback") /\ guardLeaving' = (guardLeaving \/ guardDoc = "gpu")
        /\ UNCHANGED <<guardAsked, guardVerdict>>
    BY <1>4 DEF GuardFallback
  <2>2. guardMode # "gpu"
    BY <2>1, GuardPostFacts DEF GuardShape
  <2> QED
    BY <2>1, <2>2, GuardPostFacts DEF GuardShape, Settled
<1>5. CASE GuardReady
  <2>1. GuardPost("ready") /\ guardAsked' = TRUE /\ UNCHANGED <<guardLeaving, guardVerdict>>
    BY <1>5 DEF GuardReady
  <2>2. guardEngine = "running"
    BY <2>1, GuardPostFacts DEF GuardShape
  <2> QED
    BY <2>1, <2>2, GuardPostFacts DEF GuardShape, Settled
<1>6. CASE GuardJudges
  <2>1. GuardPost("picture") /\ guardVerdict' = "PASS" /\ UNCHANGED <<guardAsked, guardLeaving>>
    BY <1>6 DEF GuardJudges
  <2>2. guardEngine = "running"
    BY <2>1, GuardPostFacts DEF GuardShape
  <2> QED
    BY <2>1, <2>2, GuardPostFacts DEF GuardShape, Settled
<1>7. CASE GuardCommits
  <2>1. GuardShape' /\ guardDoc' = "raster"
    BY <1>7, GuardLoadsShape DEF GuardCommits, GuardLoads
  <2>2. ~Settled
    BY <1>7 DEF GuardCommits, Settled, GuardShape
  <2> QED
    BY <2>1, <2>2
<1> QED
  BY <1>1, <1>2, <1>3, <1>4, <1>5, <1>6, <1>7 DEF GuardStep


\* The steps of the system that leave the context alone.
Presents ==
  Push \/ PresentWorkerHello \/ Bind \/ ReceiveConfig \/ ReceiveReady \/ ReceiveFrame

LEMMA PresentsKeep ==
  ASSUME TypeOK, Presents
  PROVE  /\ UNCHANGED <<glVars, gpulost, raster, reloading>>
         /\ content # Blank => content' # Blank
         /\ Sound /\ surface # Blank /\ content # Blank => surface' # Blank
<1>1. CASE Push
  <2>1. PICK during \in BOOLEAN : PaintSurface(~firstFramePushed, during)
    BY <1>1 DEF Push, PaintGPUIfDirty
  <2>2. content \in Nat
    BY BoundAssumption DEF TypeOK
  <2> QED
    BY <1>1, <2>1, <2>2 DEF Push, PaintSurface, pageVars, Sound
<1>2. CASE PresentWorkerHello \/ Bind \/ ReceiveConfig \/ ReceiveReady
  BY <1>2 DEF PresentWorkerHello, Bind, ReceiveConfig, ReceiveReady, pageVars, engineVars
<1>3. CASE ReceiveFrame
  BY <1>3 DEF ReceiveFrame, pageVars, engineVars
<1> QED
  BY <1>1, <1>2, <1>3 DEF Presents

LEMMA SystemFirstPage ==
  ASSUME TypeOK, GlShape, FirstPage, SystemStep
  PROVE  FirstPage'
<1> USE DEF engineVars, presentVars, channelVars, pageVars, glVars
<1>1. UNCHANGED <<phase, probes, g4Ok, timeouts>>
  BY DEF SystemStep, OnFirstPage
<1>2. CASE Presents /\ seen' = seen
  <2>1. /\ UNCHANGED <<glLive, glEvents, gpuLost, reloadPosted, reloading, gpulost, raster>>
        /\ content # Blank => content' # Blank
        /\ Sound /\ surface # Blank /\ content # Blank => surface' # Blank
    BY <1>2, PresentsKeep
  <2>2. Sound' <=> Sound
    BY <2>1 DEF Sound
  <2> HIDE DEF Sound, InPlaceRecovery
  <2> QED
    BY <1>1, <1>2, <2>1, <2>2 DEF FirstPage
<1>3. CASE RestoreContext /\ seen' = seen
  <2>1. /\ ~glLive /\ UNCHANGED <<content, surface, gpuLost, reloadPosted, reloading, gpulost, raster>>
        /\ glEvents' = Append(glEvents, "restored")
        /\ \A i \in DOMAIN glEvents : glEvents[i] # "lost"
    BY <1>3 DEF RestoreContext
  <2>2. glEvents = <<>>
    BY <2>1, GlLiterals DEF GlShape
  <2>3. glEvents' # <<"restored", "lost">>
    BY <2>1, <2>2, GlLiterals
  <2> QED
    BY <1>1, <1>3, <2>1, <2>3 DEF FirstPage, Sound
<1>4. CASE Reboot /\ seen' = seen
  <2>1. reloading /\ content' = content /\ glEvents' = <<>>
    BY <1>4 DEF Reboot
  <2>2. "fellBack" \in seen
    BY <2>1 DEF FirstPage
  <2> QED
    BY <1>1, <1>4, <2>1, <2>2, GlLiterals DEF FirstPage
<1>5. CASE HandleLost /\ seen' = seen \cup {"lost"}
  <2>1. /\ glEvents # <<>> /\ Head(glEvents) = "lost" /\ glEvents' = Tail(glEvents)
        /\ UNCHANGED <<content, surface, reloadPosted, reloading, gpulost, raster>>
    BY <1>5 DEF HandleLost
  <2>2. glEvents' = <<>>
    BY <2>1, GlLiterals DEF GlShape
  <2>3. ~Sound
    BY <2>1 DEF Sound
  <2> QED
    BY <1>1, <1>5, <2>1, <2>2, <2>3, GlLiterals DEF FirstPage
<1>6. CASE /\ HandleRestored
           /\ seen' = IF reloadPosted' THEN seen \cup {"fellBack"}
                      ELSE IF gpuLost THEN seen \cup {"restored"} ELSE seen
  <2>1. /\ glEvents # <<>> /\ Head(glEvents) = "restored" /\ glEvents' = Tail(glEvents)
        /\ UNCHANGED <<content, reloading, gpulost, raster, glLive>>
    BY <1>6 DEF HandleRestored
  <2>2. glEvents = <<"restored">> /\ glLive /\ gpuLost /\ glEvents' = <<>> /\ ~Sound
    BY <2>1, GlLiterals DEF GlShape, FirstPage, Sound
  <2>3. (gpuLost' = FALSE /\ reloadPosted' = reloadPosted) \/ reloadPosted' = TRUE
    BY <1>6, <2>2 DEF HandleRestored, GpuRebuildAfterRestore, RebuildFailed
  <2>4. phase \notin {"boot", "probe", "lose"} /\ content' # Blank
    BY <2>1, <2>2 DEF FirstPage
  <2>5. CASE reloadPosted'
    BY <1>1, <1>6, <2>2, <2>4, <2>5, GlLiterals DEF FirstPage
  <2>6. CASE ~reloadPosted'
    <3>1. gpuLost' = FALSE /\ ~reloadPosted /\ seen' = seen \cup {"restored"} /\ Sound'
      BY <1>6, <2>1, <2>2, <2>3, <2>6 DEF Sound
    <3>2. "fellBack" \notin seen => "lost" \in seen /\ "probe again" \notin probes
      BY <2>2 DEF FirstPage
    <3> QED
      BY <1>1, <2>1, <2>2, <2>4, <2>6, <3>1, <3>2, GlLiterals DEF FirstPage
  <2> QED
    BY <2>5, <2>6
<1>7. CASE /\ RestoreTimedOut
           /\ seen' = IF gpuLost THEN seen \cup {"fellBack"} ELSE seen
  <2>1. /\ reloadPosted' = (reloadPosted \/ gpuLost)
        /\ UNCHANGED <<content, surface, reloading, gpulost, raster, glLive, glEvents, gpuLost>>
    BY <1>7 DEF RestoreTimedOut
  <2>2. CASE gpuLost
    <3>1. phase \notin {"boot", "probe", "lose"} /\ "fellBack" \in seen'
      BY <1>7, <2>2 DEF FirstPage, Sound
    <3> QED
      BY <1>1, <1>7, <2>1, <2>2, <3>1 DEF FirstPage
  <2>3. CASE ~gpuLost
    <3>1. reloadPosted' = reloadPosted /\ seen' = seen
      BY <1>7, <2>1, <2>3 DEF TypeOK
    <3>2. UNCHANGED <<content, surface, reloading, gpulost, raster, glEvents, gpuLost, glLive>>
      BY <2>1
    <3>3. Sound' <=> Sound
      BY <3>2 DEF Sound
    <3> QED
      BY <1>1, <3>1, <3>2, <3>3 DEF FirstPage
  <2> QED
    BY <2>2, <2>3
<1>8. CASE GpuLostReload /\ seen' = IF raster' THEN seen \cup {"fellBack"} ELSE seen
  <2>1. reloadPosted /\ UNCHANGED <<content, glEvents>>
    BY <1>8 DEF GpuLostReload
  <2>2. "fellBack" \in seen /\ "fellBack" \in seen' /\ phase \notin {"boot", "probe", "lose"}
    BY <1>8, <2>1 DEF FirstPage
  <2> QED
    BY <1>1, <1>8, <2>1, <2>2 DEF FirstPage
<1> QED
  BY <1>2, <1>3, <1>4, <1>5, <1>6, <1>7, <1>8 DEF SystemStep, Presents

\* A readback shows the picture exactly where there is a context to paint it with.
LEMMA ReadbackShows ==
  ASSUME TypeOK, Readback
  PROVE  /\ UNCHANGED <<glVars, gpulost, raster, reloading>>
         /\ surface' = IF glLive THEN content ELSE Blank
         /\ surface' # Blank <=> glLive /\ content # Blank
         /\ content # Blank => content' # Blank
<1>1. /\ \E during \in BOOLEAN : PaintSurface(TRUE, during)
      /\ UNCHANGED <<pageVars, glVars, reloading>>
  BY Zenon DEF Readback, PaintGPUIfDirty
<1>2. content \in Nat
  BY BoundAssumption DEF TypeOK
<1>3. /\ surface' = IF glLive THEN content ELSE Blank
      /\ content' = content \/ content' = content + 1
  BY <1>1 DEF PaintSurface
<1>4. UNCHANGED <<glVars, gpulost, raster, reloading>>
  BY <1>1 DEF pageVars
<1>5. content # Blank => content' # Blank
  BY <1>2, <1>3
<1> QED
  BY <1>3, <1>4, <1>5

LEMMA DeadlinePasses ==
  ASSUME timeouts \in Nat, Deadline
  PROVE  timeouts' # 0 /\ timeouts' > 0 /\ timeouts' \in Nat
BY DEF Deadline

\* The steps of the test on the first page.
LEMMA TestFirstPage ==
  ASSUME TypeOK, GlShape, FirstPage, tested, timeouts \in Nat,
         \/ Booted \/ BootTimesOut \/ Probe("probe", "lose") \/ TestLoses
         \/ RestoredSeen \/ WaitTimesOut \/ Probe("probe again", "recovered") \/ OpenGuard
  PROVE  FirstPage'
<1>1. \A x \in {"boot", "probe", "recovered"} : x \notin ProbedOnce
  BY DEF ProbedOnce
<1> USE DEF ProbedOnce, ProbedTwice, OnSecond
<1>2. CASE Booted
  BY <1>2 DEF Booted, Proceed, OnFirstPage, vars, engineVars, pageVars, glVars, FirstPage, Sound
<1>3. CASE BootTimesOut
  BY <1>3 DEF BootTimesOut, Proceed, OnFirstPage, vars, engineVars, pageVars, glVars, FirstPage,
              Sound
<1>4. ASSUME NEW from \in {"probe", "probe again"}, NEW to, Probe(from, to)
      PROVE  /\ phase = from /\ phase' = to /\ UNCHANGED <<seen, timeouts, g4Ok>>
             /\ UNCHANGED <<glVars, gpulost, raster, reloading>>
             /\ content # Blank => content' # Blank
             /\ gpuLost => UNCHANGED <<vars, probes>>
             /\ ~gpuLost => probes' = IF glLive /\ content # Blank THEN probes \cup {from} ELSE probes
             /\ ~gpuLost => surface' = IF glLive THEN content ELSE Blank
  <2>1. /\ phase = from /\ phase' = to /\ UNCHANGED <<seen, timeouts, g4Ok>>
    BY <1>4 DEF Probe, Proceed, OnFirstPage
  <2>2. CASE gpuLost
    BY <1>4, <2>1, <2>2 DEF Probe, vars, pageVars, engineVars
  <2>3. CASE ~gpuLost
    <3>1. Readback /\ probes' = IF surface' # Blank THEN probes \cup {from} ELSE probes
      BY <1>4, <2>3 DEF Probe
    <3>2. /\ UNCHANGED <<glVars, gpulost, raster, reloading>>
          /\ surface' = IF glLive THEN content ELSE Blank
          /\ surface' # Blank <=> glLive /\ content # Blank
          /\ content # Blank => content' # Blank
      BY <3>1, ReadbackShows
    <3>3. probes' = IF glLive /\ content # Blank THEN probes \cup {from} ELSE probes
      BY <3>1, <3>2
    <3> QED
      BY <2>1, <2>3, <3>2, <3>3
  <2> QED
    BY <2>2, <2>3
<1>5. CASE Probe("probe", "lose")
  <2>1. /\ phase = "probe" /\ phase' = "lose"
        /\ UNCHANGED <<seen, timeouts, g4Ok, glVars, gpulost, raster, reloading>>
        /\ content # Blank => content' # Blank
        /\ ~gpuLost => probes' = IF glLive /\ content # Blank THEN probes \cup {"probe"} ELSE probes
        /\ ~gpuLost => surface' = IF glLive THEN content ELSE Blank
    BY <1>4, <1>5
  <2>2. seen = {} /\ probes = {} /\ content # Blank /\ glLive /\ ~gpuLost
    BY <2>1 DEF FirstPage, Sound
  <2>3. probes' = {"probe"}
    BY <2>1, <2>2
  <2> QED
    BY <2>1, <2>2, <2>3 DEF FirstPage, Sound, glVars
<1>6. CASE TestLoses
  <2>1. /\ phase = "lose" /\ phase' = "waiting" /\ UNCHANGED <<seen, probes, timeouts, g4Ok>>
        /\ glEvents' = Append(glEvents, "lost")
        /\ UNCHANGED <<content, gpuLost, reloadPosted, reloading, gpulost, raster>>
    BY <1>6 DEF TestLoses, Proceed, OnFirstPage, LoseContext, pageVars
  <2>2. glEvents = <<>> /\ seen = {} /\ probes = {"probe"}
    BY <2>1 DEF FirstPage, Sound
  <2>3. glEvents' # <<"restored", "lost">>
    BY <2>1, <2>2, GlLiterals
  <2> QED
    BY <2>1, <2>2, <2>3 DEF FirstPage, Sound
<1>7. CASE RestoredSeen
  BY <1>7 DEF RestoredSeen, Proceed, OnFirstPage, vars, engineVars, pageVars, glVars, FirstPage,
              Sound
<1>8. CASE WaitTimesOut
  <2>1. timeouts' # 0
    <3>1. Deadline
      BY <1>8 DEF WaitTimesOut
    <3> QED
      BY <3>1, DeadlinePasses
  <2> QED
    BY <1>8, <2>1 DEF WaitTimesOut, Proceed, OnFirstPage, vars, engineVars, pageVars, glVars,
                      FirstPage, Sound
<1>9. CASE Probe("probe again", "recovered")
  <2>1. CASE gpuLost
    <3>1. ~Sound
      BY <2>1 DEF Sound
    <3>2. /\ phase = "probe again" /\ phase' = "recovered"
          /\ UNCHANGED <<vars, probes, seen, timeouts, g4Ok>>
      BY <1>4, <1>9, <2>1
    <3>3. timeouts = 0 => "fellBack" \in seen
      BY <3>1, <3>2 DEF FirstPage
    <3> QED
      BY <3>2, <3>3 DEF FirstPage, Sound, vars, engineVars, pageVars, glVars
  <2>2. CASE ~gpuLost
    <3>1. /\ phase = "probe again" /\ phase' = "recovered"
          /\ UNCHANGED <<seen, timeouts, g4Ok, glVars, gpulost, raster, reloading>>
          /\ content # Blank /\ content' # Blank
          /\ probes' = IF glLive THEN probes \cup {"probe again"} ELSE probes
          /\ glLive => surface' # Blank
      BY <1>4, <1>9, <2>2 DEF FirstPage
    <3>2. glLive => Sound
      BY <2>2, GlLiterals DEF GlShape, Sound
    <3>3. timeouts = 0 /\ "fellBack" \notin seen => glLive
      BY <3>1 DEF FirstPage, Sound
    <3>4. probes = {"probe"}
      BY <3>1 DEF FirstPage
    <3> QED
      BY <3>1, <3>2, <3>3, <3>4 DEF FirstPage, Sound, glVars
  <2> QED
    BY <2>1, <2>2
<1>10. CASE OpenGuard
  <2>1. /\ phase = "recovered" /\ phase' = "guard" /\ UNCHANGED <<vars, seen, probes, timeouts>>
        /\ g4Ok' = InPlaceRecovery
    BY <1>10 DEF OpenGuard, Proceed
  <2>2. timeouts = 0 /\ "fellBack" \notin seen => InPlaceRecovery
    BY <2>1 DEF FirstPage, InPlaceRecovery
  <2> QED
    BY <2>1, <2>2 DEF FirstPage, Sound, vars, engineVars, pageVars, glVars
<1> QED
  BY <1>2, <1>3, <1>5, <1>6, <1>7, <1>8, <1>9, <1>10


\* Reading the second page leaves the first where it was.
LEMMA SecondFirstPage ==
  ASSUME FirstPage, UNCHANGED <<vars, seen, probes, g4Ok>>, phase \in OnSecond,
         phase' \in OnSecond \cup {"done"}, timeouts' = 0 => timeouts = 0
  PROVE  FirstPage'
<1>1. UNCHANGED <<content, surface, glLive, glEvents, gpuLost, reloadPosted, reloading, gpulost,
                  raster>>
  BY DEF vars, engineVars, glVars, pageVars
<1>2. Sound' <=> Sound
  BY <1>1 DEF Sound
<1>3. /\ phase \in ProbedTwice /\ phase \notin ProbedOnce
      /\ phase' \notin {"boot", "probe", "lose", "probe again"} \cup ProbedOnce
      /\ phase' \in ProbedTwice => phase' \in OnSecond
  BY DEF ProbedTwice, ProbedOnce, OnSecond
<1> QED
  BY <1>1, <1>2, <1>3 DEF FirstPage

\* The test reads a settled verdict, or knows that it was early.
LEMMA SecondPageSteps ==
  ASSUME GuardShape, SecondPage, timeouts \in Nat,
         SecondPageStep \/ GuardVerdictSeen \/ GuardVerdictRead \/ GuardLocated
  PROVE  /\ UNCHANGED <<vars, seen, probes, g4Ok, tested, verdict>>
         /\ phase \in OnSecond /\ phase' \in OnSecond
         /\ timeouts' \in Nat /\ (timeouts' = 0 => timeouts = 0)
         /\ GuardShape' /\ SecondPage'
<1> USE DEF OnSecond, ProbedOnce
<1>1. ASSUME SecondPageStep
      PROVE  /\ UNCHANGED <<vars, seen, probes, g4Ok, tested, verdict>>
             /\ phase \in OnSecond /\ phase' \in OnSecond
             /\ timeouts' \in Nat /\ (timeouts' = 0 => timeouts = 0)
             /\ GuardShape' /\ SecondPage'
  <2>1. /\ phase \in {"guard", "read", "locate"} /\ GuardStep
        /\ UNCHANGED <<vars, seen, probes, g4Ok, tested, phase, p2verdict, landed, early, verdict,
                       timeouts>>
    BY <1>1 DEF SecondPageStep, OnSecondPage
  <2>2. /\ GuardShape' /\ guardDoc # "none"
        /\ guardDoc # "none" => guardDoc' # "none"
        /\ Settled => Settled'
    BY <2>1, GuardStepShape DEF SecondPage
  <2> QED
    BY <2>1, <2>2 DEF SecondPage
<1>2. ASSUME GuardVerdictSeen
      PROVE  /\ UNCHANGED <<vars, seen, probes, g4Ok, tested, verdict>>
             /\ phase \in OnSecond /\ phase' \in OnSecond
             /\ timeouts' \in Nat /\ (timeouts' = 0 => timeouts = 0)
             /\ GuardShape' /\ SecondPage'
  <2>1. /\ phase = "guard" /\ phase' = "read"
        /\ UNCHANGED <<vars, seen, probes, g4Ok, tested, guardVars, p2verdict, landed, verdict>>
        /\ early' = (guardDoc = "gpu" /\ guardMode = "raster")
    BY <1>2 DEF GuardVerdictSeen, Proceed, OnSecondPage
  <2>2. \/ guardVerdict # "pending" /\ timeouts' = timeouts
        \/ timeouts' # 0 /\ timeouts' \in Nat
    BY <1>2, DeadlinePasses DEF GuardVerdictSeen
  <2>3. GuardShape' /\ guardDoc' = guardDoc /\ guardDoc # "none" /\ (Settled' <=> Settled)
    BY <2>1 DEF guardVars, GuardShape, SecondPage, Settled
  <2>4. guardVerdict # "pending" /\ ~early' => Settled
    BY <2>1, <2>3 DEF GuardShape, Settled
  <2> QED
    BY <2>1, <2>2, <2>3, <2>4 DEF SecondPage
<1>3. ASSUME GuardCommits
      PROVE  GuardShape' /\ guardDoc' # "none" /\ ~Settled
  BY <1>3, GuardLoadsShape DEF GuardCommits, GuardShape, Settled
<1>4. ASSUME UNCHANGED guardVars
      PROVE  GuardShape' /\ guardDoc' = guardDoc /\ (Settled' <=> Settled)
  BY <1>4 DEF guardVars, GuardShape, Settled
<1>5. ASSUME GuardVerdictRead
      PROVE  /\ UNCHANGED <<vars, seen, probes, g4Ok, tested, verdict>>
             /\ phase \in OnSecond /\ phase' \in OnSecond
             /\ timeouts' \in Nat /\ (timeouts' = 0 => timeouts = 0)
             /\ GuardShape' /\ SecondPage'
  <2>1. /\ phase = "read" /\ phase' = "locate"
        /\ UNCHANGED <<vars, seen, probes, g4Ok, tested, landed, early, timeouts, verdict>>
        /\ \/ p2verdict' = guardVerdict /\ UNCHANGED guardVars
           \/ GuardCommits
    BY <1>5 DEF GuardVerdictRead, Proceed, OnSecondPage
  <2>2. guardDoc # "none" /\ (timeouts = 0 /\ ~early => Settled)
    BY <2>1 DEF SecondPage
  <2>3. GuardShape' /\ guardDoc' # "none"
    BY <1>3, <1>4, <2>1, <2>2
  <2>4. timeouts = 0 /\ ~early => Settled' /\ p2verdict' = "PASS"
    BY <1>3, <1>4, <2>1, <2>2 DEF Settled
  <2> QED
    BY <2>1, <2>3, <2>4 DEF SecondPage
<1>6. ASSUME GuardLocated
      PROVE  /\ UNCHANGED <<vars, seen, probes, g4Ok, tested, verdict>>
             /\ phase \in OnSecond /\ phase' \in OnSecond
             /\ timeouts' \in Nat /\ (timeouts' = 0 => timeouts = 0)
             /\ GuardShape' /\ SecondPage'
  <2>1. /\ phase = "locate" /\ phase' = "judge"
        /\ UNCHANGED <<vars, seen, probes, g4Ok, tested, p2verdict, early, timeouts, verdict>>
        /\ \/ landed' = (guardDoc = "raster") /\ UNCHANGED guardVars
           \/ landed' = FALSE /\ GuardCommits
    BY <1>6 DEF GuardLocated, Proceed, OnSecondPage
  <2>2. /\ guardDoc # "none"
        /\ timeouts = 0 /\ ~early => Settled /\ p2verdict = "PASS"
    BY <2>1 DEF SecondPage
  <2>3. GuardShape' /\ guardDoc' # "none"
    BY <1>3, <1>4, <2>1, <2>2
  <2>4. timeouts = 0 /\ ~early => Settled' /\ (guardDoc' = "raster" => landed')
    BY <1>3, <1>4, <2>1, <2>2
  <2>5. landed' => guardDoc' = "raster"
    BY <1>4, <2>1
  <2> QED
    BY <2>1, <2>2, <2>3, <2>4, <2>5 DEF SecondPage
<1> QED
  BY <1>1, <1>2, <1>5, <1>6

\* Once the context is back in place nothing is left that could take the page away.
LEMMA SystemKeepsVerdict ==
  ASSUME TypeOK, FirstPage, Verdicts, tested, SystemStep
  PROVE  Verdicts'
<1>1. UNCHANGED <<phase, probes, g4Ok, timeouts, guardVars, p2verdict, landed, early, tested, verdict>>
  BY DEF SystemStep, OnFirstPage, secondVars
<1>2. seen \subseteq seen'
  BY DEF SystemStep
<1>3. ASSUME InPlaceRecovery PROVE seen' \subseteq seen \cup {"lost"}
  <2>1. /\ "fellBack" \notin seen /\ "restored" \in seen
        /\ Sound /\ ~reloadPosted
    BY <1>3 DEF InPlaceRecovery, FirstPage
  <2>2. ~HandleRestored /\ ~GpuLostReload
    BY <2>1 DEF HandleRestored, GpuLostReload, Sound
  <2>3. ~gpuLost
    BY <2>1 DEF Sound
  <2> QED
    BY <2>2, <2>3 DEF SystemStep
<1>4. InPlaceRecovery => InPlaceRecovery'
  BY <1>1, <1>2, <1>3 DEF InPlaceRecovery
<1>5. GuardOk' <=> GuardOk
  BY <1>1 DEF guardVars, GuardOk
<1>6. guardDoc' = guardDoc /\ guardBench' = guardBench
  BY <1>1 DEF guardVars
<1> QED
  BY <1>1, <1>2, <1>4, <1>5, <1>6 DEF Verdicts

\* With no deadline passed and no page given up, everything the test asks for is there.
LEMMA JudgeIsFair ==
  ASSUME GuardShape, FirstPage, SecondPage, Verdicts, timeouts \in Nat, Judge
  PROVE  Verdicts'
<1>1. /\ tested /\ phase = "judge" /\ phase' = "done"
      /\ UNCHANGED <<tested, seen, probes, g4Ok, guardVars, p2verdict, landed, early, timeouts>>
      /\ verdict' = IF InPlaceRecovery /\ g4Ok /\ GuardOk THEN "PASS" ELSE "FAIL"
  BY DEF Judge, secondVars
<1>2. /\ InPlaceRecovery' <=> InPlaceRecovery
      /\ GuardOk' <=> GuardOk
      /\ guardDoc' = guardDoc /\ guardBench' = guardBench
  BY <1>1 DEF InPlaceRecovery, GuardOk, guardVars
<1>3. landed => guardDoc = "raster"
  BY <1>1 DEF SecondPage
<1>4. ASSUME timeouts = 0, "fellBack" \notin seen, guardBench # "none", ~early
      PROVE  InPlaceRecovery /\ g4Ok /\ GuardOk
  <2>1. "judge" \in OnSecond /\ "judge" \in ProbedTwice
    BY DEF OnSecond, ProbedTwice
  <2>2. InPlaceRecovery /\ g4Ok
    BY <1>1, <1>4, <2>1 DEF FirstPage, InPlaceRecovery
  <2>3. Settled /\ p2verdict = "PASS" /\ (guardDoc = "raster" => landed)
    BY <1>1, <1>4 DEF SecondPage
  <2>4. GuardOk
    BY <1>3, <1>4, <2>3 DEF GuardShape, Settled, GuardOk
  <2> QED
    BY <2>2, <2>4
<1>5. timeouts = 0 \/ timeouts > 0
  OBVIOUS
<1> QED
  BY <1>1, <1>2, <1>3, <1>4, <1>5 DEF Verdicts


LEMMA InitGateIInv == GateInit => GateIInv
<1> SUFFICES ASSUME GateInit PROVE GateIInv
  OBVIOUS
<1> USE DEF ProbedOnce, ProbedTwice, OnSecond, GatePhases
<1>1. IInv
  BY InitIInv DEF GateInit
<1>2. /\ tested \in BOOLEAN /\ phase = IF tested THEN "boot" ELSE "done"
      /\ seen = {} /\ probes = {} /\ verdict = "none" /\ timeouts = 0
  BY DEF GateInit
<1>3. GuardShape /\ guardDoc = "none"
  BY EmptySeq DEF GateInit, GuardInit, GuardShape
<1>4. tested => FirstPage
  <2>1. content = 1 /\ Sound /\ ~reloadPosted /\ ~reloading /\ ~gpulost /\ ~raster
    BY DEF GateInit, Init, Sound
  <2>2. glEvents # <<"restored", "lost">>
    BY <2>1, GlLiterals DEF Sound
  <2> SUFFICES ASSUME tested PROVE FirstPage
    OBVIOUS
  <2>3. content # Blank /\ ~gpuLost
    BY <2>1 DEF Sound
  <2>4. phase = "boot" /\ "restored" \notin seen /\ "probe again" \notin probes
    BY <1>2
  <2> HIDE DEF Sound
  <2>5. /\ phase \notin ProbedOnce /\ phase \notin ProbedTwice /\ phase \notin OnSecond
        /\ phase \notin {"probe again"} \cup ProbedTwice
    BY <2>4
  <2> HIDE DEF ProbedOnce, ProbedTwice, OnSecond, GatePhases
  <2> QED
    BY <1>2, <2>1, <2>2, <2>3, <2>4, <2>5 DEF FirstPage
<1>5. SecondPage
  BY <1>2, <1>3 DEF SecondPage
<1>6. Verdicts
  BY <1>2 DEF Verdicts
<1> QED
  BY <1>1, <1>2, <1>3, <1>4, <1>5, <1>6 DEF GateIInv

\* What the test does on the first page keeps the second one closed.
LEMMA TestSteps ==
  ASSUME GuardShape, SecondPage, Verdicts, timeouts \in Nat,
         \/ Booted \/ BootTimesOut \/ Probe("probe", "lose") \/ TestLoses
         \/ RestoredSeen \/ WaitTimesOut \/ Probe("probe again", "recovered") \/ OpenGuard
  PROVE  /\ tested /\ tested' = tested /\ [Next]_vars
         /\ phase' \in GatePhases /\ timeouts' \in Nat
         /\ GuardShape' /\ SecondPage' /\ Verdicts'
<1> USE DEF ProbedOnce, ProbedTwice, OnSecond, GatePhases
<1> DEFINE Early == {"boot", "probe", "recovered"} \cup ProbedOnce
           Goal == /\ tested /\ tested' = tested /\ [Next]_vars
                   /\ phase' \in GatePhases /\ timeouts' \in Nat
                   /\ GuardShape' /\ SecondPage' /\ Verdicts'
<1>1. ASSUME OnFirstPage, phase \in Early, phase' \in Early \cup {"done"}
      PROVE  GuardShape' /\ SecondPage'
  <2>1. UNCHANGED guardVars /\ guardDoc = "none"
    BY <1>1 DEF OnFirstPage, secondVars, SecondPage
  <2>2. guardDoc' = "none"
    BY <2>1 DEF guardVars
  <2>3. GuardShape'
    BY <2>1 DEF guardVars, GuardShape
  <2> QED
    BY <1>1, <2>2, <2>3 DEF SecondPage
<1>2. ASSUME tested, tested' = tested, phase \in Early, phase' \in Early \cup {"guard"},
             verdict' = verdict
      PROVE  Verdicts'
  <2>1. verdict = "none"
    BY <1>2 DEF Verdicts
  <2> QED
    BY <1>2, <2>1 DEF Verdicts
<1>3. ASSUME NEW from \in Early, NEW to \in Early, Proceed(from, to), OnFirstPage, [Next]_vars,
             timeouts' \in Nat
      PROVE  Goal
  <2>1. /\ tested /\ phase \in Early /\ phase' \in Early /\ UNCHANGED <<tested, verdict>>
    BY <1>3 DEF Proceed
  <2>2. GuardShape' /\ SecondPage'
    BY <1>1, <1>3, <2>1
  <2>3. Verdicts'
    BY <1>2, <2>1
  <2>4. phase' \in GatePhases
    BY <2>1
  <2> QED
    BY <1>3, <2>1, <2>2, <2>3, <2>4
<1>4. ASSUME Booted PROVE Goal
  <2>1. Proceed("boot", "probe") /\ OnFirstPage /\ UNCHANGED <<vars, timeouts>>
    BY <1>4 DEF Booted
  <2> QED
    BY <1>3, <2>1
<1>5. ASSUME BootTimesOut PROVE Goal
  <2>1. /\ tested /\ tested' = tested /\ phase = "boot" /\ phase' = "done" /\ verdict' = "FAIL"
        /\ OnFirstPage /\ UNCHANGED vars /\ Deadline
    BY <1>5 DEF BootTimesOut
  <2>2. timeouts' > 0 /\ timeouts' \in Nat
    BY <2>1, DeadlinePasses
  <2>3. Verdicts'
    BY <2>1, <2>2 DEF Verdicts
  <2> QED
    BY <1>1, <2>1, <2>2, <2>3
<1>6. ASSUME NEW from, NEW to, Probe(from, to)
      PROVE  Proceed(from, to) /\ OnFirstPage /\ [Next]_vars /\ timeouts' = timeouts
  BY <1>6 DEF Probe, Next
<1>7. ASSUME TestLoses PROVE Goal
  <2>1. Proceed("lose", "waiting") /\ OnFirstPage /\ [Next]_vars /\ timeouts' = timeouts
    BY <1>7 DEF TestLoses, Next
  <2> QED
    BY <1>3, <2>1
<1>8. ASSUME RestoredSeen \/ WaitTimesOut PROVE Goal
  <2>1. /\ Proceed("waiting", "probe again") /\ OnFirstPage /\ UNCHANGED vars
        /\ timeouts' \in Nat
    BY <1>8, DeadlinePasses DEF RestoredSeen, WaitTimesOut
  <2> QED
    BY <1>3, <2>1
<1>9. ASSUME OpenGuard PROVE Goal
  <2>1. /\ tested /\ phase = "recovered" /\ phase' = "guard" /\ UNCHANGED <<tested, verdict>>
        /\ GuardLoads("gpu") /\ UNCHANGED <<vars, timeouts>>
    BY <1>9 DEF OpenGuard, Proceed
  <2>2. guardDoc = "none"
    BY <2>1 DEF SecondPage
  <2>3. GuardShape' /\ guardDoc' # "none"
    BY <2>1, <2>2, GuardLoadsShape
  <2>4. SecondPage'
    BY <2>1, <2>3 DEF SecondPage
  <2>5. Verdicts'
    BY <1>2, <2>1
  <2> QED
    BY <2>1, <2>3, <2>4, <2>5
<1>10. ASSUME NEW from \in Early, NEW to \in Early, Probe(from, to) PROVE Goal
  BY <1>3, <1>6, <1>10
<1> QED
  BY <1>4, <1>5, <1>7, <1>8, <1>9, <1>10

LEMMA StepGateIInv == GateIInv /\ [GateNext]_<<vars, testVars>> => GateIInv'
<1> SUFFICES ASSUME GateIInv, [GateNext]_<<vars, testVars>> PROVE GateIInv'
  OBVIOUS
<1> DEFINE Goal == /\ [Next]_vars /\ tested' \in BOOLEAN /\ phase' \in GatePhases /\ timeouts' \in Nat
                   /\ GuardShape' /\ (tested' => FirstPage') /\ SecondPage' /\ Verdicts'
<1>1. /\ IInv /\ tested \in BOOLEAN /\ phase \in GatePhases /\ timeouts \in Nat
      /\ GuardShape /\ (tested => FirstPage) /\ SecondPage /\ Verdicts
  BY DEF GateIInv
<1>2. TypeOK /\ GlShape
  BY <1>1 DEF IInv
<1>3. ASSUME UNCHANGED <<secondVars, phase, timeouts>>
      PROVE  GuardShape' /\ SecondPage'
  <2>1. UNCHANGED <<guardVars, p2verdict, landed, early, phase, timeouts>>
    BY <1>3 DEF secondVars
  <2>2. GuardShape'
    BY <1>1, <2>1 DEF guardVars, GuardShape
  <2>3. guardDoc' = guardDoc /\ (Settled' <=> Settled)
    BY <2>1 DEF guardVars, Settled
  <2> QED
    BY <1>1, <2>1, <2>2, <2>3 DEF SecondPage
<1>4. ASSUME ~tested, Next \/ UNCHANGED vars, UNCHANGED testVars PROVE Goal
  <2>1. UNCHANGED <<tested, phase, verdict, timeouts, secondVars>>
    BY <1>4 DEF testVars
  <2>2. Verdicts'
    BY <1>1, <1>4, <2>1 DEF Verdicts
  <2> QED
    BY <1>1, <1>3, <1>4, <2>1, <2>2
<1>5. ASSUME tested, SystemStep PROVE Goal
  <2>1. UNCHANGED <<tested, phase, secondVars, timeouts>>
    BY <1>5 DEF SystemStep, OnFirstPage
  <2>2. FirstPage'
    BY <1>1, <1>2, <1>5, SystemFirstPage
  <2>3. Verdicts'
    BY <1>1, <1>2, <1>5, SystemKeepsVerdict
  <2>4. Next
    BY <1>5 DEF SystemStep, Next
  <2> QED
    BY <1>1, <1>3, <1>5, <2>1, <2>2, <2>3, <2>4
<1>6. ASSUME \/ Booted \/ BootTimesOut \/ Probe("probe", "lose") \/ TestLoses
             \/ RestoredSeen \/ WaitTimesOut \/ Probe("probe again", "recovered") \/ OpenGuard
      PROVE  Goal
  <2>1. /\ tested /\ tested' = tested /\ [Next]_vars
        /\ phase' \in GatePhases /\ timeouts' \in Nat
        /\ GuardShape' /\ SecondPage' /\ Verdicts'
    BY <1>1, <1>6, TestSteps
  <2>2. FirstPage'
    BY <1>1, <1>2, <1>6, <2>1, TestFirstPage
  <2> QED
    BY <1>1, <2>1, <2>2
<1>7. ASSUME SecondPageStep \/ GuardVerdictSeen \/ GuardVerdictRead \/ GuardLocated PROVE Goal
  <2>1. /\ UNCHANGED <<vars, seen, probes, g4Ok, tested, verdict>>
        /\ phase \in OnSecond /\ phase' \in OnSecond
        /\ timeouts' \in Nat /\ (timeouts' = 0 => timeouts = 0)
        /\ GuardShape' /\ SecondPage'
    BY <1>1, <1>7, SecondPageSteps
  <2>2. phase \in OnSecond /\ phase' \in OnSecond => /\ phase # "done" /\ phase' # "done"
                                                     /\ phase' \in GatePhases
    BY DEF OnSecond, GatePhases, ProbedTwice
  <2>3. tested /\ verdict = "none"
    BY <1>1, <2>1, <2>2 DEF Verdicts
  <2>4. FirstPage'
    BY <1>1, <2>1, <2>3, SecondFirstPage
  <2>5. Verdicts'
    BY <2>1, <2>2, <2>3 DEF Verdicts
  <2> QED
    BY <1>1, <2>1, <2>2, <2>3, <2>4, <2>5
<1>8. ASSUME Judge PROVE Goal
  <2>1. /\ tested /\ phase = "judge" /\ phase' = "done"
        /\ UNCHANGED <<vars, tested, seen, probes, g4Ok, secondVars, timeouts>>
    BY <1>8 DEF Judge
  <2>2. Verdicts'
    BY <1>1, <1>8, <2>1, JudgeIsFair
  <2>3. phase \in OnSecond
    BY <2>1 DEF OnSecond
  <2>4. FirstPage'
    BY <1>1, <2>1, <2>3, SecondFirstPage
  <2>5. GuardShape'
    BY <1>1, <2>1 DEF secondVars, guardVars, GuardShape
  <2>6. SecondPage' /\ phase' \in GatePhases
    BY <2>1 DEF SecondPage, OnSecond, ProbedOnce, GatePhases
  <2> QED
    BY <1>1, <2>1, <2>2, <2>4, <2>5, <2>6
<1>9. ASSUME UNCHANGED <<vars, testVars>> PROVE Goal
  <2>1. UNCHANGED <<tested, phase, seen, probes, g4Ok, secondVars, verdict, timeouts>>
    BY <1>9 DEF testVars
  <2>2. GuardShape' /\ SecondPage'
    BY <1>3, <2>1
  <2>3. tested => FirstPage'
    <3>1. Sound' <=> Sound
      BY <1>9 DEF vars, glVars, Sound
    <3> QED
      BY <1>1, <1>9, <2>1, <3>1 DEF FirstPage, vars, engineVars, glVars, pageVars
  <2>4. Verdicts'
    BY <1>1, <2>1 DEF Verdicts, InPlaceRecovery, GuardOk, secondVars, guardVars
  <2> QED
    BY <1>1, <1>9, <2>1, <2>2, <2>3, <2>4
<1>10. Goal
  BY <1>4, <1>5, <1>6, <1>7, <1>8, <1>9 DEF GateNext
<1>11. IInv'
  BY <1>1, <1>10, StepIInv
<1> QED
  BY <1>10, <1>11 DEF GateIInv

\* Gate 8 cannot pass on a page that was reloaded or left without its picture, nor fail one
\* that recovered in place, whatever the order of the context's events, the present
\* channel's messages, the second page's boot and its reload.
THEOREM Gate8IsHonest == GateSpec => []Gate8TellsTheTruth
<1>1. GateIInv => Gate8TellsTheTruth
  <2> SUFFICES ASSUME GateIInv PROVE Gate8TellsTheTruth
    OBVIOUS
  <2>1. GuardShape /\ Verdicts /\ (tested => FirstPage)
    BY DEF GateIInv
  <2>2. ASSUME verdict = "PASS"
        PROVE  /\ ~gpulost /\ ~raster /\ ~gpuLost /\ surface # Blank
               /\ guardDoc = IF guardBench = "slow" THEN "raster" ELSE "gpu"
               /\ guardEngine = "running" => guardDoc = guardMode
    <3>1. tested /\ InPlaceRecovery /\ GuardOk /\ (landed => guardDoc = "raster")
      BY <2>1, <2>2 DEF Verdicts
    <3>2. ~gpulost /\ ~raster /\ ~gpuLost /\ surface # Blank
      BY <2>1, <3>1 DEF FirstPage, InPlaceRecovery, Sound
    <3>3. CASE guardBench = "slow"
      <4>1. guardDoc = "raster"
        BY <3>1, <3>3 DEF GuardOk
      <4> QED
        BY <2>1, <3>2, <3>3, <4>1 DEF GuardShape
    <3>4. CASE guardBench = "fast"
      BY <2>1, <3>2, <3>4 DEF GuardShape
    <3> QED
      BY <3>1, <3>3, <3>4 DEF GuardOk
  <2> QED
    BY <2>1, <2>2 DEF Gate8TellsTheTruth, Verdicts
<1>2. GateSpec => []GateIInv
  BY InitGateIInv, StepGateIInv, PTL DEF GateSpec
<1> QED
  BY <1>1, <1>2, PTL

\* The present path keeps its accounts under the test as well.
THEOREM Gate8KeepsAccounts == GateSpec => [](CreditsConserved /\ LatestFrameAccounted)
<1>1. GateIInv => CreditsConserved /\ LatestFrameAccounted
  BY DEF GateIInv, IInv, Handshake, CreditsConserved
<1>2. GateSpec => []GateIInv
  BY InitGateIInv, StepGateIInv, PTL DEF GateSpec
<1> QED
  BY <1>1, <1>2, PTL
=============================================================================
