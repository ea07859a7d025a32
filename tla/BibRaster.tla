------------------------------ MODULE BibRaster ------------------------------
(***************************************************************************)
(* Raster mode: partial repaints into the SkSurface, their copy in         *)
(* g_blitPixels, the scroll blit that shifts both, and the boxes pushed to *)
(* the page's canvas.                                                      *)
(*                                                                         *)
(* What is drawn is abstracted to staleness: for each copy of the frame,   *)
(* the pixels at which it may differ from what layout would paint now.     *)
(* Painting a pixel or copying it from a fresh one makes it fresh, a guest *)
(* change makes it stale everywhere.                                       *)
(***************************************************************************)
EXTENDS DamageList

CONSTANTS
  kWidth, kHeight,  \* the frame
  MaxDelta,         \* bound: pixels one scroll moves
  MaxChanges,       \* bound: guest changes and scrolls
  MaxFaults,        \* bound: failed paints, readbacks, writes and mallocs
  MaxInTransit      \* bound: boxes the page has not blitted yet

ASSUME FrameAssumption == kWidth \in Nat \ {0} /\ kHeight \in Nat \ {0}
ASSUME BoundAssumption ==
  /\ MaxDelta \in Nat /\ MaxChanges \in Nat /\ MaxFaults \in Nat
  /\ MaxInTransit \in Nat \ {0}

VARIABLES
  damage,            \* g_damageRects; g_frameDirty is damage # <<>>
  upload,            \* g_uploadRect
  firstFramePushed,
  render,            \* the bib_render call under way, or NoRender
  surfaceStale,      \* stale pixels of g_engine->surface
  blitStale,         \* of g_blitPixels
  screenStale,       \* of #screen
  transit,           \* boxes on their way to Module.bibBlit
  \* bookkeeping of the model
  lost,              \* pixels painted but never pushed: probe or failed malloc
  changes, faults

copies == <<surfaceStale, blitStale, screenStale, transit>>
vars == <<damage, upload, firstFramePushed, render, copies, lost, changes, faults>>

Pixel == (0..kWidth - 1) \X (0..kHeight - 1)
\* The pixels of the frame under a rectangle.
Pixels(r) == {p \in Pixel : /\ r.left <= p[1] /\ p[1] < r.right
                             /\ r.top <= p[2] /\ p[2] < r.bottom}
PixelsOf(list) == UNION {Pixels(list[i]) : i \in DOMAIN list}

Frame == RectOf(0, 0, kWidth, kHeight)
\* { 0, 0, 1 << 20, 1 << 20 }: larger than the frame is all that matters.
Everything == RectOf(0, 0, kWidth + 1, kHeight + 1)

\* todo: rectangles still to paint; painted: their bounds so far; region: the
\* upload region this frame took over; probe: called by bib_render_readback.
NoRender == [todo |-> <<>>, painted |-> NoRect, region |-> NoRect,
             probe |-> FALSE, active |-> FALSE]

TypeOK ==
  /\ damage \in Seq(Rect) /\ Len(damage) <= MaxRects
  /\ \A i \in DOMAIN damage : ~IsEmpty(damage[i])
  /\ upload \in Rect
  /\ firstFramePushed \in BOOLEAN
  /\ render \in [todo : Seq(Rect), painted : Rect, region : Rect,
                 probe : BOOLEAN, active : BOOLEAN]
  /\ surfaceStale \in SUBSET Pixel /\ blitStale \in SUBSET Pixel
  /\ screenStale \in SUBSET Pixel
  /\ transit \in Seq([box : Rect, stale : SUBSET Pixel])
  /\ lost \in SUBSET Pixel
  /\ changes \in 0..MaxChanges /\ faults \in 0..MaxFaults

Init ==
  /\ damage = <<Everything>> /\ upload = NoRect
  /\ firstFramePushed = FALSE /\ render = NoRender
  /\ surfaceStale = Pixel /\ blitStale = Pixel /\ screenStale = Pixel
  /\ transit = <<>>
  /\ lost = {} /\ changes = 0 /\ faults = 0

Change == changes < MaxChanges /\ changes' = changes + 1
Fault == faults < MaxFaults /\ faults' = faults + 1

\* The guest's picture changes at ps: #screen and the boxes in transit are old.
PushedCopiesChange(ps) ==
  /\ screenStale' = screenStale \cup ps
  /\ transit' = [i \in DOMAIN transit |->
                   [transit[i] EXCEPT !.stale = @ \cup (ps \cap Pixels(transit[i].box))]]

PictureChanges(ps) ==
  /\ surfaceStale' = surfaceStale \cup ps
  /\ blitStale' = blitStale \cup ps
  /\ PushedCopiesChange(ps)

-----------------------------------------------------------------------------
(* Damage reported by WebCore: between frames, in layout, or from a paint *)

\* invalidateContentsAndRootView, invalidateContentsForSlowScroll.
Invalidate(r) ==
  /\ Change
  /\ PictureChanges(Pixels(r))
  /\ damage' = AddDamage(damage, r)
  /\ UNCHANGED <<upload, firstFramePushed, render, lost, faults>>

\* A stale set after the pixels of from have been moved by (dx, dy) into dst.
Shifted(stale, scrollRect, dst, dx, dy) ==
  (stale \ Pixels(scrollRect))
  \cup {p \in Pixels(dst) : <<p[1] - dx, p[2] - dy>> \in stale}
  \cup (Pixels(scrollRect) \ Pixels(dst))

ScrollRect(r) == Intersection(r, Frame)
\* Where the pixels that stay in view land.
ScrollDst(r, dx, dy) == Intersection(Moved(ScrollRect(r), dx, dy), ScrollRect(r))

\* ScrollView pushes the whole view through invalidateRootView before it calls
\* ChromeClient::scroll.
InvalidateRootView(r) == Unite(upload, r)

\* No shift: all that scrolled is queued for painting.
ScrollByDamage(r, repainted) ==
  /\ damage' = AddDamage(damage, repainted)
  /\ upload' = InvalidateRootView(r)
  /\ PictureChanges(Pixels(ScrollRect(r)))
  /\ UNCHANGED <<firstFramePushed, render, lost, faults>>

\* Reported from within a paint (g_inPaint), or for a view out of the frame.
ScrollUnsafe(r) ==
  /\ Change
  /\ render.active \/ IsEmpty(ScrollRect(r))
  /\ ScrollByDamage(r, r)

NothingReusable(r, dx, dy) ==
  \/ IsEmpty(ScrollDst(r, dx, dy))
  \/ \E i \in DOMAIN damage : Covers(damage[i], ScrollRect(r))

ScrollRepaints(r, dx, dy) ==
  /\ Change
  /\ ~render.active /\ ~IsEmpty(ScrollRect(r))
  /\ NothingReusable(r, dx, dy)
  /\ ScrollByDamage(r, ScrollRect(r))

\* bibScrollBlit: pending damage rides along, g_blitPixels is shifted and
\* mirrored onto the surface, and the strips that come into view are queued.
ScrollBlit(r, dx, dy) ==
  LET scrollRect == ScrollRect(r)
      dst == ScrollDst(r, dx, dy)
      pending == TranslatedDamage(damage, scrollRect, dst, dx, dy)
      exposed == Pixels(scrollRect) \ Pixels(dst)
  IN
  /\ Change
  /\ ~render.active /\ ~IsEmpty(scrollRect)
  /\ ~NothingReusable(r, dx, dy)
  /\ PushedCopiesChange(Pixels(scrollRect))
  /\ blitStale' = Shifted(blitStale, scrollRect, dst, dx, dy)
  /\ \/ /\ surfaceStale' = (surfaceStale \ Pixels(dst)) \cup exposed
                           \cup (Pixels(dst) \cap blitStale')
        /\ upload' = Unite(InvalidateRootView(r), scrollRect)
        /\ damage' = AddAll(pending, ExposedStrips(scrollRect, dx, dy))
        /\ UNCHANGED faults
     \/ \* writePixels fails: the copies have diverged
        /\ Fault
        /\ surfaceStale' = surfaceStale \cup Pixels(scrollRect)
        /\ upload' = InvalidateRootView(r)
        /\ damage' = AddDamage(pending, Frame)
  /\ UNCHANGED <<firstFramePushed, render, lost>>

-----------------------------------------------------------------------------
(* bib_render *)

Clamped(r) ==
  IF IsEmpty(Intersection(r, Frame)) THEN <<>> ELSE <<Intersection(r, Frame)>>
ClampedDamage == FlattenSeq([i \in DOMAIN damage |-> Clamped(damage[i])])

\* The snapshot of a frame, and clearDamage before anything is painted.  A
\* frame whose damage is all outside the viewport ends here.
BeginRender(probe) ==
  LET force == probe \/ ~firstFramePushed
      todo == IF force THEN <<Frame>> ELSE ClampedDamage
      region == IF force THEN NoRect ELSE Intersection(upload, Frame)
  IN
  /\ ~render.active
  /\ force \/ damage # <<>> \/ ~IsEmpty(upload)
  /\ damage' = <<>>
  /\ upload' = NoRect
  /\ render' = IF todo = <<>> /\ IsEmpty(region) THEN NoRender
               ELSE [todo |-> todo, painted |-> NoRect, region |-> region,
                     probe |-> probe, active |-> TRUE]
  /\ UNCHANGED <<firstFramePushed, copies, lost, changes, faults>>

\* bib_tick's frame push, and the page's probe.
BeginPush == BeginRender(FALSE)
BeginProbe == BeginRender(TRUE)

\* One rectangle: view->paint into the surface, readPixels into g_blitPixels.
PaintRect ==
  /\ render.todo # <<>>
  /\ surfaceStale' = surfaceStale \ Pixels(Head(render.todo))
  /\ blitStale' = blitStale \ Pixels(Head(render.todo))
  /\ render' = [render EXCEPT !.todo = Tail(@),
                              !.painted = Unite(@, Head(render.todo))]
  /\ UNCHANGED <<damage, upload, firstFramePushed, screenStale, transit, lost,
                 changes, faults>>

\* What the page must still be sent after a failed frame: its upload region and
\* the rectangles painted before the failure.
UploadAfterFailure == Unite(Unite(upload, render.region), render.painted)

\* No view, or a failed readback of a rectangle that has been painted: queue it
\* and all that follow again.
PaintFails ==
  /\ render.todo # <<>>
  /\ Fault
  /\ \/ UNCHANGED surfaceStale
     \/ surfaceStale' = surfaceStale \ Pixels(Head(render.todo))
  /\ damage' = AddAll(damage, render.todo)
  /\ upload' = UploadAfterFailure
  /\ render' = NoRender
  /\ UNCHANGED <<firstFramePushed, blitStale, screenStale, transit, lost, changes>>

\* g_dirtyBox.
DirtyBox == Unite(render.painted, render.region)

Rendered == render.active /\ render.todo = <<>>

\* bibPushFrameIfDirty: the box is copied out and posted to the page.
Push ==
  /\ Rendered /\ ~render.probe
  /\ Len(transit) < MaxInTransit
  /\ transit' = Append(transit, [box |-> DirtyBox,
                                 stale |-> blitStale \cap Pixels(DirtyBox)])
  /\ lost' = lost \ Pixels(DirtyBox)
  /\ firstFramePushed' = TRUE
  /\ render' = NoRender
  /\ UNCHANGED <<damage, upload, surfaceStale, blitStale, screenStale, changes, faults>>

\* The same with malloc returning null.
PushNoMemory ==
  /\ Rendered /\ ~render.probe
  /\ Fault
  /\ lost' = lost \cup Pixels(DirtyBox)
  /\ firstFramePushed' = TRUE
  /\ render' = NoRender
  /\ UNCHANGED <<damage, upload, copies, changes>>

\* bibRunReadback: a full frame for the probe, none of it for #screen.
Probe ==
  /\ Rendered /\ render.probe
  /\ lost' = lost \cup Pixel
  /\ render' = NoRender
  /\ UNCHANGED <<damage, upload, firstFramePushed, copies, changes, faults>>

\* bibBlit on the page: putImageData.
Blit ==
  /\ transit # <<>>
  /\ screenStale' = (screenStale \ Pixels(Head(transit).box)) \cup Head(transit).stale
  /\ transit' = Tail(transit)
  /\ UNCHANGED <<damage, upload, firstFramePushed, render, surfaceStale, blitStale,
                 lost, changes, faults>>

-----------------------------------------------------------------------------
\* What WebCore may report: any rectangle of the frame, one across its right edge
\* and one beyond it.
Reported ==
  {r \in [left : 0..kWidth - 1, top : 0..kHeight - 1,
          right : 1..kWidth, bottom : 1..kHeight] : ~IsEmpty(r)}
  \cup {RectOf(l, 0, kWidth + 1, kHeight) : l \in {kWidth - 1, kWidth}}
\* The views that scroll: the frame's, and one set into it.
Views == {Frame, RectOf(0, 0, kWidth - 1, kHeight)}
Deltas == ((-MaxDelta..MaxDelta) \X (-MaxDelta..MaxDelta)) \ {<<0, 0>>}

Next ==
  \/ \E r \in Reported : Invalidate(r)
  \/ \E v \in Views : ScrollUnsafe(v)
  \/ \E v \in Views, d \in Deltas : \/ ScrollRepaints(v, d[1], d[2])
                                   \/ ScrollBlit(v, d[1], d[2])
  \/ BeginPush \/ BeginProbe \/ PaintRect \/ PaintFails
  \/ Push \/ PushNoMemory \/ Probe
  \/ Blit

Spec == Init /\ [][Next]_vars

-----------------------------------------------------------------------------
(* Properties *)

\* "They must stay identical or later partial paints composite over a stale
\* base": a pixel that either mirror has wrong is queued, or about to be
\* painted, whatever the merges, scrolls over pending damage, paint-time
\* callbacks and failed frames in between.
BackingStoreTracked ==
  surfaceStale \cup blitStale \subseteq PixelsOf(damage) \cup PixelsOf(render.todo)

\* The pixels #screen will have wrong once every box in transit is blitted: the last
\* box over a pixel decides.
ScreenAfterTransit ==
  {p \in Pixel :
     LET over == {i \in DOMAIN transit : p \in Pixels(transit[i].box)}
     IN IF over = {} THEN p \in screenStale ELSE p \in transit[Max(over)].stale}

\* What #screen lacks is queued to be painted or uploaded, or part of the frame
\* under way; lost names the pixels a probe or a failed malloc has taken out of
\* the pipeline.
ScreenTracked ==
  ScreenAfterTransit \subseteq
    UNION {PixelsOf(damage), Pixels(upload), PixelsOf(render.todo),
           Pixels(render.painted), Pixels(render.region), lost}

\* No mirror of the frame has a wrong pixel that nothing will repaint.
MirrorsTracked == BackingStoreTracked /\ ScreenTracked
=============================================================================
