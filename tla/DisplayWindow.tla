--------------------------- MODULE DisplayWindow ---------------------------
(***************************************************************************)
(* Where the pixels of a frame land: main sends the spans of a frame one   *)
(* by one, each as the pixels of its box.  The display controller fills    *)
(* its write window with them, from left to right and downwards, and main  *)
(* moves that window only as far as it must: it remembers in spiX, spiY    *)
(* and spiEndX what it has sent, also from one frame to the next.          *)
(*                                                                         *)
(* Of the picture only the set of positions matters where the panel does   *)
(* not show what framebuffer[1] holds.  A position is <<column, row>>, of  *)
(* the frame for spans, of the panel for the controller.                   *)
(***************************************************************************)
EXTENDS Integers, Sequences

CONSTANTS
  PanelWidth, PanelHeight,   \* DISPLAY_WIDTH, DISPLAY_HEIGHT
  Setups,                    \* the builds, and the GPU's display
  MaxSpans                   \* bound: spans in a frame

Axes == 1..2      \* width and height, column and row
Panel == <<PanelWidth, PanelHeight>>

\* align: ALIGN_TASKS_FOR_DMA_TRANSFERS.  fullWindow: MUST_SEND_FULL_CURSOR_WINDOW.
\* resets: not DISPLAY_WRITE_PIXELS_CMD_DOES_NOT_RESET_WRITE_CURSOR.
\* crop: DISPLAY_CROPPED_INSTEAD_OF_SCALING.  stretch: DISPLAY_BREAK_ASPECT_RATIO_WHEN_SCALING.
\* before, behind: DISPLAY_COVERED_LEFT_SIDE, _TOP_ and _RIGHT_, _BOTTOM_.
\* source: the size of the GPU's display.
Setup == [align : BOOLEAN, fullWindow : BOOLEAN, resets : BOOLEAN, crop : BOOLEAN,
          stretch : BOOLEAN, before : [Axes -> Nat], behind : [Axes -> Nat],
          source : [Axes -> Nat \ {0}]]

Least(a, b) == IF a <= b THEN a ELSE b

\* InitGPU, for axis i of setup s: the part of the GPU's display that is shown,
Drawable(s, i) == Panel[i] - s.before[i] - s.behind[i]
Relevant(s, i) == IF s.crop THEN Least(Drawable(s, i), s.source[i]) ELSE s.source[i]

\* n / d, ROUND_TO_NEAREST_INT.
Rounded(n, d) == (2 * n + d) \div (2 * d)

\* what it is scaled to, by the smaller of the two factors unless the aspect ratio may break,
Scaled(s, i) ==
  LET tighter == IF Drawable(s, 1) * Relevant(s, 2) <= Drawable(s, 2) * Relevant(s, 1) THEN 1 ELSE 2
      k       == IF s.stretch THEN i ELSE tighter
  IN  Rounded(Relevant(s, i) * Drawable(s, k), Relevant(s, k))

\* and where it begins on the panel.
Offset(s, i) == s.before[i] + (Drawable(s, i) - Scaled(s, i)) \div 2

FrameOf(s) == [width |-> Scaled(s, 1), height |-> Scaled(s, 2),
               xOffset |-> Offset(s, 1), yOffset |-> Offset(s, 2)]

\* A controller that keeps its cursor is driven with full windows; the covers leave something
\* of the panel.
ASSUME WindowAssumption ==
  /\ PanelWidth \in Nat \ {0} /\ PanelHeight \in Nat \ {0} /\ MaxSpans \in Nat
  /\ \A s \in Setups :
       /\ s \in Setup
       /\ \A i \in Axes : s.before[i] + s.behind[i] < Panel[i]
       /\ ~s.resets => s.fullWindow

VARIABLES
  setup,
  frame,                \* gpuFrameWidth, displayXOffset and so on, as InitGPU finds them
  pc,
  spans,                \* those still to be sent, the current one first
  spiX, spiY, spiEndX,  \* main's idea of the window
  pixel,                \* pixels of the current span that were sent
  window,               \* the controller: columns sc..ec, rows sp..ep
  cursor,               \* and the position it writes next
  differs               \* where the panel does not show framebuffer[1]

cache == <<spiX, spiY, spiEndX>>
controller == <<window, cursor>>
config == <<setup, frame>>
vars == <<config, pc, spans, cache, pixel, controller, differs>>

\* What a diff can return, in every build: ALIGN does not go with rectangles alone, but with
\* the exact diff of each scanline and the merging too.  (But for a rectangle whose last
\* scanline is aligned past its box: that is a finding of SpanDiff.)
Spans ==
  {s \in [x : 0..frame.width - 1, endX : 1..frame.width, y : 0..frame.height - 1,
          endY : 1..frame.height, lastScanEndX : 1..frame.width] :
     /\ s.x < s.lastScanEndX /\ s.lastScanEndX <= s.endX /\ s.y < s.endY
     /\ s.endY = s.y + 1 => s.lastScanEndX = s.endX}

Size(s) == (s.endX - s.x) * (s.endY - s.y - 1) + s.lastScanEndX - s.x
Multiline(s) == s.endY > s.y + 1
PixelAt(s, n) == <<s.x + (n % (s.endX - s.x)), s.y + (n \div (s.endX - s.x))>>
OnPanel(p) == <<p[1] + frame.xOffset, p[2] + frame.yOffset>>
Beside(p) == p[1] >= frame.width

span == Head(spans)

\* ClearScreen has left the window on the whole panel; framebuffer[1] is black too.
Init ==
  /\ setup \in Setups /\ frame = FrameOf(setup)
  /\ pc = "idle" /\ spans = <<>>
  /\ spiX = -1 /\ spiY = -1 /\ spiEndX = PanelWidth
  /\ pixel = 0
  /\ window = [sc |-> 0, ec |-> PanelWidth - 1, sp |-> 0, ep |-> PanelHeight - 1]
  /\ cursor = <<0, 0>>
  /\ differs = {}

-----------------------------------------------------------------------------
(* The controller *)

\* DISPLAY_SET_CURSOR_X and _Y: start and end, or the start alone.
SetColumns(sc, ec) ==
  /\ window' = [window EXCEPT !.sc = sc, !.ec = ec]
  /\ cursor' = <<sc, cursor[2]>>

SetRows(sp, ep) ==
  /\ window' = [window EXCEPT !.sp = sp, !.ep = ep]
  /\ cursor' = <<cursor[1], sp>>

\* The cursor after a pixel.
Advance(c) ==
  IF c[1] < window.ec THEN <<c[1] + 1, c[2]>>
  ELSE IF c[2] < window.ep THEN <<window.sc, c[2] + 1>>
  ELSE <<window.sc, window.sp>>

-----------------------------------------------------------------------------
(* "Submit spans" *)

\* In the order of their first scanline.
BeginFrame ==
  /\ pc = "idle"
  /\ \E n \in 1..MaxSpans : \E list \in [1..n -> Spans] :
       /\ \A k \in 1..n - 1 : list[k].y <= list[k + 1].y
       /\ spans' = list
  /\ pc' = "widen"
  /\ UNCHANGED <<config, cache, pixel, controller, differs>>

\* "one pixel spans are forbidden": the room beside them is sought on the panel, also where the
\* frame is narrower.
WidenSpan ==
  /\ pc = "widen"
  /\ spans' = IF ~setup.align \/ Size(span) # 1 THEN spans
              ELSE IF span.endX < Drawable(setup, 1)
                THEN <<[span EXCEPT !.endX = span.endX + 1,
                                    !.lastScanEndX = span.lastScanEndX + 1]>> \o Tail(spans)
                ELSE <<[span EXCEPT !.x = span.x - 1]>> \o Tail(spans)
  /\ pc' = "row"
  /\ UNCHANGED <<config, cache, pixel, controller, differs>>

MoveToRow ==
  /\ pc = "row"
  /\ IF ~setup.resets \/ spiY # span.y
       THEN /\ SetRows(frame.yOffset + span.y,
                       IF setup.fullWindow \/ setup.align THEN frame.yOffset + frame.height - 1
                                                          ELSE window.ep)
            /\ spiY' = span.y
       ELSE UNCHANGED <<controller, spiY>>
  /\ pc' = "columns"
  /\ UNCHANGED <<config, spans, spiX, spiEndX, pixel, differs>>

\* As it would be if the controller's end were exclusive too.
SendColumnsExclusive(x, endX) ==
  /\ SetColumns(frame.xOffset + x, frame.xOffset + endX)
  /\ spiX' = x /\ spiEndX' = endX

SendColumns(x, endX) ==
  /\ SetColumns(frame.xOffset + x, frame.xOffset + endX - 1)
  /\ spiX' = x /\ spiEndX' = endX

\* As it would be if only the left end decided.
NeedsLeftEnd == Multiline(span) /\ spiX # span.x

NeedsExactWindow == Multiline(span) /\ (spiX # span.x \/ spiEndX # span.endX)

\* "peek ahead to cater to the next multiline span update if that will be compatible"
NextEndX ==
  LET next == {k \in 2..Len(spans) :     \* one at most
                 Multiline(spans[k]) /\ \A m \in 2..k - 1 : ~Multiline(spans[m])}
  IN  IF \E k \in next : spans[k].endX >= span.endX
        THEN spans[CHOOSE k \in next : TRUE].endX ELSE frame.width

SetColumnsOfMultiline ==
  /\ pc = "columns" /\ NeedsExactWindow
  /\ SendColumns(span.x, span.endX)
  /\ pc' = "start"
  /\ UNCHANGED <<config, spans, spiY, pixel, differs>>

SetColumnsAligned ==
  /\ pc = "columns" /\ ~NeedsExactWindow /\ setup.align
  /\ IF spiX # span.x \/ spiEndX < span.endX
       THEN SendColumns(span.x, frame.width)
       ELSE UNCHANGED <<controller, spiX, spiEndX>>
  /\ pc' = "start"
  /\ UNCHANGED <<config, spans, spiY, pixel, differs>>

\* As it would be if the end of the window were not remembered.
WidenWindowOnce ==
  /\ pc = "columns" /\ ~NeedsExactWindow /\ ~setup.align /\ spiEndX < span.endX
  /\ SetColumns(frame.xOffset + span.x, frame.xOffset + NextEndX - 1)
  /\ spiX' = span.x
  /\ pc' = "start"
  /\ UNCHANGED <<config, spans, spiY, spiEndX, pixel, differs>>

\* "Need to push the X end window?"
WidenWindow ==
  /\ pc = "columns" /\ ~NeedsExactWindow /\ ~setup.align /\ spiEndX < span.endX
  /\ SendColumns(span.x, NextEndX)
  /\ pc' = "start"
  /\ UNCHANGED <<config, spans, spiY, pixel, differs>>

\* The start alone, or both with the end as it was.
MoveToColumn ==
  /\ pc = "columns" /\ ~NeedsExactWindow /\ ~setup.align /\ spiEndX >= span.endX
  /\ IF ~setup.resets \/ spiX # span.x
       THEN /\ SetColumns(frame.xOffset + span.x,
                          IF setup.fullWindow THEN frame.xOffset + spiEndX - 1 ELSE window.ec)
            /\ spiX' = span.x
       ELSE UNCHANGED <<controller, spiX>>
  /\ pc' = "start"
  /\ UNCHANGED <<config, spans, spiY, spiEndX, pixel, differs>>

\* DISPLAY_WRITE_PIXELS; filling the task has copied the pixels to framebuffer[1].  What a
\* widened span has copied from beside the frame is the padding of the row, or if there is none
\* the first pixel of the next: it belongs nowhere.
StartPixels ==
  /\ pc = "start"
  /\ cursor' = IF setup.resets THEN <<window.sc, window.sp>> ELSE cursor
  /\ LET sent == {PixelAt(span, n) : n \in 0..Size(span) - 1}
     IN  differs' = differs \cup {OnPanel(p) : p \in {q \in sent : ~Beside(q)}}
  /\ pixel' = 0
  /\ pc' = "pixels"
  /\ UNCHANGED <<config, spans, cache, window>>

WritePixel ==
  /\ pc = "pixels" /\ pixel < Size(span)
  /\ LET p == PixelAt(span, pixel)
     IN  differs' = IF ~Beside(p) /\ cursor = OnPanel(p) THEN differs \ {cursor}
                                                         ELSE differs \cup {cursor}
  /\ cursor' = Advance(cursor)
  /\ pixel' = pixel + 1
  /\ UNCHANGED <<config, pc, spans, cache, window>>

EndSpan ==
  /\ pc = "pixels" /\ pixel = Size(span)
  /\ spans' = Tail(spans)
  /\ pc' = IF Tail(spans) = <<>> THEN "idle" ELSE "widen"
  /\ UNCHANGED <<config, cache, pixel, controller, differs>>

Next ==
  \/ BeginFrame \/ WidenSpan \/ MoveToRow
  \/ SetColumnsOfMultiline \/ SetColumnsAligned \/ WidenWindow \/ MoveToColumn
  \/ StartPixels \/ WritePixel \/ EndSpan

Spec == Init /\ [][Next]_vars

-----------------------------------------------------------------------------
(* Properties *)

\* The first window of a full-window build, if a bar or a cover moves the frame to the right:
\* main adds the offset to the end that ClearScreen has left, and that is the panel's.
ClearedEnd ==
  /\ setup.fullWindow /\ ~setup.align /\ frame.xOffset > 0 /\ spiEndX = PanelWidth
  /\ window.ec = frame.xOffset + PanelWidth - 1

\* Types; the frame lies within what is not covered of the panel, and no window that is sent is
\* empty, or reaches beyond the panel, but for the one that ClearedEnd names.
TypeOK ==
  /\ setup \in Setups
  /\ frame.width > 0 /\ frame.xOffset >= setup.before[1]
  /\ frame.xOffset + frame.width <= PanelWidth - setup.behind[1]
  /\ frame.height > 0 /\ frame.yOffset >= setup.before[2]
  /\ frame.yOffset + frame.height <= PanelHeight - setup.behind[2]
  /\ pc \in {"idle", "widen", "row", "columns", "start", "pixels"}
  /\ pixel \in Nat
  /\ spiX \in -1..frame.width - 1 /\ spiY \in -1..frame.height - 1 /\ spiEndX \in 1..PanelWidth
  /\ 0 <= window.sc /\ window.sc <= window.ec /\ (window.ec < PanelWidth \/ ClearedEnd)
  /\ 0 <= window.sp /\ window.sp <= window.ep /\ window.ep < PanelHeight
  /\ cursor \in (0..window.ec) \X (0..PanelHeight - 1)
  /\ differs \subseteq (0..frame.xOffset + PanelWidth - 1) \X (0..PanelHeight - 1)

\* "second buffer contains whatever the display is currently showing": when all tasks of a
\* frame are done, whatever windows the frames before have left, every pixel is where it
\* belongs and no other was hit.  It holds of the builds that widen no span beyond the frame
\* and send a controller that keeps its cursor the columns of every span, and of no more.
DisplayShowsBuffer1 == pc = "idle" => differs = {}

\* "Track current SPI display controller write X and Y cursors": what main remembers is
\* what the controller holds, so that a command may be left out; or the end is still the
\* panel's, as ClearScreen has left both.
WindowCacheCoherent ==
  /\ spiX # -1 => window.sc = frame.xOffset + spiX
  /\ spiY # -1 => window.sp = frame.yOffset + spiY
  /\ \/ window.ec = frame.xOffset + spiEndX - 1
     \/ spiEndX = PanelWidth /\ window.ec = PanelWidth - 1
=============================================================================
