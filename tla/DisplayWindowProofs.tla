------------------------- MODULE DisplayWindowProofs -------------------------
(***************************************************************************)
(* TLAPS proofs about DisplayWindow, for a panel and a GPU display of any  *)
(* size and any number of spans a frame: what main remembers of the write  *)
(* window is what the controller holds.                                    *)
(*                                                                         *)
(* Main sends a window with the end its span needs, so the frame must lie  *)
(* on the panel (FrameOnPanel, which is about the arithmetic of InitGPU)   *)
(* and the spans in the frame, but for the one pixel by which a span can   *)
(* be widened beyond it (SpansFit).  Nothing more is needed for the window *)
(* and the cursor to stay where they belong (Places), in every build.      *)
(*                                                                         *)
(* That the panel shows what was copied to framebuffer[1] (Picture) is     *)
(* more: the pixels of a span are written in the order in which the span   *)
(* sends them, whichever commands were left out.  This holds if no span is *)
(* widened beyond the frame, and if a controller which keeps its cursor is *)
(* sent the columns of every span: main leaves them out if the window      *)
(* fits, and the cursor may then be inside a row.  The two hypotheses are  *)
(* named.  The code sees to neither: display_widen is a run of a build     *)
(* without the first.                                                      *)
(***************************************************************************)
EXTENDS DisplayWindow, TLAPS

-----------------------------------------------------------------------------
(* The frame *)

\* Rounding a quotient does not lift it above a whole number it does not exceed.
LEMMA RoundedAtMost ==
  ASSUME NEW n \in Nat, NEW d \in Nat \ {0}, NEW m \in Nat, n <= m * d
  PROVE  Rounded(n, d) \in Nat /\ Rounded(n, d) <= m
<1> DEFINE q == (2 * n + d) \div (2 * d)
<1>1. q \in Nat /\ (2 * d) * q <= 2 * n + d
  OBVIOUS
<1>2. q <= m
  <2> SUFFICES ASSUME q >= m + 1 PROVE FALSE
    BY <1>1
  <2> HIDE DEF q
  <2>1. d * (q - (m + 1)) >= 0
    BY <1>1
  <2>2. d * (q - (m + 1)) = d * q - d * m - d
    BY <1>1
  <2>3. (2 * d) * q = 2 * (d * q) /\ m * d = d * m
    BY <1>1
  <2>4. d * q \in Int /\ d * m \in Int
    BY <1>1
  <2> QED BY <1>1, <2>1, <2>2, <2>3, <2>4
<1> QED BY <1>1, <1>2 DEF Rounded

LEMMA Sizes ==
  ASSUME WindowAssumption, NEW s \in Setups, NEW a \in Axes
  PROVE  /\ s.before[a] \in Nat /\ s.behind[a] \in Nat /\ Panel[a] \in Nat
         /\ Drawable(s, a) \in Nat \ {0} /\ Relevant(s, a) \in Nat \ {0}
         /\ s.before[a] + Drawable(s, a) <= Panel[a]
<1>1. s \in Setup /\ s.before[a] + s.behind[a] < Panel[a]
  BY DEF WindowAssumption
<1>2. s.before[a] \in Nat /\ s.behind[a] \in Nat /\ s.source[a] \in Nat \ {0}
  BY <1>1 DEF Setup
<1>3. Panel[a] \in Nat
  BY DEF Panel, Axes, WindowAssumption
<1>4. /\ Drawable(s, a) \in Nat \ {0}
      /\ s.before[a] + Drawable(s, a) <= Panel[a]
  BY <1>1, <1>2, <1>3 DEF Drawable
<1> QED BY <1>2, <1>3, <1>4 DEF Relevant, Least

\* The smaller of the two factors fits both axes, and each axis its own.
LEMMA ScaledFits ==
  ASSUME WindowAssumption, NEW s \in Setups, NEW a \in Axes
  PROVE  Scaled(s, a) \in Nat /\ Scaled(s, a) <= Drawable(s, a)
<1> DEFINE tighter == IF Drawable(s, 1) * Relevant(s, 2) <= Drawable(s, 2) * Relevant(s, 1)
                        THEN 1 ELSE 2
           k == IF s.stretch THEN a ELSE tighter
<1>1. /\ Drawable(s, 1) \in Nat /\ Relevant(s, 1) \in Nat \ {0}
      /\ Drawable(s, 2) \in Nat /\ Relevant(s, 2) \in Nat \ {0}
      /\ a \in {1, 2} /\ k \in {1, 2}
  BY Sizes DEF Axes
<1>2. Relevant(s, a) * Drawable(s, k) <= Drawable(s, a) * Relevant(s, k)
  <2> DEFINE d1 == Drawable(s, 1)
             d2 == Drawable(s, 2)
             r1 == Relevant(s, 1)
             r2 == Relevant(s, 2)
  <2>1. /\ d1 * r2 \in Nat /\ d2 * r1 \in Nat /\ d1 * r1 \in Nat /\ d2 * r2 \in Nat
        /\ r1 * d1 = d1 * r1 /\ r2 * d2 = d2 * r2 /\ r1 * d2 = d2 * r1 /\ r2 * d1 = d1 * r2
    <3> HIDE DEF d1, d2, r1, r2
    <3>1. d1 \in Nat /\ d2 \in Nat /\ r1 \in Nat /\ r2 \in Nat
      BY <1>1 DEF d1, d2, r1, r2
    <3> QED BY <3>1
  <2>2. CASE k = a
    BY <1>1, <2>1, <2>2
  <2>3. CASE k # a
    BY <1>1, <2>1, <2>3
  <2> QED BY <2>2, <2>3
<1>3. Scaled(s, a) = Rounded(Relevant(s, a) * Drawable(s, k), Relevant(s, k))
  BY DEF Scaled
<1>4. /\ Relevant(s, a) * Drawable(s, k) \in Nat /\ Relevant(s, k) \in Nat \ {0}
      /\ Drawable(s, a) \in Nat
  BY <1>1
<1> HIDE DEF k
<1> QED BY <1>2, <1>3, <1>4, RoundedAtMost

\* InitGPU puts the frame on the part of the panel that is not covered.
LEMMA FrameOnPanel ==
  ASSUME WindowAssumption, NEW s \in Setups
  PROVE  /\ FrameOf(s).width \in Nat /\ FrameOf(s).height \in Nat
         /\ FrameOf(s).xOffset \in Nat /\ FrameOf(s).yOffset \in Nat
         /\ FrameOf(s).xOffset + FrameOf(s).width <= PanelWidth
         /\ FrameOf(s).width <= Drawable(s, 1)
<1>1. ASSUME NEW a \in Axes
      PROVE  /\ Scaled(s, a) \in Nat /\ Offset(s, a) \in Nat
             /\ Scaled(s, a) <= Drawable(s, a)
             /\ Offset(s, a) + Scaled(s, a) <= Panel[a]
  BY Sizes, ScaledFits DEF Offset
<1>2. 1 \in Axes /\ 2 \in Axes /\ Panel[1] = PanelWidth
  BY DEF Axes, Panel
<1> QED BY <1>1, <1>2 DEF FrameOf
-----------------------------------------------------------------------------
(* The spans *)

\* A span of the last column of a frame that is narrower than the panel, widened.
Widened(s) ==
  setup.align /\ frame.width < Drawable(setup, 1) /\ ~Multiline(s) /\ s.endX = frame.width + 1

\* A span in the frame, or widened; in a frame of one column it may then begin left of it.
Box == {s \in [x : Int, endX : Int, y : Int, endY : Int, lastScanEndX : Int] :
          s.x < s.endX /\ (s.endX <= frame.width \/ Widened(s))}

\* Spans stay in the frame: they come so from the diff, and only the current one is widened.
SpansFit ==
  /\ spans \in Seq(Box)
  /\ pc # "idle" => spans # <<>>
  /\ pc = "widen" => spans \in Seq(Spans)
  /\ spans # <<>> => Tail(spans) \in Seq(Spans)

Config == setup \in Setups /\ frame = FrameOf(setup)

Cache ==
  /\ spiX \in Int /\ spiY \in Int /\ spiEndX \in Int /\ spiEndX <= PanelWidth
  /\ window \in [sc : Int, ec : Int, sp : Int, ep : Int]

Inv == Config /\ SpansFit /\ Cache /\ WindowCacheCoherent

LEMMA FrameFits ==
  ASSUME Config
  PROVE  /\ frame.width \in Nat /\ frame.height \in Nat
         /\ frame.xOffset \in Nat /\ frame.yOffset \in Nat /\ PanelWidth \in Nat
         /\ frame.xOffset + frame.width <= PanelWidth
         /\ frame.width <= Drawable(setup, 1) /\ Drawable(setup, 1) \in Nat
<1>1. 1 \in Axes
  BY DEF Axes
<1> QED BY <1>1, WindowAssumption, FrameOnPanel, Sizes DEF Config, WindowAssumption

LEMMA SpansAreBoxes == ASSUME Config PROVE Spans \subseteq Box
BY FrameFits DEF Spans, Box

\* The current span, and what follows it.
LEMMA CurrentSpan ==
  ASSUME Config, SpansFit, pc # "idle"
  PROVE  span \in Box
BY DEF SpansFit, span

\* Where the window ends that main sends for a span and the next multiline one.
LEMMA NextEndFits ==
  ASSUME Config, SpansFit, pc # "idle"
  PROVE  NextEndX \in Int /\ NextEndX <= frame.width
<1> DEFINE next == {k \in 2..Len(spans) :
                      Multiline(spans[k]) /\ \A m \in 2..k - 1 : ~Multiline(spans[m])}
<1>1. CASE \E k \in next : spans[k].endX >= span.endX
  <2>1. (CHOOSE k \in next : TRUE) \in next
    BY <1>1
  <2>2. \A k \in next : spans[k].endX \in Int /\ spans[k].endX <= frame.width
    <3>1. spans \in Seq(Box) /\ Len(spans) \in Nat
      BY DEF SpansFit
    <3>2. ASSUME NEW k \in 2..Len(spans) PROVE spans[k] \in Box
      BY <3>1
    <3>3. \A b \in Box : b.endX \in Int /\ (Multiline(b) => b.endX <= frame.width)
      BY DEF Box, Widened
    <3> QED BY <3>2, <3>3
  <2>3. NextEndX = spans[CHOOSE k \in next : TRUE].endX
    BY <1>1, Zenon DEF NextEndX
  <2> HIDE DEF next
  <2> QED BY <2>1, <2>2, <2>3
<1>2. CASE ~\E k \in next : spans[k].endX >= span.endX
  <2>1. NextEndX = frame.width
    BY <1>2, Zenon DEF NextEndX
  <2>2. frame.width \in Nat
    BY FrameFits
  <2> HIDE DEF next
  <2> QED BY <2>1, <2>2
<1> QED BY <1>1, <1>2

\* What main sends the window and the pixels of: it begins in the frame, and ends there but for
\* the pixel by which it may have been widened.
Inside(s) ==
  /\ 0 <= s.x /\ s.x < frame.width /\ s.x < s.lastScanEndX /\ s.lastScanEndX <= s.endX
  /\ 0 <= s.y /\ s.y < s.endY /\ s.endY <= frame.height

LEMMA SpansAreInside == ASSUME Config, NEW s \in Spans PROVE Inside(s)
BY FrameFits DEF Spans, Inside

\* A span of one pixel is one pixel wide and one high.
LEMMA SinglePixel ==
  ASSUME NEW s, s.x \in Int, s.endX \in Int, s.y \in Int, s.endY \in Int, s.lastScanEndX \in Int,
         Inside(s), Size(s) = 1, s.endY = s.y + 1 => s.lastScanEndX = s.endX
  PROVE  s.endX = s.x + 1 /\ ~Multiline(s)
<1> DEFINE w == s.endX - s.x
           h == s.endY - s.y - 1
<1>1. w \in Nat \ {0} /\ h \in Nat
  BY DEF Inside
<1>2. Size(s) = w * h + s.lastScanEndX - s.x
  BY DEF Size
<1>3. CASE h = 0
  <2>1. w * h = 0
    BY <1>1, <1>3
  <2>2. s.endY = s.y + 1 /\ s.lastScanEndX = s.endX
    BY <1>3
  <2>3. ~Multiline(s)
    BY <2>2 DEF Multiline
  <2> HIDE DEF h
  <2> QED BY <1>2, <2>1, <2>2, <2>3
<1>4. CASE h # 0
  <2> HIDE DEF w, h
  <2>1. w * (h - 1) >= 0 /\ w * (h - 1) = w * h - w /\ w * h \in Int
    BY <1>1, <1>4
  <2>2. s.lastScanEndX - s.x >= 1
    BY DEF Inside
  <2> QED BY <1>1, <1>2, <2>1, <2>2
<1> QED BY <1>3, <1>4

-----------------------------------------------------------------------------
(* The steps *)

LEMMA InitInv == ASSUME Init PROVE Inv
<1>1. Config
  BY DEF Init, Config
<1>2. SpansFit
  BY DEF Init, SpansFit
<1>3. PanelWidth \in Nat /\ PanelHeight \in Nat
  BY WindowAssumption DEF WindowAssumption
<1>4. Cache
  BY <1>3 DEF Init, Cache
<1>5. WindowCacheCoherent
  BY <1>1, <1>3, FrameFits DEF Init, WindowCacheCoherent
<1> QED BY <1>1, <1>2, <1>4, <1>5 DEF Inv

\* What only depends on the frame stays as it is.
LEMMA SameConfig ==
  ASSUME Config, UNCHANGED config
  PROVE  Config' /\ Box' = Box /\ Spans' = Spans
BY DEF Config, config, Box, Widened, Spans, Drawable, Panel

\* Main sends no command: its window and the controller's stay as they are.
LEMMA SameWindow ==
  ASSUME Config, Cache, WindowCacheCoherent, UNCHANGED <<config, cache, window>>
  PROVE  Cache' /\ WindowCacheCoherent'
BY DEF config, cache, Cache, WindowCacheCoherent

\* Within the handling of one span the list stays as it is.
LEMMA SameSpans ==
  ASSUME Config, SpansFit, UNCHANGED <<config, spans>>, pc # "idle", pc' # "widen"
  PROVE  SpansFit'
<1>1. Box' = Box /\ Spans' = Spans
  BY SameConfig
<1> QED BY <1>1 DEF SpansFit

LEMMA BeginFrameInv == ASSUME Inv, BeginFrame PROVE Inv'
<1>1. Config /\ SpansFit /\ Cache /\ WindowCacheCoherent
      /\ UNCHANGED config /\ UNCHANGED <<cache, window>> /\ pc' = "widen"
  BY DEF Inv, BeginFrame, controller
<1>2. PICK n \in 1..MaxSpans : spans' \in [1..n -> Spans]
  BY DEF BeginFrame
<1>3. n \in Nat \ {0}
  BY WindowAssumption DEF WindowAssumption
<1>4. spans' \in Seq(Spans) /\ spans' # <<>>
  BY <1>2, <1>3
<1>5. SpansFit'
  <2>1. Spans \subseteq Box /\ Box' = Box /\ Spans' = Spans
    BY <1>1, SpansAreBoxes, SameConfig
  <2>2. spans' \in Seq(Box) /\ Tail(spans') \in Seq(Spans)
    BY <1>4, <2>1
  <2> QED BY <1>4, <2>1, <2>2 DEF SpansFit
<1> QED BY <1>1, <1>5, SameConfig, SameWindow DEF Inv

LEMMA WidenSpanInv == ASSUME Inv, WidenSpan PROVE Inv'
<1>1. Config /\ SpansFit /\ Cache /\ WindowCacheCoherent /\ pc = "widen" /\ pc' = "row"
      /\ UNCHANGED config /\ UNCHANGED <<cache, window>>
  BY DEF Inv, WidenSpan, controller
<1>2. Box' = Box /\ Spans' = Spans /\ Spans \subseteq Box
  BY <1>1, SameConfig, SpansAreBoxes
<1>3. span \in Spans /\ span \in Box /\ Tail(spans) \in Seq(Spans) /\ spans # <<>>
  BY <1>1, <1>2 DEF SpansFit, span
<1>4. /\ span.x \in Int /\ span.endX \in Int /\ span.lastScanEndX \in Int
      /\ span.y \in Int /\ span.endY \in Int
      /\ span.x < span.endX /\ span.endX <= frame.width /\ frame.width \in Nat
  <2>1. frame.width \in Nat /\ frame.height \in Nat
    BY <1>1, FrameFits
  <2>2. /\ span.x \in Int /\ span.endX \in Int /\ span.lastScanEndX \in Int
        /\ span.y \in Int /\ span.endY \in Int
    BY <1>3, <2>1 DEF Spans
  <2>3. span.x < span.endX /\ span.endX <= frame.width
    BY <1>3, <2>1 DEF Spans
  <2> QED BY <2>1, <2>2, <2>3
<1>5. ASSUME NEW s \in Box, spans' = <<s>> \o Tail(spans)
      PROVE  SpansFit'
  <2>1. Tail(spans) \in Seq(Box)
    BY <1>2, <1>3
  <2>2. spans' \in Seq(Box) /\ spans' # <<>>
    BY <1>5, <2>1
  <2>3. Tail(spans') = Tail(spans)
    BY <1>5, <2>1
  <2> QED BY <1>1, <1>2, <1>3, <2>2, <2>3 DEF SpansFit
<1>6. CASE ~setup.align \/ Size(span) # 1
  <2>1. spans' = spans
    BY <1>6 DEF WidenSpan
  <2> QED BY <1>1, <2>1, SameSpans, SameConfig, SameWindow DEF Inv
<1>7. CASE setup.align /\ Size(span) = 1 /\ span.endX < Drawable(setup, 1)
  <2> DEFINE s == [span EXCEPT !.endX = span.endX + 1, !.lastScanEndX = span.lastScanEndX + 1]
  <2>1. spans' = <<s>> \o Tail(spans)
    BY <1>7 DEF WidenSpan
  <2>2. ~Multiline(span)
    <3>1. Inside(span) /\ (span.endY = span.y + 1 => span.lastScanEndX = span.endX)
      BY <1>1, <1>3, SpansAreInside DEF Spans
    <3> QED BY <1>4, <1>7, <3>1, SinglePixel
  <2>3. s \in Box
    <3> DEFINE e == span.endX + 1
               l == span.lastScanEndX + 1
               t == [span EXCEPT !.endX = e, !.lastScanEndX = l]
    <3>1. /\ e \in Int /\ l \in Int /\ span.x < e
          /\ e <= frame.width \/ (e = frame.width + 1 /\ frame.width < Drawable(setup, 1))
      BY <1>1, <1>4, <1>7, FrameFits
    <3> HIDE DEF e, l
    <3>2. t \in [x : Int, endX : Int, y : Int, endY : Int, lastScanEndX : Int]
      BY <1>3, <3>1 DEF Box
    <3>3. t.x = span.x /\ t.endX = e /\ t.y = span.y /\ t.endY = span.endY
      BY <1>3 DEF Box
    <3>4. ~Multiline(t)
      BY <2>2, <3>3 DEF Multiline
    <3>5. t.x < t.endX /\ (t.endX <= frame.width \/ Widened(t))
      BY <1>7, <3>1, <3>3, <3>4 DEF Widened
    <3>6. t \in Box
      BY <3>2, <3>5 DEF Box
    <3> QED BY <3>6 DEF e, l
  <2> HIDE DEF s
  <2> QED BY <1>1, <1>5, <2>1, <2>3, SameConfig, SameWindow DEF Inv
<1>8. CASE setup.align /\ Size(span) = 1 /\ ~(span.endX < Drawable(setup, 1))
  <2> DEFINE s == [span EXCEPT !.x = span.x - 1]
  <2>1. spans' = <<s>> \o Tail(spans)
    BY <1>8 DEF WidenSpan
  <2>2. s \in Box
    BY <1>3, <1>4 DEF Box
  <2> HIDE DEF s
  <2> QED BY <1>1, <1>5, <2>1, <2>2, SameConfig, SameWindow DEF Inv
<1> QED BY <1>6, <1>7, <1>8
LEMMA MoveToRowInv == ASSUME Inv, MoveToRow PROVE Inv'
<1>1. Config /\ SpansFit /\ Cache /\ WindowCacheCoherent /\ pc = "row" /\ pc' = "columns"
      /\ UNCHANGED <<config, spans, spiX, spiEndX>>
  BY DEF Inv, MoveToRow
<1>2. Config' /\ SpansFit'
  BY <1>1, SameConfig, SameSpans
<1>3. CASE UNCHANGED <<controller, spiY>>
  BY <1>1, <1>2, <1>3, SameWindow DEF Inv, controller, cache
<1>4. CASE ~setup.resets \/ spiY # span.y
  <2> DEFINE sp == frame.yOffset + span.y
             ep == IF setup.fullWindow \/ setup.align THEN frame.yOffset + frame.height - 1
                                                      ELSE window.ep
  <2>1. window' = [window EXCEPT !.sp = sp, !.ep = ep] /\ spiY' = span.y
    BY <1>4 DEF MoveToRow, SetRows
  <2>2. span \in Box /\ span.y \in Int
    BY <1>1, CurrentSpan DEF Box
  <2>3. sp \in Int /\ ep \in Int
    BY <1>1, <2>2, FrameFits DEF Cache
  <2>4. frame' = frame
    BY <1>1 DEF config
  <2> HIDE DEF ep
  <2>5. Cache'
    BY <1>1, <2>1, <2>2, <2>3 DEF Cache
  <2>6. WindowCacheCoherent'
    BY <1>1, <2>1, <2>4 DEF WindowCacheCoherent, Cache
  <2> QED BY <1>2, <2>5, <2>6 DEF Inv
<1> QED BY <1>3, <1>4 DEF MoveToRow

\* A window that main sends, and remembers, with an end in the frame.
LEMMA SentWindow ==
  ASSUME Config, Cache, WindowCacheCoherent, UNCHANGED <<config, spiY>>,
         NEW column \in Int, NEW end \in Int, end <= frame.width,
         SendColumns(column, end)
  PROVE  Cache' /\ WindowCacheCoherent'
<1>1. /\ window' = [window EXCEPT !.sc = frame.xOffset + column, !.ec = frame.xOffset + end - 1]
      /\ spiX' = column /\ spiEndX' = end /\ spiY' = spiY /\ frame' = frame
  BY DEF SendColumns, SetColumns, config
<1>2. frame.xOffset \in Nat /\ frame.xOffset + end <= PanelWidth /\ PanelWidth \in Nat
      /\ frame.width \in Nat
  BY FrameFits
<1>3. Cache'
  <2> DEFINE sc == frame.xOffset + column
             ec == frame.xOffset + end - 1
  <2>1. sc \in Int /\ ec \in Int /\ end <= PanelWidth
    BY <1>2
  <2>2. window' = [window EXCEPT !.sc = sc, !.ec = ec]
    BY <1>1
  <2> HIDE DEF sc, ec
  <2> QED BY <1>1, <2>1, <2>2 DEF Cache
<1>4. WindowCacheCoherent'
  BY <1>1, <1>2 DEF WindowCacheCoherent, Cache
<1> QED BY <1>3, <1>4

\* The span's own window, or that of the next multiline one.
LEMMA SendColumnsInv ==
  ASSUME Inv, SetColumnsOfMultiline \/ SetColumnsAligned \/ WidenWindow
  PROVE  Inv'
<1>1. Config /\ SpansFit /\ Cache /\ WindowCacheCoherent /\ pc = "columns" /\ pc' = "start"
      /\ UNCHANGED <<config, spans, spiY>>
  BY DEF Inv, SetColumnsOfMultiline, SetColumnsAligned, WidenWindow
<1>2. Config' /\ SpansFit'
  BY <1>1, SameConfig, SameSpans
<1>3. /\ span.x \in Int /\ span.endX \in Int /\ (Multiline(span) => span.endX <= frame.width)
      /\ frame.width \in Int
  BY <1>1, CurrentSpan, FrameFits DEF Box, Widened
<1>4. CASE Multiline(span) /\ SendColumns(span.x, span.endX)
  BY <1>1, <1>2, <1>3, <1>4, SentWindow DEF Inv
<1>5. CASE SendColumns(span.x, frame.width)
  BY <1>1, <1>2, <1>3, <1>5, SentWindow DEF Inv
<1>6. CASE SendColumns(span.x, NextEndX)
  <2>1. NextEndX \in Int /\ NextEndX <= frame.width
    BY <1>1, NextEndFits
  <2> QED BY <1>1, <1>2, <1>3, <1>6, <2>1, SentWindow DEF Inv
<1>7. CASE UNCHANGED <<controller, spiX, spiEndX>>
  BY <1>1, <1>2, <1>7, SameWindow DEF Inv, controller, cache
<1> QED BY <1>4, <1>5, <1>6, <1>7
        DEF SetColumnsOfMultiline, SetColumnsAligned, WidenWindow, NeedsExactWindow

\* Only the start is sent; with full windows the end too, as main remembers it.
LEMMA MoveToColumnInv == ASSUME Inv, MoveToColumn PROVE Inv'
<1>1. Config /\ SpansFit /\ Cache /\ WindowCacheCoherent /\ pc = "columns" /\ pc' = "start"
      /\ UNCHANGED <<config, spans, spiY, spiEndX>>
  BY DEF Inv, MoveToColumn
<1>2. Config' /\ SpansFit'
  BY <1>1, SameConfig, SameSpans
<1>3. CASE UNCHANGED <<controller, spiX>>
  BY <1>1, <1>2, <1>3, SameWindow DEF Inv, controller, cache
<1>4. CASE ~setup.resets \/ spiX # span.x
  <2> DEFINE ec == IF setup.fullWindow THEN frame.xOffset + spiEndX - 1 ELSE window.ec
  <2>1. /\ window' = [window EXCEPT !.sc = frame.xOffset + span.x, !.ec = ec]
        /\ spiX' = span.x /\ frame' = frame /\ spiY' = spiY /\ spiEndX' = spiEndX
    BY <1>1, <1>4 DEF MoveToColumn, SetColumns, config
  <2>2. span.x \in Int
    BY <1>1, CurrentSpan DEF Box
  <2>3. frame.xOffset \in Nat /\ PanelWidth \in Nat
    BY <1>1, FrameFits
  <2>4. /\ ec \in Int
        /\ ec = frame.xOffset + spiEndX - 1 \/ (spiEndX = PanelWidth /\ ec = PanelWidth - 1)
    BY <1>1, <2>3 DEF Cache, WindowCacheCoherent
  <2> HIDE DEF ec
  <2>5. Cache'
    <3> DEFINE sc == frame.xOffset + span.x
    <3>1. sc \in Int
      BY <2>2, <2>3
    <3>2. window' = [window EXCEPT !.sc = sc, !.ec = ec]
      BY <2>1
    <3> HIDE DEF sc
    <3> QED BY <1>1, <2>1, <2>2, <2>4, <3>1, <3>2 DEF Cache
  <2>6. WindowCacheCoherent'
    BY <1>1, <2>1, <2>4 DEF WindowCacheCoherent, Cache
  <2> QED BY <1>2, <2>5, <2>6 DEF Inv
<1> QED BY <1>3, <1>4 DEF MoveToColumn

LEMMA PixelsInv == ASSUME Inv, StartPixels \/ WritePixel \/ UNCHANGED vars PROVE Inv'
<1>1. Config /\ SpansFit /\ Cache /\ WindowCacheCoherent
      /\ UNCHANGED <<config, spans, cache, window>>
  BY DEF Inv, StartPixels, WritePixel, vars, controller
<1>2. SpansFit'
  <2>1. CASE StartPixels \/ WritePixel
    BY <1>1, <2>1, SameSpans DEF StartPixels, WritePixel
  <2>2. CASE UNCHANGED vars
    <3>1. pc' = pc /\ spans' = spans /\ Box' = Box /\ Spans' = Spans
      BY <1>1, <2>2, SameConfig DEF vars
    <3> QED BY <1>1, <3>1 DEF SpansFit
  <2> QED BY <2>1, <2>2
<1> QED BY <1>1, <1>2, SameConfig, SameWindow DEF Inv

LEMMA EndSpanInv == ASSUME Inv, EndSpan PROVE Inv'
<1>1. Config /\ SpansFit /\ Cache /\ WindowCacheCoherent /\ pc = "pixels"
      /\ UNCHANGED config /\ UNCHANGED <<cache, window>> /\ spans' = Tail(spans)
      /\ pc' = (IF Tail(spans) = <<>> THEN "idle" ELSE "widen")
  BY DEF Inv, EndSpan, controller
<1>2. Box' = Box /\ Spans' = Spans /\ Spans \subseteq Box
  BY <1>1, SameConfig, SpansAreBoxes
<1>3. Tail(spans) \in Seq(Spans)
  BY <1>1 DEF SpansFit
<1>4. SpansFit'
  <2>1. spans' \in Seq(Box) /\ (spans' # <<>> => Tail(spans') \in Seq(Spans))
    BY <1>1, <1>2, <1>3
  <2> QED BY <1>1, <1>2, <1>3, <2>1 DEF SpansFit
<1> QED BY <1>1, <1>4, SameConfig, SameWindow DEF Inv

-----------------------------------------------------------------------------
(* The theorems *)

\* What is sent of a span begins in the frame and ends there, or a pixel beside it if it was
\* widened; the frame lies on the panel; the cache is true to the controller.
THEOREM WindowInvariant == Spec => []Inv
<1>1. Init => Inv
  BY InitInv
<1>2. Inv /\ [Next]_vars => Inv'
  <2> SUFFICES ASSUME Inv, [Next]_vars PROVE Inv'
    OBVIOUS
  <2>1. CASE BeginFrame
    BY <2>1, BeginFrameInv
  <2>2. CASE WidenSpan
    BY <2>2, WidenSpanInv
  <2>3. CASE MoveToRow
    BY <2>3, MoveToRowInv
  <2>4. CASE SetColumnsOfMultiline \/ SetColumnsAligned \/ WidenWindow
    BY <2>4, SendColumnsInv
  <2>5. CASE MoveToColumn
    BY <2>5, MoveToColumnInv
  <2>6. CASE StartPixels \/ WritePixel \/ UNCHANGED vars
    BY <2>6, PixelsInv
  <2>7. CASE EndSpan
    BY <2>7, EndSpanInv
  <2> QED BY <2>1, <2>2, <2>3, <2>4, <2>5, <2>6, <2>7 DEF Next
<1> QED BY <1>1, <1>2, PTL DEF Spec

\* spiX, spiY and spiEndX are the controller's window, in every build, for every panel and
\* every sequence of frames: so main may leave out the commands that would change nothing.
THEOREM CacheIsCoherent == Spec => []WindowCacheCoherent
<1>1. Inv => WindowCacheCoherent
  BY DEF Inv
<1> QED BY <1>1, WindowInvariant, PTL

-----------------------------------------------------------------------------
(* Where the pixels land *)

\* The GPU's display is not so much longer than it is wide that the frame has no pixel left.
FramesHavePixels == \A s \in Setups : \A a \in Axes : Scaled(s, a) > 0

\* There is room to widen a span of a single pixel.
SpansCanWiden == \A s \in Setups : s.align => Drawable(s, 1) > 1

\* Where spans are widened no bar is beside the frame.
WideningFits == \A s \in Setups : s.align => FrameOf(s).width = Drawable(s, 1)

\* A controller that keeps its cursor is sent the columns of every span.
ColumnsAlwaysSent == \A s \in Setups : s.align => s.resets

Rows == 0..PanelHeight - 1
Pixels == (0..frame.xOffset + PanelWidth - 1) \X Rows

Places ==
  /\ pc \in {"idle", "widen", "row", "columns", "start", "pixels"}
  /\ pc # "idle" => Inside(span)
  /\ pixel \in Nat
  /\ spiX \in -1..frame.width - 1 /\ spiY \in -1..frame.height - 1 /\ spiEndX >= 1
  /\ 0 <= window.sc /\ window.sc <= window.ec /\ (window.ec < PanelWidth \/ ClearedEnd)
  /\ 0 <= window.sp /\ window.sp <= window.ep /\ window.ep < PanelHeight
  /\ frame.yOffset + frame.height - 1 <= window.ep
  /\ cursor \in (0..window.ec) \X Rows
  /\ differs \subseteq Pixels

\* The window begins with the span, and ends with it where a scanline must end.
RowSet ==
  /\ window.sp = frame.yOffset + span.y
  /\ ~setup.resets => cursor[2] = window.sp

WindowSet ==
  /\ window.sp = frame.yOffset + span.y
  /\ window.sc = frame.xOffset + span.x
  /\ frame.xOffset + span.endX - 1 <= window.ec
  /\ Multiline(span) => window.ec = frame.xOffset + span.endX - 1

Target(n) == OnPanel(PixelAt(span, n))

\* The pixels still to be written are the only ones that differ.
Written ==
  /\ pixel <= Size(span)
  /\ pixel < Size(span) => cursor = Target(pixel)
  /\ \A p \in differs : \E n \in pixel..Size(span) - 1 : p = Target(n)

Picture ==
  /\ pc # "pixels" => differs = {}
  /\ pc = "columns" => RowSet
  /\ pc = "start" => WindowSet /\ (~setup.resets => cursor = <<window.sc, window.sp>>)
  /\ pc = "pixels" => WindowSet /\ Written

LEMMA Numbers ==
  ASSUME Config
  PROVE  /\ frame.width \in Nat /\ frame.height \in Nat
         /\ frame.xOffset \in Nat /\ frame.yOffset \in Nat
         /\ PanelWidth \in Nat \ {0} /\ PanelHeight \in Nat \ {0}
         /\ setup.before[1] \in Nat /\ setup.before[1] <= frame.xOffset
         /\ setup.before[2] \in Nat /\ setup.before[2] <= frame.yOffset
         /\ setup.behind[1] \in Nat /\ frame.xOffset + frame.width <= PanelWidth - setup.behind[1]
         /\ setup.behind[2] \in Nat /\ frame.yOffset + frame.height <= PanelHeight - setup.behind[2]
<1>1. ASSUME NEW a \in Axes
      PROVE  /\ setup.before[a] \in Nat /\ setup.before[a] <= Offset(setup, a)
             /\ setup.behind[a] \in Nat /\ Offset(setup, a) \in Nat /\ Scaled(setup, a) \in Nat
             /\ Offset(setup, a) + Scaled(setup, a) <= Panel[a] - setup.behind[a]
  <2>1. /\ setup.before[a] \in Nat /\ setup.behind[a] \in Nat /\ Panel[a] \in Nat
        /\ Drawable(setup, a) \in Nat /\ Scaled(setup, a) \in Nat
        /\ Scaled(setup, a) <= Drawable(setup, a)
        /\ Drawable(setup, a) = Panel[a] - setup.before[a] - setup.behind[a]
    BY Sizes, ScaledFits, WindowAssumption DEF Config, Drawable
  <2> QED BY <2>1 DEF Offset
<1>2. 1 \in Axes /\ 2 \in Axes /\ Panel[1] = PanelWidth /\ Panel[2] = PanelHeight
  BY DEF Axes, Panel
<1>3. PanelWidth \in Nat \ {0} /\ PanelHeight \in Nat \ {0}
  BY WindowAssumption DEF WindowAssumption
<1> QED BY <1>1, <1>2, <1>3 DEF Config, FrameOf

LEMMA SpanNumbers ==
  ASSUME Config, SpansFit, pc # "idle"
  PROVE  /\ span.x \in Int /\ span.endX \in Int /\ span.y \in Int /\ span.endY \in Int
         /\ span.lastScanEndX \in Int
BY CurrentSpan DEF Box

\* The pixels of a span lie in its box, row by row.
LEMMA PixelInBox ==
  ASSUME NEW w \in Nat \ {0}, NEW h \in Nat, NEW l \in 1..w, NEW n \in Nat, n < w * h + l
  PROVE  n % w \in 0..w - 1 /\ n \div w \in 0..h /\ (n \div w = h => n % w < l)
<1> DEFINE q == n \div w
           r == n % w
<1>1. n = w * q + r /\ q \in Nat /\ r \in 0..w - 1
  OBVIOUS
<1> HIDE DEF q, r
<1>2. w * h \in Int /\ w * q \in Int
  BY <1>1
<1>3. q <= h
  <2> SUFFICES ASSUME q >= h + 1 PROVE FALSE
    BY <1>1
  <2>1. w * (q - (h + 1)) >= 0
    BY <1>1
  <2>2. w * (q - (h + 1)) = w * q - w * h - w
    BY <1>1
  <2> QED BY <1>1, <1>2, <2>1, <2>2
<1>4. q = h => r < l
  BY <1>1, <1>2
<1> QED BY <1>1, <1>3, <1>4 DEF q, r

LEMMA NextPixel ==
  ASSUME NEW w \in Nat \ {0}, NEW n \in Nat
  PROVE  /\ n % w < w - 1 => (n + 1) % w = (n % w) + 1 /\ (n + 1) \div w = n \div w
         /\ n % w = w - 1 => (n + 1) % w = 0 /\ (n + 1) \div w = n \div w + 1
<1> DEFINE q == n \div w
           r == n % w
           d == (n + 1) \div w
           e == (n + 1) % w
<1>1. n = w * q + r /\ q \in Nat /\ r \in 0..w - 1
  OBVIOUS
<1>2. n + 1 = w * d + e /\ d \in Nat /\ e \in 0..w - 1
  OBVIOUS
<1> HIDE DEF q, r, d, e
<1>3. w * (d - q) = r + 1 - e /\ w * (q - d) = e - r - 1
  BY <1>1, <1>2
<1>4. ~(d <= q - 1)
  <2> SUFFICES ASSUME d <= q - 1 PROVE FALSE
    OBVIOUS
  <2>1. w * (q - d - 1) >= 0 /\ w * (q - d - 1) = w * (q - d) - w
    BY <1>1, <1>2
  <2> QED BY <1>1, <1>2, <1>3, <2>1
<1>5. ~(d >= q + 2)
  <2> SUFFICES ASSUME d >= q + 2 PROVE FALSE
    OBVIOUS
  <2>1. w * (d - q - 2) >= 0 /\ w * (d - q - 2) = w * (d - q) - 2 * w
    BY <1>1, <1>2
  <2> QED BY <1>1, <1>2, <1>3, <2>1
<1>6. CASE d = q
  <2>1. w * (d - q) = 0
    BY <1>1, <1>2, <1>6
  <2> QED BY <1>1, <1>2, <1>3, <1>6, <2>1 DEF q, r, d, e
<1>7. CASE d = q + 1
  <2>1. w * (d - q) = w
    BY <1>1, <1>2, <1>7
  <2> QED BY <1>1, <1>2, <1>3, <1>7, <2>1 DEF q, r, d, e
<1> QED BY <1>1, <1>2, <1>4, <1>5, <1>6, <1>7

LEMMA SpanSize ==
  ASSUME Config, SpansFit, Inside(span), pc # "idle"
  PROVE  Size(span) \in Nat /\ Size(span) > 0
<1> DEFINE w == span.endX - span.x
           h == span.endY - span.y - 1
<1>1. w \in Nat /\ h \in Nat /\ span.lastScanEndX \in Int /\ span.x \in Int
      /\ span.lastScanEndX - span.x > 0
  BY SpanNumbers, Numbers DEF Inside
<1>2. Size(span) = w * h + span.lastScanEndX - span.x
  BY DEF Size
<1> HIDE DEF w, h
<1>3. w * h \in Nat
  BY <1>1
<1> QED BY <1>1, <1>2, <1>3

\* Where the pixels of the current span belong.
LEMMA Targets ==
  ASSUME Config, SpansFit, Inside(span), pc # "idle",
         NEW n \in 0..Size(span) - 1
  PROVE  \E r, q \in Nat :
           /\ r = n % (span.endX - span.x) /\ q = n \div (span.endX - span.x)
           /\ Target(n) = <<frame.xOffset + span.x + r, frame.yOffset + span.y + q>>
           /\ PixelAt(span, n)[1] = span.x + r
           /\ r < span.endX - span.x /\ q <= span.endY - span.y - 1
           /\ q = span.endY - span.y - 1 => r < span.lastScanEndX - span.x
<1> DEFINE w == span.endX - span.x
           h == span.endY - span.y - 1
           l == span.lastScanEndX - span.x
           r == n % w
           q == n \div w
<1>1. /\ span.x \in Nat /\ span.endX \in Nat /\ span.y \in Nat /\ span.endY \in Nat
      /\ span.lastScanEndX \in Nat /\ frame.xOffset \in Nat /\ frame.yOffset \in Nat
      /\ w \in Nat \ {0} /\ h \in Nat /\ l \in 1..w
  BY SpanNumbers, Numbers DEF Inside
<1>2. n \in Nat /\ n < w * h + l
  <2>1. Size(span) = w * h + l
    <3>1. w * h \in Int
      BY <1>1
    <3> QED BY <1>1, <3>1 DEF Size
  <2>2. w * h \in Int
    BY <1>1
  <2> HIDE DEF w, h, l
  <2> QED BY <1>1, <2>1, <2>2
<1>3. r \in 0..w - 1 /\ q \in 0..h /\ (q = h => r < l)
  <2> HIDE DEF w, h, l
  <2> QED BY <1>1, <1>2, PixelInBox
<1>4. /\ Target(n) = <<(span.x + r) + frame.xOffset, (span.y + q) + frame.yOffset>>
      /\ PixelAt(span, n)[1] = span.x + r
  BY DEF Target, OnPanel, PixelAt
<1> HIDE DEF r, q
<1>5. Target(n) = <<frame.xOffset + span.x + r, frame.yOffset + span.y + q>>
  BY <1>1, <1>3, <1>4
<1>6. r \in Nat /\ q \in Nat /\ r < w /\ q <= h
  BY <1>1, <1>3
<1> QED BY <1>3, <1>4, <1>5, <1>6 DEF r, q

-----------------------------------------------------------------------------
(* Places: everything stays in the frame and on the panel *)

\* What the steps need of Inv and Places.
LEMMA PlacesFacts ==
  ASSUME Inv, Places
  PROVE  /\ Config /\ SpansFit /\ Cache /\ WindowCacheCoherent
         /\ window.sc \in Int /\ window.ec \in Int /\ window.sp \in Int /\ window.ep \in Int
         /\ window = [sc |-> window.sc, ec |-> window.ec, sp |-> window.sp, ep |-> window.ep]
         /\ cursor = <<cursor[1], cursor[2]>>
         /\ cursor[1] \in 0..window.ec /\ cursor[2] \in Rows
         /\ window.ec <= frame.xOffset + PanelWidth - 1
<1>1. /\ Config /\ SpansFit /\ Cache /\ WindowCacheCoherent
      /\ window.sc \in Int /\ window.ec \in Int /\ window.sp \in Int /\ window.ep \in Int
      /\ window = [sc |-> window.sc, ec |-> window.ec, sp |-> window.sp, ep |-> window.ep]
      /\ cursor = <<cursor[1], cursor[2]>>
      /\ cursor[1] \in 0..window.ec /\ cursor[2] \in Rows
  BY DEF Inv, Cache, Places
<1>2. frame.xOffset \in Nat /\ PanelWidth \in Nat
  BY <1>1, Numbers
<1>3. window.ec <= frame.xOffset + PanelWidth - 1
  BY <1>1, <1>2 DEF Places, ClearedEnd
<1> QED BY <1>1, <1>3

LEMMA PlacesInit == ASSUME Init PROVE Places
<1>1. Config
  BY DEF Init, Config
<1>2. 0 \in 0..PanelWidth - 1 /\ 0 \in 0..PanelHeight - 1
  BY <1>1, Numbers
<1>3. cursor \in (0..window.ec) \X Rows /\ differs \subseteq Pixels
  BY <1>2 DEF Init, Pixels, Rows
<1>4. /\ window.sc = 0 /\ window.ec = PanelWidth - 1 /\ window.sp = 0 /\ window.ep = PanelHeight - 1
      /\ spiX = -1 /\ spiY = -1 /\ spiEndX = PanelWidth /\ pixel = 0 /\ pc = "idle"
  BY DEF Init
<1>5. /\ PanelWidth \in Nat \ {0} /\ PanelHeight \in Nat \ {0}
      /\ frame.width \in Nat /\ frame.height \in Nat
      /\ frame.yOffset + frame.height <= PanelHeight /\ frame.yOffset \in Nat
  BY <1>1, Numbers
<1> QED BY <1>3, <1>4, <1>5 DEF Places

\* Steps that do not touch the controller.
LEMMA PlacesOfSpans ==
  ASSUME Inv, Places, SpansCanWiden, BeginFrame \/ WidenSpan \/ EndSpan
  PROVE  Places'
<1>1. /\ UNCHANGED <<config, cache, pixel, controller, differs>>
      /\ pc' \in {"idle", "widen", "row"}
  BY DEF BeginFrame, WidenSpan, EndSpan
<1>2. frame' = frame /\ Pixels' = Pixels /\ Rows' = Rows /\ ClearedEnd' = ClearedEnd
  BY <1>1 DEF config, cache, controller, Pixels, Rows, ClearedEnd
<1>3. Spans' = Spans
  BY <1>1, SameConfig DEF Inv
<1>4. \A t \in Spans : Inside(t)
  BY SpansAreInside DEF Inv
<1>5. pc' # "idle" => Inside(span)'
  <2>1. CASE BeginFrame
    <3>1. PICK n \in 1..MaxSpans : spans' \in [1..n -> Spans]
      BY <2>1 DEF BeginFrame
    <3>2. span' \in Spans
      BY <3>1, WindowAssumption DEF span, WindowAssumption
    <3> QED BY <1>2, <1>4, <3>2 DEF Inside
  <2>2. CASE WidenSpan
    <3>1. /\ Config /\ SpansFit /\ pc = "widen" /\ span \in Box /\ span \in Spans
          /\ Tail(spans) \in Seq(Box)
      BY <2>2, CurrentSpan DEF Inv, WidenSpan, SpansFit, span
    <3>2. /\ span.x \in Int /\ span.endX \in Int /\ span.y \in Int /\ span.endY \in Int
          /\ span.lastScanEndX \in Int /\ frame.width \in Nat /\ Inside(span)
      BY <1>4, <3>1, FrameFits DEF Box
    <3>3. ASSUME NEW t, spans' = <<t>> \o Tail(spans) PROVE span' = t
      BY <3>1, <3>3 DEF span
    <3>4. CASE ~setup.align \/ Size(span) # 1
      <4>1. span' = span
        BY <2>2, <3>4 DEF WidenSpan, span
      <4> QED BY <1>2, <3>2, <4>1 DEF Inside
    <3>5. CASE setup.align /\ Size(span) = 1 /\ span.endX < Drawable(setup, 1)
      <4>1. span' = [span EXCEPT !.endX = span.endX + 1, !.lastScanEndX = span.lastScanEndX + 1]
        BY <2>2, <3>3, <3>5 DEF WidenSpan
      <4>2. /\ span'.x = span.x /\ span'.y = span.y /\ span'.endY = span.endY
            /\ span'.endX = span.endX + 1 /\ span'.lastScanEndX = span.lastScanEndX + 1
        BY <3>1, <4>1 DEF Box
      <4> QED BY <1>2, <3>2, <4>2 DEF Inside
    <3>6. CASE setup.align /\ Size(span) = 1 /\ ~(span.endX < Drawable(setup, 1))
      <4>1. span' = [span EXCEPT !.x = span.x - 1]
        BY <2>2, <3>3, <3>6 DEF WidenSpan
      <4>2. /\ span'.x = span.x - 1 /\ span'.y = span.y /\ span'.endY = span.endY
            /\ span'.endX = span.endX /\ span'.lastScanEndX = span.lastScanEndX
        BY <3>1, <4>1 DEF Box
      <4>3. span.endX > 1
        BY <3>1, <3>2, <3>6, FrameFits DEF SpansCanWiden, Config
      <4>4. span.x >= 1
        <5>1. span.endY = span.y + 1 => span.lastScanEndX = span.endX
          BY <3>1 DEF Spans
        <5>2. span.endX = span.x + 1
          BY <3>2, <3>6, <5>1, SinglePixel
        <5> QED BY <3>2, <4>3, <5>2
      <4> QED BY <1>2, <3>2, <4>2, <4>4 DEF Inside
    <3> QED BY <3>4, <3>5, <3>6
  <2>3. CASE EndSpan /\ Tail(spans) # <<>>
    <3>1. spans' = Tail(spans) /\ Tail(spans) \in Seq(Spans) /\ Tail(spans) # <<>>
      BY <2>3 DEF EndSpan, Inv, SpansFit
    <3>2. span' \in Spans
      BY <3>1 DEF span
    <3> QED BY <1>2, <1>4, <3>2 DEF Inside
  <2> QED BY <2>1, <2>2, <2>3 DEF BeginFrame, WidenSpan, EndSpan
<1> QED BY <1>1, <1>2, <1>5 DEF Places, cache, controller

LEMMA PlacesOfRow ==
  ASSUME Inv, Places, MoveToRow
  PROVE  Places'
<1>1. /\ Config /\ SpansFit /\ pc = "row" /\ pc' = "columns"
      /\ UNCHANGED <<config, spans, spiX, spiEndX, pixel, differs>>
      /\ frame' = frame /\ setup' = setup /\ Pixels' = Pixels /\ Rows' = Rows /\ Inside(span)
  BY DEF MoveToRow, Inv, config, Pixels, Rows, Places
<1>2. Inside(span)'
  BY <1>1 DEF Inside, span
<1>3. CASE UNCHANGED <<controller, spiY>>
  BY <1>1, <1>2, <1>3 DEF Places, controller, ClearedEnd
<1>4. CASE ~setup.resets \/ spiY # span.y
  <2> DEFINE sp == frame.yOffset + span.y
             ep == IF setup.fullWindow \/ setup.align THEN frame.yOffset + frame.height - 1
                                                      ELSE window.ep
  <2>1. /\ window' = [window EXCEPT !.sp = sp, !.ep = ep] /\ cursor' = <<cursor[1], sp>>
        /\ spiY' = span.y
    BY <1>4 DEF MoveToRow, SetRows
  <2>2. /\ span.y \in Nat /\ span.y < frame.height /\ frame.yOffset \in Nat
        /\ frame.height \in Nat /\ frame.yOffset + frame.height <= PanelHeight
        /\ PanelHeight \in Nat
    BY <1>1, SpanNumbers, Numbers DEF Inside
  <2>3. /\ ep \in Int /\ frame.yOffset + frame.height - 1 <= ep /\ ep < PanelHeight
        /\ sp >= 0 /\ sp \in Rows /\ sp <= ep
    BY <2>2, PlacesFacts DEF Places, Rows
  <2> HIDE DEF sp, ep
  <2>4. window'.sc = window.sc /\ window'.ec = window.ec /\ window'.sp = sp /\ window'.ep = ep
    BY <2>1, PlacesFacts
  <2>5. cursor' \in (0..window'.ec) \X Rows
    BY <2>1, <2>3, <2>4, PlacesFacts
  <2>6. spiY' \in -1..frame.height - 1
    BY <2>1, <2>2
  <2>7. window.ec < PanelWidth \/ ClearedEnd'
    BY <1>1, <2>4 DEF Places, ClearedEnd
  <2> QED BY <1>1, <1>2, <2>3, <2>4, <2>5, <2>6, <2>7 DEF Places
<1> QED BY <1>3, <1>4 DEF MoveToRow

\* What all ways to set the columns have in common.
LEMMA PlacesOfWindow ==
  ASSUME Inv, Places, pc = "columns", pc' = "start", UNCHANGED <<config, spans, spiY, pixel, differs>>,
         NEW sc \in Int, NEW ec \in Int, 0 <= sc, sc <= ec, SetColumns(sc, ec),
         ec < PanelWidth \/ (/\ setup.fullWindow /\ ~setup.align /\ frame.xOffset > 0
                            /\ spiEndX' = PanelWidth /\ ec = frame.xOffset + PanelWidth - 1),
         spiX' = span.x, spiEndX' \in Int, spiEndX' >= 1
  PROVE  Places'
<1>1. /\ frame' = frame /\ setup' = setup /\ Pixels' = Pixels /\ Rows' = Rows
      /\ Inside(span) /\ Inside(span)'
  BY DEF config, Pixels, Rows, Places, Inside, span
<1>2. window' = [window EXCEPT !.sc = sc, !.ec = ec] /\ cursor' = <<sc, cursor[2]>>
  BY DEF SetColumns
<1>3. window'.sc = sc /\ window'.ec = ec /\ window'.sp = window.sp /\ window'.ep = window.ep
  BY <1>2, PlacesFacts
<1>4. window'.ec < PanelWidth \/ ClearedEnd'
  BY <1>1, <1>3 DEF ClearedEnd
<1>5. cursor' \in (0..window'.ec) \X Rows
  BY <1>2, <1>3, PlacesFacts
<1>6. spiX' \in -1..frame.width - 1
  <2>1. span.x \in Int /\ span.endX \in Int /\ span.lastScanEndX \in Int /\ frame.width \in Nat
    BY SpanNumbers, PlacesFacts, Numbers
  <2> QED BY <1>1, <2>1 DEF Inside
<1> QED BY <1>1, <1>3, <1>4, <1>5, <1>6 DEF Places

LEMMA NextEndReaches ==
  ASSUME Config, SpansFit, pc # "idle", ~setup.align
  PROVE  NextEndX \in Int /\ span.endX <= NextEndX /\ NextEndX <= frame.width
<1> DEFINE next == {k \in 2..Len(spans) :
                      Multiline(spans[k]) /\ \A m \in 2..k - 1 : ~Multiline(spans[m])}
<1>1. NextEndX \in Int /\ NextEndX <= frame.width
  BY NextEndFits
<1>2. CASE \E k \in next : spans[k].endX >= span.endX
  <2>1. PICK k \in next : spans[k].endX >= span.endX
    BY <1>2
  <2>2. (CHOOSE m \in next : TRUE) \in next
    BY <2>1
  <2>3. \A m \in next : m = k
    BY DEF Multiline
  <2>4. NextEndX = spans[CHOOSE m \in next : TRUE].endX
    BY <1>2, Zenon DEF NextEndX
  <2> HIDE DEF next
  <2>5. NextEndX = spans[k].endX
    BY <2>2, <2>3, <2>4
  <2>6. span.endX \in Int
    BY SpanNumbers
  <2> QED BY <1>1, <2>1, <2>5, <2>6
<1>3. CASE ~\E k \in next : spans[k].endX >= span.endX
  <2>1. NextEndX = frame.width
    BY <1>3, Zenon DEF NextEndX
  <2>2. span.endX <= frame.width
    BY CurrentSpan DEF Box, Widened
  <2> HIDE DEF next
  <2> QED BY <1>1, <2>1, <2>2
<1> QED BY <1>2, <1>3

LEMMA PlacesOfColumns ==
  ASSUME Inv, Places,
         SetColumnsOfMultiline \/ SetColumnsAligned \/ WidenWindow \/ MoveToColumn
  PROVE  Places'
<1>1. /\ Config /\ SpansFit /\ pc = "columns" /\ pc' = "start" /\ Inside(span)
      /\ UNCHANGED <<config, spans, spiY, pixel, differs>>
  BY DEF SetColumnsOfMultiline, SetColumnsAligned, WidenWindow, MoveToColumn, Places, Inv
<1>2. /\ span.x \in Nat /\ span.endX \in Nat /\ span.x < span.endX /\ span.x < frame.width
      /\ Multiline(span) => span.endX <= frame.width
      /\ frame.width \in Nat /\ frame.xOffset \in Nat /\ PanelWidth \in Nat
      /\ frame.xOffset + frame.width <= PanelWidth
  <2>1. Multiline(span) => span.endX <= frame.width
    BY <1>1, CurrentSpan DEF Box, Widened
  <2> QED BY <1>1, <2>1, SpanNumbers, Numbers DEF Inside
<1>3. ASSUME NEW e \in Int, span.x < e, e <= frame.width, SendColumns(span.x, e)
      PROVE  Places'
  <2> DEFINE sc == frame.xOffset + span.x
             ec == frame.xOffset + e - 1
  <2>1. /\ sc \in Int /\ ec \in Int /\ 0 <= sc /\ sc <= ec /\ ec < PanelWidth
        /\ e >= 1
    BY <1>2, <1>3
  <2>2. SetColumns(sc, ec) /\ spiX' = span.x /\ spiEndX' = e
    BY <1>3 DEF SendColumns
  <2> HIDE DEF sc, ec
  <2> QED BY <1>1, <2>1, <2>2, PlacesOfWindow
<1>4. ASSUME UNCHANGED <<controller, spiX, spiEndX>>
      PROVE  Places'
  <2>1. /\ frame' = frame /\ Pixels' = Pixels /\ Rows' = Rows /\ Inside(span)'
        /\ window' = window /\ cursor' = cursor /\ ClearedEnd' = ClearedEnd
    BY <1>1, <1>4 DEF config, Pixels, Rows, Inside, span, controller, ClearedEnd
  <2> QED BY <1>1, <1>4, <2>1 DEF Places
<1>5. CASE SetColumnsOfMultiline
  BY <1>2, <1>3, <1>5 DEF SetColumnsOfMultiline, NeedsExactWindow
<1>6. CASE SetColumnsAligned
  BY <1>2, <1>3, <1>4, <1>6 DEF SetColumnsAligned
<1>7. CASE WidenWindow
  <2>1. SendColumns(span.x, NextEndX)
    BY <1>7 DEF WidenWindow
  <2>2. NextEndX \in Int /\ span.endX <= NextEndX /\ NextEndX <= frame.width
    BY <1>1, <1>7, NextEndReaches DEF WidenWindow
  <2>3. span.x < NextEndX
    BY <1>2, <2>2
  <2> QED BY <1>3, <2>1, <2>2, <2>3
<1>8. CASE MoveToColumn
  <2>1. CASE ~setup.resets \/ spiX # span.x
    <3> DEFINE sc == frame.xOffset + span.x
               ec == IF setup.fullWindow THEN frame.xOffset + spiEndX - 1 ELSE window.ec
    <3>1. /\ SetColumns(sc, ec) /\ spiX' = span.x /\ spiEndX' = spiEndX /\ spiEndX >= span.endX
          /\ ~setup.align
      BY <1>8, <2>1 DEF MoveToColumn
    <3>2. /\ spiEndX \in Int /\ spiEndX <= PanelWidth /\ spiEndX >= 1 /\ window.ec \in Int
          /\ \/ window.ec = frame.xOffset + spiEndX - 1
             \/ spiEndX = PanelWidth /\ window.ec = PanelWidth - 1
      BY PlacesFacts, <1>1 DEF Cache, WindowCacheCoherent, Places
    <3>3. span.endX <= frame.width
      BY <1>1, <3>1, CurrentSpan DEF Box, Widened
    <3>4. sc \in Int /\ ec \in Int /\ 0 <= sc /\ sc <= ec
      BY <1>2, <3>1, <3>2, <3>3
    \* An end that main remembers lies beyond the panel only as ClearScreen has left it.
    <3>5. ec < PanelWidth \/ (/\ setup.fullWindow /\ ~setup.align /\ frame.xOffset > 0
                             /\ spiEndX' = PanelWidth /\ ec = frame.xOffset + PanelWidth - 1)
      <4>1. window.ec < PanelWidth \/ ClearedEnd
        BY DEF Places
      <4>2. CASE setup.fullWindow /\ window.ec = frame.xOffset + spiEndX - 1
        BY <1>2, <3>1, <3>2, <4>1, <4>2 DEF ClearedEnd
      <4>3. CASE setup.fullWindow /\ spiEndX = PanelWidth
        <5>1. ec = frame.xOffset + PanelWidth - 1
          BY <4>3
        <5>2. frame.xOffset = 0 \/ frame.xOffset > 0
          BY <1>2
        <5> HIDE DEF ec
        <5> QED BY <1>2, <3>1, <4>3, <5>1, <5>2
      <4>4. CASE ~setup.fullWindow
        BY <3>1, <4>1, <4>4 DEF ClearedEnd
      <4> QED BY <3>2, <4>2, <4>3, <4>4
    <3> HIDE DEF sc, ec
    <3> QED BY <1>1, <3>1, <3>2, <3>4, <3>5, PlacesOfWindow
  <2>2. CASE ~(~setup.resets \/ spiX # span.x)
    BY <1>4, <1>8, <2>2 DEF MoveToColumn
  <2> QED BY <2>1, <2>2
<1> QED BY <1>5, <1>6, <1>7, <1>8

LEMMA PlacesOfStart ==
  ASSUME Inv, Places, StartPixels
  PROVE  Places'
<1>1. /\ Config /\ SpansFit /\ pc = "start" /\ pc' = "pixels" /\ Inside(span)
      /\ UNCHANGED <<config, spans, cache, window>> /\ pixel' = 0
      /\ frame' = frame /\ Pixels' = Pixels /\ Rows' = Rows /\ ClearedEnd' = ClearedEnd
      /\ cursor' = (IF setup.resets THEN <<window.sc, window.sp>> ELSE cursor)
  BY DEF StartPixels, Places, Inv, config, cache, Pixels, Rows, ClearedEnd
<1>2. /\ span.x \in Nat /\ span.endX \in Nat
      /\ span.y \in Nat /\ span.endY \in Nat /\ span.endY <= frame.height
      /\ frame.width \in Nat /\ frame.xOffset \in Nat /\ PanelWidth \in Nat
      /\ frame.xOffset + frame.width <= PanelWidth
      /\ frame.height \in Nat /\ frame.yOffset \in Nat /\ PanelHeight \in Nat
      /\ frame.yOffset + frame.height <= PanelHeight
  BY <1>1, SpanNumbers, Numbers DEF Inside
<1>3. cursor' \in (0..window'.ec) \X Rows
  <2>1. window.sc \in 0..window.ec /\ window.sp \in Rows /\ window' = window
    BY <1>1, <1>2, PlacesFacts DEF Places, Rows
  <2> QED BY <1>1, <2>1 DEF Places
<1>4. differs' \subseteq Pixels
  <2> SUFFICES ASSUME NEW p \in differs', p \notin differs PROVE p \in Pixels
    BY DEF Places
  <2>1. PICK n \in 0..Size(span) - 1 : p = Target(n) /\ ~Beside(PixelAt(span, n))
    BY DEF StartPixels, Target
  <2>2. PICK r \in Nat, q \in Nat :
          /\ Target(n) = <<frame.xOffset + span.x + r, frame.yOffset + span.y + q>>
          /\ PixelAt(span, n)[1] = span.x + r
          /\ r < span.endX - span.x /\ q <= span.endY - span.y - 1
    BY <1>1, Targets
  <2>3. span.x + r < frame.width
    BY <1>2, <2>1, <2>2 DEF Beside
  <2>4. /\ frame.xOffset + span.x + r \in 0..frame.xOffset + PanelWidth - 1
        /\ frame.yOffset + span.y + q \in Rows
    BY <1>2, <2>2, <2>3 DEF Rows
  <2> QED BY <2>1, <2>2, <2>4 DEF Pixels
<1>5. Inside(span)'
  BY <1>1 DEF Inside, span
<1> QED BY <1>1, <1>3, <1>4, <1>5 DEF Places, cache

\* The controller's cursor stays in the window.
LEMMA PlacesOfWrite ==
  ASSUME Inv, Places, WritePixel
  PROVE  Places'
<1>1. /\ pc = "pixels" /\ pc' = pc /\ Inside(span) /\ pixel' = pixel + 1 /\ cursor' = Advance(cursor)
      /\ UNCHANGED <<config, spans, cache, window>> /\ frame' = frame
      /\ Pixels' = Pixels /\ Rows' = Rows /\ ClearedEnd' = ClearedEnd
      /\ differs' \subseteq differs \cup {cursor}
  BY DEF WritePixel, Places, config, cache, Pixels, Rows, ClearedEnd
<1>2. PanelWidth \in Nat /\ PanelHeight \in Nat /\ frame.xOffset \in Nat
  BY Numbers, PlacesFacts
<1>3. cursor' \in (0..window.ec) \X Rows
  <2>1. /\ cursor[1] \in 0..window.ec /\ cursor[2] \in Rows
        /\ window.sc \in 0..window.ec /\ window.sp \in Rows
        /\ window.ec \in Int /\ window.ep \in Int /\ window.ep < PanelHeight
    BY <1>2, PlacesFacts DEF Places, Rows
  <2>2. CASE cursor[1] < window.ec
    <3>1. cursor' = <<cursor[1] + 1, cursor[2]>>
      BY <1>1, <2>2 DEF Advance
    <3>2. cursor[1] + 1 \in 0..window.ec
      BY <2>1, <2>2, <1>2
    <3> QED BY <2>1, <3>1, <3>2
  <2>3. CASE ~(cursor[1] < window.ec) /\ cursor[2] < window.ep
    <3>1. cursor' = <<window.sc, cursor[2] + 1>>
      BY <1>1, <2>3 DEF Advance
    <3>2. cursor[2] + 1 \in Rows
      BY <2>1, <2>3, <1>2 DEF Rows
    <3> QED BY <2>1, <3>1, <3>2
  <2>4. CASE ~(cursor[1] < window.ec) /\ ~(cursor[2] < window.ep)
    <3>1. cursor' = <<window.sc, window.sp>>
      BY <1>1, <2>4 DEF Advance
    <3> QED BY <2>1, <3>1
  <2> QED BY <2>2, <2>3, <2>4
<1>4. differs' \subseteq Pixels /\ pixel' \in Nat
  <2>1. cursor \in Pixels
    <3>1. cursor[1] \in 0..frame.xOffset + PanelWidth - 1
      BY <1>2, PlacesFacts
    <3> QED BY <3>1, PlacesFacts DEF Pixels
  <2> QED BY <1>1, <2>1 DEF Places
<1>5. Inside(span)'
  BY <1>1 DEF Inside, span
<1> QED BY <1>1, <1>3, <1>4, <1>5 DEF Places, cache

-----------------------------------------------------------------------------
(* Picture: the pixels of a span land where they belong *)

\* A span is in the frame, so what main remembers is not -1 where it is the span's.
LEMMA InFrame ==
  ASSUME WideningFits, Inv, Places, pc # "idle"
  PROVE  /\ Config /\ SpansFit /\ WindowCacheCoherent /\ Inside(span)
         /\ span.x \in Nat /\ span.endX \in Nat /\ span.y \in Nat /\ span.endY \in Nat
         /\ span.lastScanEndX \in Nat
         /\ span.x < span.lastScanEndX /\ span.lastScanEndX <= span.endX /\ span.y < span.endY
         /\ span.endX <= frame.width /\ span.endY <= frame.height
         /\ frame.width \in Nat /\ frame.height \in Nat
         /\ frame.xOffset \in Nat /\ frame.yOffset \in Nat /\ PanelWidth \in Nat
         /\ frame.xOffset + frame.width <= PanelWidth
         /\ spiEndX \in Int
         /\ window.sc \in Int /\ window.ec \in Int /\ window.sp \in Int /\ window.ep \in Int
         /\ frame.yOffset + frame.height - 1 <= window.ep
<1>1. Inside(span) /\ frame.yOffset + frame.height - 1 <= window.ep
  BY DEF Places
<1>2. span.endX <= frame.width
  <2>1. span \in Box /\ Config
    BY CurrentSpan DEF Inv
  <2>2. setup.align => frame.width = Drawable(setup, 1)
    BY <2>1 DEF Config, WideningFits
  <2>3. frame.width \in Nat
    BY <2>1, FrameFits
  <2> QED BY <2>1, <2>2, <2>3 DEF Box, Widened
<1> QED BY <1>1, <1>2, PlacesFacts, SpanNumbers, Numbers DEF Inside, Cache

LEMMA PictureOfRow ==
  ASSUME WideningFits, Inv, Places, Picture, MoveToRow
  PROVE  Picture'
<1>1. /\ pc = "row" /\ pc' = "columns" /\ setup' = setup /\ frame' = frame /\ span' = span
      /\ differs' = differs /\ differs = {}
  BY DEF MoveToRow, Picture, config, span
<1>2. CASE ~setup.resets \/ spiY # span.y
  <2> DEFINE sp == frame.yOffset + span.y
             ep == IF setup.fullWindow \/ setup.align THEN frame.yOffset + frame.height - 1
                                                      ELSE window.ep
  <2>1. window' = [window EXCEPT !.sp = sp, !.ep = ep] /\ cursor' = <<cursor[1], sp>>
    BY <1>2 DEF MoveToRow, SetRows
  <2> HIDE DEF ep
  <2>2. window'.sp = sp /\ cursor'[2] = sp
    BY <2>1, PlacesFacts
  <2> QED BY <1>1, <2>2 DEF Picture, RowSet
<1>3. CASE ~(~setup.resets \/ spiY # span.y)
  <2>1. window' = window /\ spiY = span.y /\ setup.resets
    BY <1>3 DEF MoveToRow, controller
  <2>2. spiY # -1
    BY <1>1, <2>1, InFrame
  <2>3. window.sp = frame.yOffset + span.y
    BY <1>1, <2>1, <2>2, InFrame DEF WindowCacheCoherent
  <2> QED BY <1>1, <2>1, <2>3 DEF Picture, RowSet
<1> QED BY <1>2, <1>3

\* The columns are sent.
LEMMA PictureOfWindow ==
  ASSUME WideningFits, Inv, Places, Picture, pc = "columns", pc' = "start", UNCHANGED <<config, spans, differs>>,
         NEW sc, NEW ec \in Int, SetColumns(sc, ec), sc = frame.xOffset + span.x,
         frame.xOffset + span.endX - 1 <= ec,
         Multiline(span) => ec = frame.xOffset + span.endX - 1
  PROVE  Picture'
<1>1. setup' = setup /\ frame' = frame /\ span' = span /\ differs = {} /\ differs' = differs /\ RowSet
  BY DEF config, span, Picture
<1>2. window' = [window EXCEPT !.sc = sc, !.ec = ec] /\ cursor' = <<sc, cursor[2]>>
  BY DEF SetColumns
<1>3. window'.sc = sc /\ window'.ec = ec /\ window'.sp = window.sp
  BY <1>2, PlacesFacts
<1>4. cursor'[2] = cursor[2]
  BY <1>2
<1>5. RowSet'
  BY <1>1, <1>3, <1>4 DEF RowSet
<1>6. WindowSet'
  BY <1>1, <1>3, <1>5 DEF WindowSet, RowSet, Multiline
<1>7. (~setup.resets => cursor = <<window.sc, window.sp>>)'
  BY <1>1, <1>2, <1>3 DEF RowSet
<1> QED BY <1>1, <1>6, <1>7 DEF Picture

\* Or the controller has them already.
LEMMA PictureOfCache ==
  ASSUME WideningFits, Inv, Places, Picture, pc = "columns", pc' = "start", UNCHANGED <<config, spans, differs>>,
         UNCHANGED controller, setup.resets, spiX = span.x, spiEndX >= span.endX,
         ~NeedsExactWindow
  PROVE  Picture'
<1>1. setup' = setup /\ frame' = frame /\ span' = span /\ differs = {} /\ differs' = differs /\ RowSet
      /\ window' = window
  BY DEF config, span, Picture, controller
<1>2. spiX # -1
  BY InFrame
<1>3. window.sc = frame.xOffset + span.x
  BY <1>2, InFrame DEF WindowCacheCoherent
<1>4. \/ window.ec = frame.xOffset + spiEndX - 1
      \/ spiEndX = PanelWidth /\ window.ec = PanelWidth - 1
  BY InFrame DEF WindowCacheCoherent
<1>5. frame.xOffset + span.endX - 1 <= window.ec
  BY <1>4, InFrame
<1>6. Multiline(span) => window.ec = frame.xOffset + span.endX - 1
  <2> SUFFICES ASSUME Multiline(span) PROVE window.ec = frame.xOffset + span.endX - 1
    OBVIOUS
  <2>1. spiEndX = span.endX
    BY DEF NeedsExactWindow
  <2> QED BY <1>4, <2>1, InFrame
<1> QED BY <1>1, <1>3, <1>5, <1>6 DEF Picture, WindowSet, RowSet, Multiline

LEMMA PictureOfColumns ==
  ASSUME WideningFits, Inv, Places, Picture, ColumnsAlwaysSent,
         SetColumnsOfMultiline \/ SetColumnsAligned \/ WidenWindow \/ MoveToColumn
  PROVE  Picture'
<1>1. pc = "columns" /\ pc' = "start" /\ UNCHANGED <<config, spans, differs>>
  BY DEF SetColumnsOfMultiline, SetColumnsAligned, WidenWindow, MoveToColumn
<1>2. ASSUME NEW e \in Int, span.endX <= e, SendColumns(span.x, e), Multiline(span) => e = span.endX
      PROVE  Picture'
  <2> DEFINE sc == frame.xOffset + span.x
             ec == frame.xOffset + e - 1
  <2>1. /\ ec \in Int /\ frame.xOffset + span.endX - 1 <= ec
        /\ Multiline(span) => ec = frame.xOffset + span.endX - 1
    BY <1>1, <1>2, InFrame
  <2>2. SetColumns(sc, ec) /\ sc = frame.xOffset + span.x
    BY <1>2 DEF SendColumns
  <2> HIDE DEF sc, ec
  <2> QED BY <1>1, <2>1, <2>2, PictureOfWindow
<1>3. CASE SetColumnsOfMultiline
  BY <1>1, <1>2, <1>3, InFrame DEF SetColumnsOfMultiline
\* A multiline span gets here only with the window it needs.
<1>4. ASSUME ~NeedsExactWindow, Multiline(span) PROVE spiX = span.x /\ spiEndX = span.endX
  BY <1>4 DEF NeedsExactWindow
<1>5. CASE SetColumnsAligned /\ (spiX # span.x \/ spiEndX < span.endX)
  <2>1. ~Multiline(span) /\ SendColumns(span.x, frame.width)
    BY <1>1, <1>4, <1>5, InFrame DEF SetColumnsAligned
  <2> QED BY <1>1, <1>2, <2>1, InFrame
<1>6. CASE SetColumnsAligned /\ ~(spiX # span.x \/ spiEndX < span.endX)
  <2>1. setup.resets
    BY <1>6, InFrame, <1>1 DEF SetColumnsAligned, ColumnsAlwaysSent, Config
  <2> QED BY <1>1, <1>6, <2>1, InFrame, PictureOfCache DEF SetColumnsAligned
<1>7. CASE WidenWindow
  <2>1. ~Multiline(span) /\ SendColumns(span.x, NextEndX)
    BY <1>1, <1>4, <1>7, InFrame DEF WidenWindow
  <2>2. NextEndX \in Int /\ span.endX <= NextEndX
    BY <1>1, <1>7, InFrame, NextEndReaches DEF WidenWindow
  <2> QED BY <1>1, <1>2, <2>1, <2>2
<1>8. CASE MoveToColumn /\ (~setup.resets \/ spiX # span.x)
  <2> DEFINE sc == frame.xOffset + span.x
             ec == IF setup.fullWindow THEN frame.xOffset + spiEndX - 1 ELSE window.ec
  <2>1. SetColumns(sc, ec) /\ spiEndX >= span.endX /\ ~NeedsExactWindow
    BY <1>8 DEF MoveToColumn
  <2>2. /\ \/ window.ec = frame.xOffset + spiEndX - 1
           \/ spiEndX = PanelWidth /\ window.ec = PanelWidth - 1
        /\ spiEndX <= PanelWidth
    BY <1>1, InFrame DEF WindowCacheCoherent, Inv, Cache
  <2>3. /\ frame.xOffset \in Nat /\ PanelWidth \in Nat /\ spiEndX \in Int /\ span.endX \in Nat
        /\ frame.xOffset + span.endX <= PanelWidth /\ window.ec \in Int
    BY <1>1, InFrame
  <2>4. ec = frame.xOffset + spiEndX - 1 \/ (spiEndX = PanelWidth /\ ec = PanelWidth - 1)
    BY <2>2
  <2>5. ec \in Int
    BY <2>3, <2>4
  <2> HIDE DEF ec
  <2>6. ec \in Int /\ frame.xOffset + span.endX - 1 <= ec
    BY <2>1, <2>3, <2>4, <2>5
  <2>7. Multiline(span) => ec = frame.xOffset + span.endX - 1
    <3> SUFFICES ASSUME Multiline(span) PROVE ec = frame.xOffset + span.endX - 1
      OBVIOUS
    <3>1. spiEndX = span.endX
      BY <1>4, <2>1
    <3> QED BY <2>3, <2>4, <3>1
  <2> QED BY <1>1, <2>1, <2>6, <2>7, PictureOfWindow
<1>9. CASE MoveToColumn /\ ~(~setup.resets \/ spiX # span.x)
  BY <1>1, <1>9, PictureOfCache DEF MoveToColumn
<1> QED BY <1>3, <1>5, <1>6, <1>7, <1>8, <1>9

LEMMA PictureOfStart ==
  ASSUME WideningFits, Inv, Places, Picture, StartPixels
  PROVE  Picture'
<1>1. /\ pc = "start" /\ pc' = "pixels" /\ setup' = setup /\ frame' = frame /\ span' = span
      /\ window' = window /\ pixel' = 0 /\ differs = {}
      /\ differs' \subseteq {Target(n) : n \in 0..Size(span) - 1}
      /\ cursor' = <<window.sc, window.sp>> /\ WindowSet
  BY DEF StartPixels, config, Picture, span, Target
<1>2. /\ cursor'[1] = frame.xOffset + span.x /\ cursor'[2] = frame.yOffset + span.y
  BY <1>1 DEF WindowSet
<1>3. Size(span) \in Nat
  BY <1>1, SpanSize, InFrame
<1>4. 0 < Size(span) => cursor' = Target(0)
  <2> SUFFICES ASSUME 0 < Size(span) PROVE cursor' = Target(0)
    OBVIOUS
  <2>1. 0 \in 0..Size(span) - 1
    BY <1>3
  <2>2. PICK r \in Nat, q \in Nat :
          /\ r = 0 % (span.endX - span.x) /\ q = 0 \div (span.endX - span.x)
          /\ Target(0) = <<frame.xOffset + span.x + r, frame.yOffset + span.y + q>>
    BY <1>1, <2>1, Targets, InFrame
  <2>3. r = 0 /\ q = 0
    <3>1. span.endX - span.x \in Nat \ {0}
      BY <1>1, InFrame
    <3> QED BY <2>2, <3>1
  <2> QED BY <1>1, <2>2, <2>3, InFrame DEF WindowSet
<1>5. \A n : Target(n)' = Target(n)
  BY <1>1 DEF Target, OnPanel, PixelAt
<1>6. Written'
  BY <1>1, <1>3, <1>4, <1>5 DEF Written, Size
<1>7. WindowSet'
  BY <1>1 DEF WindowSet, RowSet, Multiline
<1> QED BY <1>1, <1>6, <1>7 DEF Picture

\* The controller writes the next pixel where the span has it.
LEMMA NextTarget ==
  ASSUME WideningFits, Inv, Places, pc = "pixels", WindowSet, pixel < Size(span) - 1, cursor = Target(pixel)
  PROVE  Advance(cursor) = Target(pixel + 1)
<1> DEFINE w == span.endX - span.x
           h == span.endY - span.y - 1
<1>1. Size(span) \in Nat /\ pixel \in Nat /\ w \in Nat \ {0} /\ h \in Nat
  BY InFrame, SpanSize DEF Places
<1>2. PICK r \in Nat, q \in Nat :
        /\ r = pixel % w /\ q = pixel \div w
        /\ Target(pixel) = <<frame.xOffset + span.x + r, frame.yOffset + span.y + q>>
        /\ r < w /\ q <= h
        /\ q = h => r < span.lastScanEndX - span.x
  <2>1. pixel \in 0..Size(span) - 1
    BY <1>1
  <2> QED BY <2>1, Targets, InFrame
<1>3. PICK rr \in Nat, qq \in Nat :
        /\ rr = (pixel + 1) % w /\ qq = (pixel + 1) \div w
        /\ Target(pixel + 1) = <<frame.xOffset + span.x + rr, frame.yOffset + span.y + qq>>
        /\ rr < w /\ qq <= h
        /\ qq = h => rr < span.lastScanEndX - span.x
  <2>1. pixel + 1 \in 0..Size(span) - 1
    BY <1>1
  <2> QED BY <2>1, Targets, InFrame
<1>4. /\ r < w - 1 => rr = r + 1 /\ qq = q
      /\ r = w - 1 => rr = 0 /\ qq = q + 1
  <2> HIDE DEF w
  <2> QED BY <1>1, <1>2, <1>3, NextPixel
<1>5. /\ cursor[1] = frame.xOffset + span.x + r /\ cursor[2] = frame.yOffset + span.y + q
      /\ window.sc = frame.xOffset + span.x
      /\ frame.xOffset + span.endX - 1 <= window.ec
      /\ span.endY > span.y + 1 => window.ec = frame.xOffset + span.endX - 1
      /\ frame.yOffset + span.endY - 1 <= window.ep
  <2>1. frame.yOffset + span.endY - 1 <= window.ep
    BY InFrame
  <2> QED BY <1>2, <2>1 DEF WindowSet, Multiline
<1>6. CASE r < w - 1
  <2>1. cursor[1] < window.ec
    BY <1>2, <1>5, <1>6, InFrame
  <2>2. Advance(cursor) = <<cursor[1] + 1, cursor[2]>>
    BY <2>1 DEF Advance
  <2>3. cursor[1] + 1 = frame.xOffset + span.x + rr
    BY <1>4, <1>5, <1>6, InFrame
  <2> QED BY <1>3, <1>4, <1>5, <1>6, <2>2, <2>3
<1>7. CASE r = w - 1
  <2>1. qq = q + 1 /\ rr = 0 /\ q + 1 <= h
    BY <1>3, <1>4, <1>7
  <2>2. span.endY > span.y + 1
    BY <1>2, <2>1, InFrame
  <2>3. ~(cursor[1] < window.ec)
    BY <1>2, <1>5, <1>7, <2>2, InFrame
  <2>4. cursor[2] < window.ep
    BY <1>2, <1>5, <2>1, InFrame
  <2>5. Advance(cursor) = <<window.sc, cursor[2] + 1>>
    BY <2>3, <2>4 DEF Advance
  <2>6. /\ cursor[2] + 1 = frame.yOffset + span.y + qq
        /\ window.sc = frame.xOffset + span.x + rr
    <3>1. /\ frame.xOffset \in Nat /\ frame.yOffset \in Nat /\ span.x \in Nat /\ span.y \in Nat
          /\ q \in Nat
      BY InFrame
    <3>2. cursor[2] = frame.yOffset + span.y + q /\ window.sc = frame.xOffset + span.x
      BY <1>5
    <3> QED BY <2>1, <3>1, <3>2
  <2>7. Target(pixel + 1) = <<frame.xOffset + span.x + rr, frame.yOffset + span.y + qq>>
    BY <1>3
  <2> HIDE DEF w, h
  <2> QED BY <2>5, <2>6, <2>7, Zenon
<1> QED BY <1>1, <1>2, <1>6, <1>7

LEMMA PictureOfWrite ==
  ASSUME WideningFits, Inv, Places, Picture, WritePixel
  PROVE  Picture'
<1>1. /\ pc = "pixels" /\ pc' = "pixels" /\ setup' = setup /\ frame' = frame /\ span' = span
      /\ window' = window /\ pixel' = pixel + 1 /\ cursor' = Advance(cursor) /\ pixel < Size(span)
      /\ WindowSet /\ Written
      /\ ~Beside(PixelAt(span, pixel)) /\ cursor = Target(pixel) => differs' = differs \ {cursor}
  BY DEF WritePixel, config, Picture, span, Target
<1>2. Size(span) \in Nat /\ pixel \in Nat
  BY <1>1, SpanSize, InFrame DEF Places
<1>3. cursor = Target(pixel) /\ differs' = differs \ {cursor}
  <2>1. pixel \in 0..Size(span) - 1
    BY <1>1, <1>2
  <2>2. PICK r \in Nat : PixelAt(span, pixel)[1] = span.x + r /\ r < span.endX - span.x
    BY <1>1, <2>1, Targets, InFrame
  <2>3. ~Beside(PixelAt(span, pixel))
    BY <1>1, <2>2, InFrame DEF Beside
  <2> QED BY <1>1, <2>3 DEF Written
<1>4. pixel' < Size(span) => cursor' = Target(pixel')
  BY <1>1, <1>2, <1>3, NextTarget
<1>5. \A p \in differs' : \E n \in pixel'..Size(span) - 1 : p = Target(n)
  <2> SUFFICES ASSUME NEW p \in differs' PROVE \E n \in pixel'..Size(span) - 1 : p = Target(n)
    OBVIOUS
  <2>1. PICK n \in pixel..Size(span) - 1 : p = Target(n)
    BY <1>1, <1>3 DEF Written
  <2>2. n # pixel
    BY <1>3, <2>1
  <2>3. n \in pixel'..Size(span) - 1
    BY <1>1, <1>2, <2>1, <2>2
  <2> QED BY <2>1, <2>3
<1>6. /\ Size(span)' = Size(span) /\ \A n : Target(n)' = Target(n)
  BY <1>1 DEF Size, Target, OnPanel, PixelAt
<1>7. Written'
  <2>1. pixel' <= Size(span)'
    BY <1>1, <1>2, <1>6
  <2>2. (pixel < Size(span) => cursor = Target(pixel))'
    BY <1>4, <1>6 DEF Target, OnPanel, PixelAt
  <2>3. (\A p \in differs : \E n \in pixel..Size(span) - 1 : p = Target(n))'
    BY <1>5, <1>6
  <2> QED BY <2>1, <2>2, <2>3 DEF Written
<1>8. WindowSet'
  BY <1>1 DEF WindowSet, RowSet, Multiline
<1> QED BY <1>1, <1>7, <1>8 DEF Picture

LEMMA PictureOfSpans ==
  ASSUME WideningFits, Inv, Places, Picture, BeginFrame \/ WidenSpan \/ EndSpan
  PROVE  Picture'
<1>1. pc' \in {"idle", "widen", "row"} /\ differs' = differs
  BY DEF BeginFrame, WidenSpan, EndSpan
<1>2. differs = {}
  <2>1. CASE pc # "pixels"
    BY <2>1 DEF Picture
  <2>2. CASE EndSpan
    <3>1. pc = "pixels" /\ pixel = Size(span)
      BY <2>2 DEF EndSpan
    <3>2. Written /\ pixel \in Nat
      BY <3>1 DEF Picture, Places
    <3>3. ASSUME NEW p \in differs PROVE FALSE
      <4>1. PICK n \in pixel..pixel - 1 : TRUE
        BY <3>1, <3>2, <3>3 DEF Written
      <4> QED BY <3>2, <4>1
    <3> QED BY <3>3
  <2> QED BY <2>1, <2>2 DEF BeginFrame, WidenSpan
<1> QED BY <1>1, <1>2 DEF Picture

-----------------------------------------------------------------------------
(* What follows *)

\* The window and the cursor stay where they belong, and the next pixel of a span is one of the
\* span: in every build, also for the pixel that a span was widened by.
THEOREM PlacesInvariant ==
  ASSUME SpansCanWiden
  PROVE  Spec => [](Inv /\ Places)
<1>1. Init => Places
  BY PlacesInit
<1>2. Inv /\ Places /\ [Next]_vars => Places'
  <2> SUFFICES ASSUME Inv, Places, [Next]_vars PROVE Places'
    OBVIOUS
  <2>1. CASE BeginFrame \/ WidenSpan \/ EndSpan
    BY <2>1, PlacesOfSpans
  <2>2. CASE MoveToRow
    BY <2>2, PlacesOfRow
  <2>3. CASE SetColumnsOfMultiline \/ SetColumnsAligned \/ WidenWindow \/ MoveToColumn
    BY <2>3, PlacesOfColumns
  <2>4. CASE StartPixels
    BY <2>4, PlacesOfStart
  <2>5. CASE WritePixel
    BY <2>5, PlacesOfWrite
  <2>6. CASE UNCHANGED vars
    BY <2>6 DEF vars, config, cache, controller, Places, Inside, span, Pixels, Rows, ClearedEnd
  <2> QED BY <2>1, <2>2, <2>3, <2>4, <2>5, <2>6 DEF Next
<1> QED BY <1>1, <1>2, WindowInvariant, PTL DEF Spec

\* The frame lies on what is not covered, no window that main sends is empty, and none reaches
\* beyond the panel but the first of a full-window build whose frame begins right of column 0:
\* for every panel and every GPU display of which the frame keeps a pixel, in every build.
THEOREM TypeCorrect ==
  ASSUME FramesHavePixels, SpansCanWiden
  PROVE  Spec => []TypeOK
<1>1. Inv /\ Places => TypeOK
  <2> SUFFICES ASSUME Inv, Places PROVE TypeOK
    OBVIOUS
  <2>1. Config /\ setup \in Setups
    BY DEF Inv, Config
  <2>2. frame.width > 0 /\ frame.height > 0
    <3>1. Scaled(setup, 1) > 0 /\ Scaled(setup, 2) > 0
      BY <2>1 DEF FramesHavePixels, Axes
    <3> QED BY <2>1, <3>1 DEF Config, FrameOf
  <2>3. spiEndX \in 1..PanelWidth
    BY <2>1, Numbers DEF Inv, Cache, Places
  <2> QED BY <2>1, <2>2, <2>3, Numbers DEF TypeOK, Places, Pixels, Rows
<1> QED BY <1>1, PlacesInvariant, PTL

\* When the spans of a frame are sent the display shows framebuffer[1], pixel by pixel: whatever
\* windows earlier spans and frames have left, the controller puts each pixel where its span
\* has it.  It is a theorem of the builds that widen no span beyond the frame (WideningFits) and
\* send a controller that keeps its cursor the columns of every span (ColumnsAlwaysSent): the
\* code does not see to either, and without one of them there is a wrong pixel.
THEOREM PixelsLand ==
  ASSUME SpansCanWiden, WideningFits, ColumnsAlwaysSent
  PROVE  Spec => []DisplayShowsBuffer1
<1>1. Init => Picture
  BY DEF Init, Picture
<1>2. Inv /\ Places /\ Picture /\ [Next]_vars => Picture'
  <2> SUFFICES ASSUME Inv, Places, Picture, [Next]_vars PROVE Picture'
    OBVIOUS
  <2>1. CASE BeginFrame \/ WidenSpan \/ EndSpan
    BY <2>1, PictureOfSpans
  <2>2. CASE MoveToRow
    BY <2>2, PictureOfRow
  <2>3. CASE SetColumnsOfMultiline \/ SetColumnsAligned \/ WidenWindow \/ MoveToColumn
    BY <2>3, PictureOfColumns
  <2>4. CASE StartPixels
    BY <2>4, PictureOfStart
  <2>5. CASE WritePixel
    BY <2>5, PictureOfWrite
  <2>6. CASE UNCHANGED vars
    BY <2>6 DEF vars, config, controller, Picture, RowSet, WindowSet, Written, Target, OnPanel,
                PixelAt, Size, Multiline, span
  <2> QED BY <2>1, <2>2, <2>3, <2>4, <2>5, <2>6 DEF Next
<1>3. Picture => DisplayShowsBuffer1
  BY DEF Picture, DisplayShowsBuffer1
<1> QED BY <1>1, <1>2, <1>3, PlacesInvariant, PTL DEF Spec
=============================================================================
