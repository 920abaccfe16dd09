------------------------------ MODULE SpanDiff ------------------------------
(***************************************************************************)
(* Which pixels of a frame are sent: diff.cpp compares framebuffer[0] with *)
(* framebuffer[1] scanline by scanline and collects spans of changed       *)
(* pixels, exactly (DiffFramebuffersToScanlineSpansExact) or in groups of  *)
(* pixels compared at once (...FastAndCoarse4Wide); in a progressive       *)
(* update MergeScanlineSpanList then joins spans that are close.           *)
(* ALL_TASKS_SHOULD_DMA always takes the exact spans, unless it is built   *)
(* with UPDATE_FRAMES_IN_SINGLE_RECTANGULAR_DIFF: then it sends one        *)
(* rectangle around the changes (DiffFramebuffersToSingleChangedRectangle, *)
(* by scanlines or, if they are one behind the other in memory, linearly), *)
(* or with UPDATE_FRAMES_WITHOUT_DIFFING: then it sends the whole frame.   *)
(*                                                                         *)
(* Of the two framebuffers only the set of positions where they differ     *)
(* matters.  A position is <<column, row>>.                                *)
(***************************************************************************)
EXTENDS Integers, Sequences, FiniteSets

CONSTANTS
  FrameWidth,     \* gpuFrameWidth
  FrameHeight,    \* gpuFrameHeight
  Threshold,      \* SPAN_MERGE_THRESHOLD
  MaxTaskPixels,  \* MAX_SPI_TASK_SIZE, in pixels
  Group,          \* pixels that the coarse methods compare at once: 4, 8
  Align,          \* pixels of a cache line, to which rectangles are aligned: 16
  BehindMayDiffer \* may the two words behind the framebuffers differ?

\* MAX_SPI_TASK_SIZE is far more than a scanline.
ASSUME DiffAssumption ==
  /\ FrameWidth \in Nat \ {0} /\ FrameHeight \in Nat \ {0}
  /\ Threshold \in Nat
  /\ MaxTaskPixels \in Nat /\ FrameWidth <= MaxTaskPixels
  /\ Group \in Nat \ {0} /\ Align \in Nat \ {0} /\ Align % Group = 0
  /\ BehindMayDiffer \in BOOLEAN

VARIABLES
  changed, interlaced, parity, method,  \* the input: it stays as it is
  behind,            \* the words behind the framebuffers differ
  pc,
  y, x,              \* the place the scan has reached
  start, end,        \* the span that is being extended
  unchanged,         \* numConsecutiveUnchangedPixels
  box,               \* minX, minY, maxX, maxY: first and last changed pixel
  spans,             \* the list, in the order of the next pointers
  i, j               \* the two spans MergeScanlineSpanList looks at

input == <<changed, interlaced, parity, method, behind>>
scan  == <<y, x, start, end, unchanged>>
vars  == <<input, pc, scan, box, spans, i, j>>

Columns == 0..FrameWidth - 1
Rows == 0..FrameHeight - 1
Positions == Columns \X Rows

Span == [x : Nat, endX : Nat, y : Nat, endY : Nat, lastScanEndX : Nat, size : Nat]

\* "Specifies a box of width [x, endX[ * [y, endY[, where scanline endY-1 can be
\* partial, and ends in lastScanEndX."
Contains(s, p) ==
  /\ s.x <= p[1] /\ s.y <= p[2] /\ p[2] < s.endY
  /\ p[1] < (IF p[2] = s.endY - 1 THEN s.lastScanEndX ELSE s.endX)

Least(a, b) == IF a <= b THEN a ELSE b
Greatest(a, b) == IF a >= b THEN a ELSE b

AllMethods == {"exact", "coarse", "lines", "linear", "frame"}

\* Which methods a frame of this size allows.
Methods ==
  {"exact", "lines", "frame"} \cup (IF FrameWidth % Group = 0 THEN {"coarse"} ELSE {})
                            \cup (IF FrameWidth % Align = 0 THEN {"linear"} ELSE {})

Rectangle == method \in {"lines", "linear", "frame"}

Init ==
  /\ changed \in SUBSET Positions
  /\ method \in Methods
  /\ interlaced \in IF Rectangle THEN {FALSE} ELSE BOOLEAN
  /\ parity \in IF interlaced THEN 0..1 ELSE {0}
  /\ behind \in IF method = "linear" /\ BehindMayDiffer THEN BOOLEAN ELSE {FALSE}
  /\ pc = (IF Rectangle THEN method ELSE "line")
  /\ box = [minX |-> 0, minY |-> 0, maxX |-> 0, maxY |-> 0]
  /\ y = (IF interlaced THEN parity ELSE 0) /\ x = 0
  /\ start = 0 /\ end = 0 /\ unchanged = 0
  /\ spans = <<>> /\ i = 1 /\ j = 2

-----------------------------------------------------------------------------
(* The methods that go by scanlines: the loop over them *)

NextLine ==
  /\ pc = "line"
  /\ pc' = IF y < FrameHeight THEN "scan" ELSE IF interlaced THEN "done" ELSE "merge"
  /\ UNCHANGED <<input, box, scan, spans, i, j>>

\* A bug: an interlaced update goes on with the next scanline.
EndLineProgressive ==
  /\ pc = "scan" /\ x >= FrameWidth
  /\ y' = y + 1 /\ x' = 0
  /\ pc' = "line"
  /\ UNCHANGED <<input, box, start, end, unchanged, spans, i, j>>

EndLine ==
  /\ pc = "scan" /\ x >= FrameWidth
  /\ y' = y + (IF interlaced THEN 2 ELSE 1) /\ x' = 0
  /\ pc' = "line"
  /\ UNCHANGED <<input, box, start, end, unchanged, spans, i, j>>

\* "Submit the span update task"
EmitSpan ==
  /\ pc = "emit"
  /\ spans' = Append(spans, [x |-> start, endX |-> end, lastScanEndX |-> end,
                             y |-> y, endY |-> y + 1, size |-> end - start])
  /\ pc' = "scan"
  /\ UNCHANGED <<input, box, scan, i, j>>

-----------------------------------------------------------------------------
(* DiffFramebuffersToScanlineSpansExact *)

Changed(column) == <<column, y>> \in changed

\* Two pixels at a time.  The test for an unchanged first pixel, diff & 0xFFFF == 0,
\* compares first and is never true: a span starts with the pair.
ScanPair ==
  /\ pc = "scan" /\ method = "exact" /\ x + 1 < FrameWidth
  /\ x' = x + 2
  /\ IF Changed(x) \/ Changed(x + 1)
       THEN /\ start' = x
            /\ IF Changed(x + 1)
                 THEN end' = x + 2 /\ unchanged' = 0
                 ELSE end' = x + 1 /\ unchanged' = 1
            /\ pc' = "extend"
       ELSE UNCHANGED <<start, end, unchanged, pc>>
  /\ UNCHANGED <<input, box, y, spans, i, j>>

\* The span goes on over at most Threshold pixels without a change.
ExtendSpan ==
  /\ pc = "extend" /\ method = "exact"
  /\ IF x >= FrameWidth
       THEN pc' = "emit" /\ UNCHANGED <<x, end, unchanged>>
       ELSE /\ x' = x + 1
            /\ IF Changed(x)
                 THEN end' = x + 1 /\ unchanged' = 0 /\ pc' = "extend"
                 ELSE /\ unchanged' = unchanged + 1
                      /\ pc' = IF unchanged' > Threshold THEN "emit" ELSE "extend"
                      /\ UNCHANGED end
  /\ UNCHANGED <<input, box, y, start, spans, i, j>>

\* "handle the single last pixel on the row"
ScanLastPixel ==
  /\ pc = "scan" /\ method = "exact" /\ x + 1 = FrameWidth
  /\ x' = x + 1
  /\ IF Changed(x)
       THEN start' = x /\ end' = x + 1 /\ pc' = "emit"
       ELSE UNCHANGED <<start, end, pc>>
  /\ UNCHANGED <<input, box, y, unchanged, spans, i, j>>

-----------------------------------------------------------------------------
(* DiffFramebuffersToScanlineSpansFastAndCoarse4Wide *)

ChangedInGroup(column) == {c \in column..column + Group - 1 : Changed(c)}
First(columns) == CHOOSE c \in columns : \A d \in columns : c <= d
Last(columns) == CHOOSE c \in columns : \A d \in columns : d <= c

\* A span starts with the first changed pixel of a group.
ScanGroup ==
  /\ pc = "scan" /\ method = "coarse" /\ x < FrameWidth
  /\ x' = x + Group
  /\ IF ChangedInGroup(x) # {}
       THEN start' = First(ChangedInGroup(x)) /\ pc' = "extend"
       ELSE UNCHANGED <<start, pc>>
  /\ UNCHANGED <<input, box, y, end, unchanged, spans, i, j>>

\* It ends with a group that has not changed, one pixel after the last that has, or with
\* the scanline.
ExtendByGroup ==
  /\ pc = "extend" /\ method = "coarse"
  /\ IF x >= FrameWidth
       THEN end' = FrameWidth /\ pc' = "emit" /\ UNCHANGED x
       ELSE /\ x' = x + Group
            /\ IF ChangedInGroup(x) # {}
                 THEN UNCHANGED <<end, pc>>
                 ELSE end' = Last(ChangedInGroup(x - Group)) + 2 /\ pc' = "emit"
  /\ UNCHANGED <<input, box, y, start, unchanged, spans, i, j>>

-----------------------------------------------------------------------------
(* NoDiffChangedRectangle and DiffFramebuffersToSingleChangedRectangle *)

EmitFrame ==
  /\ pc = "frame"
  /\ spans' = <<[x |-> 0, endX |-> FrameWidth, lastScanEndX |-> FrameWidth, y |-> 0,
                 endY |-> FrameHeight, size |-> FrameWidth * FrameHeight]>>
  /\ pc' = "done"
  /\ UNCHANGED <<input, box, scan, i, j>>

ChangedInLine == {c \in Columns : Changed(c)}

\* "found_top": the first changed pixel, scanline by scanline.
FindTop ==
  /\ pc = "lines"
  /\ IF y = FrameHeight THEN pc' = "done" /\ UNCHANGED <<box, y>>
     ELSE IF ChangedInLine = {} THEN y' = y + 1 /\ UNCHANGED <<box, pc>>
     ELSE /\ box' = [box EXCEPT !.minX = First(ChangedInLine), !.minY = y]
          /\ y' = FrameHeight - 1
          /\ pc' = "bottom"
  /\ UNCHANGED <<input, x, start, end, unchanged, spans, i, j>>

\* "found_bottom": the last one, upwards.
FindBottom ==
  /\ pc = "bottom"
  /\ IF ChangedInLine = {} THEN y' = y - 1 /\ UNCHANGED <<box, pc>>
     ELSE /\ box' = [box EXCEPT !.maxX = Last(ChangedInLine), !.maxY = y]
          /\ pc' = "sides" /\ UNCHANGED y
  /\ UNCHANGED <<input, x, start, end, unchanged, spans, i, j>>

NumPixels == FrameWidth * FrameHeight
ChangedAt(n) == IF n = NumPixels THEN behind ELSE <<n % FrameWidth, n \div FrameWidth>> \in changed
ChangedFrom(n) == {m \in n..n + Group - 1 : ChangedAt(m)}

\* coarse_linear_diff, and the precise search in the group it returns.
FindFirst ==
  /\ pc = "linear"
  /\ IF x = NumPixels THEN pc' = "done" /\ UNCHANGED <<box, x>>
     ELSE IF ChangedFrom(x) = {} THEN x' = x + Group /\ UNCHANGED <<box, pc>>
     ELSE /\ box' = [box EXCEPT !.minX = First(ChangedFrom(x)) % FrameWidth,
                                !.minY = First(ChangedFrom(x)) \div FrameWidth]
          /\ x' = NumPixels
          /\ pc' = "last"
  /\ UNCHANGED <<input, y, start, end, unchanged, spans, i, j>>

\* coarse_backwards_linear_diff: back over the groups without a change.
SkipGroupBack ==
  /\ pc = "last"
  /\ IF ChangedFrom(x - Group) = {} THEN x' = x - Group /\ UNCHANGED pc
                                    ELSE pc' = "precise" /\ UNCHANGED x
  /\ UNCHANGED <<input, box, y, start, end, unchanged, spans, i, j>>

\* It returns the end of the group: the precise search starts with the pixel behind it, which
\* after the last group is behind the framebuffers.
FindLast ==
  LET last == Last({m \in 0..x : ChangedAt(m)}) IN
  /\ pc = "precise"
  /\ box' = [box EXCEPT !.maxX = last % FrameWidth, !.maxY = last \div FrameWidth]
  /\ pc' = "sides"
  /\ UNCHANGED <<input, x, y, start, end, unchanged, spans, i, j>>

ChangedColumns == {p[1] : p \in {q \in changed : q[2] \in box.minY..box.maxY}}

\* "found_left", "found_right": left and right of the two pixels others may have changed.
FindSides ==
  LET left == Least(box.minX, box.maxX)
      right == Greatest(box.minX, box.maxX)
  IN  /\ pc = "sides"
      /\ start' = First({left} \cup {c \in ChangedColumns : c < left})
      /\ end' = 1 + Last({right} \cup {c \in ChangedColumns : c > right})
      /\ pc' = "align"
      /\ UNCHANGED <<input, box, y, x, unchanged, spans, i, j>>

AlignDown(n) == Align * (n \div Align)
AlignUp(n) == AlignDown(n + Align - 1)

\* ALIGN_DIFF_TASKS_FOR_32B_CACHE_LINES, which config.h always defines.
EmitRectangle ==
  LET x0 == AlignDown(start)
      x1 == Least(FrameWidth, AlignUp(end))
      last == AlignUp(box.maxX + 1)
  IN  /\ pc = "align"
      /\ spans' = <<[x |-> x0, endX |-> x1, lastScanEndX |-> last,
                     y |-> box.minY, endY |-> box.maxY + 1,
                     size |-> (x1 - x0) * (box.maxY - box.minY) + (last - x0)]>>
      /\ pc' = "done"
      /\ UNCHANGED <<input, box, scan, i, j>>

-----------------------------------------------------------------------------
(* MergeScanlineSpanList *)

\* A bug: of two spans that end on the same scanline, the end of the first is taken.
LastScanEndFirst(s, t) == IF t.endY > s.endY THEN t.lastScanEndX ELSE s.lastScanEndX

\* The end of the last scanline, of the span that reaches further down.
LastScanEnd(s, t) ==
  IF t.endY > s.endY THEN t.lastScanEndX
  ELSE IF s.endY > t.endY THEN s.lastScanEndX
  ELSE Greatest(s.lastScanEndX, t.lastScanEndX)

\* A bug: the size is that of the whole box.
MergedWholeBox(s, t) ==
  LET x0 == Least(s.x, t.x)
      y0 == Least(s.y, t.y)
      x1 == Greatest(s.endX, t.endX)
      y1 == Greatest(s.endY, t.endY)
  IN  [x |-> x0, y |-> y0, endX |-> x1, endY |-> y1, lastScanEndX |-> LastScanEnd(s, t),
       size |-> (x1 - x0) * (y1 - y0)]

\* The smallest span that contains both.
Merged(s, t) ==
  LET x0 == Least(s.x, t.x)
      y0 == Least(s.y, t.y)
      x1 == Greatest(s.endX, t.endX)
      y1 == Greatest(s.endY, t.endY)
      last == LastScanEnd(s, t)
  IN  [x |-> x0, y |-> y0, endX |-> x1, endY |-> y1, lastScanEndX |-> last,
       size |-> (x1 - x0) * (y1 - y0 - 1) + (last - x0)]

\* Merging may waste Threshold pixels and must not make a task too large.
WorthMerging(s, t) ==
  /\ Merged(s, t).size - s.size - t.size <= Threshold
  /\ Merged(s, t).size <= MaxTaskPixels

\* list[a] becomes s, list[b] is unlinked.
Unlink(list, a, b, s) ==
  [k \in 1..Len(list) - 1 |-> IF k = a THEN s ELSE IF k < b THEN list[k] ELSE list[k + 1]]

\* The loop over j goes on to the end of the list, or up to a span that lies further down.
InnerLoop == i <= Len(spans) /\ j <= Len(spans) /\ spans[j].y <= spans[i].endY

\* A bug: the tasks may become as large as they want.
MergePairUnbounded ==
  /\ pc = "merge" /\ InnerLoop
  /\ Merged(spans[i], spans[j]).size - spans[i].size - spans[j].size <= Threshold
  /\ spans' = Unlink(spans, i, j, Merged(spans[i], spans[j]))
  /\ UNCHANGED <<input, box, pc, scan, i, j>>

\* A bug: the span that was merged stays in the list.
MergePairKeepsBoth ==
  /\ pc = "merge" /\ InnerLoop
  /\ WorthMerging(spans[i], spans[j])
  /\ spans' = [spans EXCEPT ![i] = Merged(spans[i], spans[j])]
  /\ UNCHANGED <<input, box, pc, scan, i, j>>

\* spans[i] takes in spans[j]; j moves on to the span behind it.
MergePair ==
  /\ pc = "merge" /\ InnerLoop
  /\ WorthMerging(spans[i], spans[j])
  /\ spans' = Unlink(spans, i, j, Merged(spans[i], spans[j]))
  /\ UNCHANGED <<input, box, pc, scan, i, j>>

KeepPair ==
  /\ pc = "merge" /\ InnerLoop
  /\ ~WorthMerging(spans[i], spans[j])
  /\ j' = j + 1
  /\ UNCHANGED <<input, box, pc, scan, spans, i>>

\* A bug: the inner loop starts with the span itself.
NextSpanSame ==
  /\ pc = "merge" /\ i <= Len(spans) /\ ~InnerLoop
  /\ i' = i + 1 /\ j' = i + 1
  /\ UNCHANGED <<input, box, pc, scan, spans>>

NextSpan ==
  /\ pc = "merge" /\ i <= Len(spans) /\ ~InnerLoop
  /\ i' = i + 1 /\ j' = i + 2
  /\ UNCHANGED <<input, box, pc, scan, spans>>

EndMerge ==
  /\ pc = "merge" /\ i > Len(spans)
  /\ pc' = "done"
  /\ UNCHANGED <<input, box, scan, spans, i, j>>

-----------------------------------------------------------------------------
Next ==
  \/ NextLine \/ EndLine \/ EmitSpan
  \/ ScanPair \/ ExtendSpan \/ ScanLastPixel
  \/ ScanGroup \/ ExtendByGroup
  \/ EmitFrame \/ FindTop \/ FindBottom \/ FindFirst \/ SkipGroupBack \/ FindLast
  \/ FindSides \/ EmitRectangle
  \/ MergePair \/ KeepPair \/ NextSpan \/ EndMerge
  \/ (pc = "done" /\ UNCHANGED vars)

Spec == Init /\ [][Next]_vars

\* One thread, which goes on.
FairSpec == Spec /\ WF_vars(Next)

-----------------------------------------------------------------------------
(* Properties *)

\* Types; the index of the span that is merged into never leaves the list by more than one.
TypeOK ==
  /\ changed \subseteq Positions
  /\ interlaced \in BOOLEAN /\ parity \in 0..1 /\ method \in AllMethods /\ behind \in BOOLEAN
  /\ pc \in {"line", "scan", "extend", "emit", "merge", "lines", "bottom", "linear", "last",
            "precise", "frame", "sides", "align", "done"}
  /\ y \in Nat /\ x \in Nat /\ start \in Nat /\ end \in Nat /\ unchanged \in Nat
  /\ spans \in Seq(Span)
  /\ i \in 1..Len(spans) + 1 /\ j \in Nat /\ i < j

InField(row) == interlaced => row % 2 = parity

\* From the end of the scan on, through any sequence of merges, every changed pixel of the
\* scanlines that are updated is in a span: none is lost in the groups, at the end of an
\* odd scanline, behind a span that was ended, or to a span that was unlinked.
ChangesCovered ==
  pc \in {"merge", "done"} =>
    \A p \in changed : InField(p[2]) => \E k \in 1..Len(spans) : Contains(spans[k], p)

\* A span is a box within the frame, and as large as its size says: main allocates a task
\* of that size and fills it with the pixels of the box.
WellFormed(s) ==
  /\ s.x < s.endX /\ s.endX <= FrameWidth
  /\ s.y < s.endY /\ s.endY <= FrameHeight
  /\ s.x < s.lastScanEndX /\ s.lastScanEndX <= s.endX
  /\ s.size = Cardinality({p \in Positions : Contains(s, p)})

SpansWellFormed ==
  \A k \in 1..Len(spans) :
    WellFormed(spans[k]) /\ (Rectangle \/ spans[k].size <= MaxTaskPixels)

\* "(the list is nondecreasing with respect to Span::y)", which lets the merging stop early.
\* An interlaced update touches only the scanlines of its field, one at a time.
SpansInOrder ==
  /\ \A k \in 1..Len(spans) - 1 : spans[k].y <= spans[k + 1].y
  /\ interlaced =>
       \A k \in 1..Len(spans) : spans[k].endY = spans[k].y + 1 /\ InField(spans[k].y)

\* The loops end, those of the merging with their moving pointers included.
DiffEnds == <>(pc = "done")

\* "Specifies a box of width [x, endX[ * [y, endY[, where scanline endY-1 can be partial, and
\* ends in lastScanEndX": also a rectangle that was aligned to cache lines.
RectanglesWellFormed == Rectangle => \A k \in 1..Len(spans) : WellFormed(spans[k])
=============================================================================
