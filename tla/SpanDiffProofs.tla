--------------------------- MODULE SpanDiffProofs ---------------------------
(***************************************************************************)
(* TLAPS proofs about SpanDiff, for frames of any size with any set of     *)
(* changed pixels: the scans lose no changed pixel, merging loses no span, *)
(* and a span is as large as its size says.                                *)
(*                                                                         *)
(* The invariant has a half for the methods that go by scanlines           *)
(* (LinesInv) and one for those that send a single rectangle (RectInv): a  *)
(* step of one half leaves the other alone.                                *)
(***************************************************************************)
EXTENDS SpanDiff, FiniteSetTheorems, WellFoundedInduction, TLAPS

Covered(p) == \E k \in 1..Len(spans) : Contains(spans[k], p)

\* What WellFormed says of a span, with its size in numbers.
Sized(s) ==
  /\ s.x < s.endX /\ s.endX <= FrameWidth
  /\ s.y < s.endY /\ s.endY <= FrameHeight
  /\ s.x < s.lastScanEndX /\ s.lastScanEndX <= s.endX
  /\ s.size = (s.endX - s.x) * (s.endY - s.y - 1) + (s.lastScanEndX - s.x)

Input ==
  /\ changed \subseteq Positions /\ method \in Methods
  /\ interlaced \in BOOLEAN /\ parity \in 0..1 /\ behind \in BOOLEAN
  /\ Rectangle => ~interlaced
  /\ behind => BehindMayDiffer

-----------------------------------------------------------------------------
(* The methods that go by scanlines *)

\* SpansInOrder follows from the order of any two spans.
Ordered(list) == \A k, l \in 1..Len(list) : k < l => list[k].y <= list[l].y

SpanList ==
  /\ \A k \in 1..Len(spans) :
       /\ Sized(spans[k]) /\ spans[k].size <= MaxTaskPixels
       /\ interlaced => spans[k].endY = spans[k].y + 1 /\ InField(spans[k].y)
  /\ Ordered(spans)

Scanning == pc \in {"line", "scan", "extend", "emit"}

\* Everything before the place the scan has reached is in a span ...
RowsDone == \A p \in changed : p[2] < y /\ InField(p[2]) => Covered(p)
ColumnsDone(n) == \A c \in 0..n - 1 : Changed(c) => Covered(<<c, y>>)

\* ... or in the span that is being extended.
InSpan == \A c \in start..x - 1 : Changed(c) => c < end

Here ==
  /\ pc = "scan" => ColumnsDone(x)
  /\ pc = "extend" =>
       /\ ColumnsDone(start) /\ start < x
       /\ method = "exact" => start < end /\ end <= x /\ InSpan
       /\ method = "coarse" => Group <= x /\ \E c \in ChangedInGroup(x - Group) : start <= c
  /\ pc = "emit" => ColumnsDone(start) /\ start < end /\ end <= FrameWidth /\ InSpan

Scan ==
  /\ Scanning =>
       /\ x <= FrameWidth /\ (method = "coarse" => x % Group = 0)
       /\ i = 1 /\ InField(y) /\ RowsDone
       /\ \A k \in 1..Len(spans) : spans[k].y <= y
  /\ pc = "line" => x = 0
  /\ Scanning /\ pc # "line" => y < FrameHeight
  /\ Here

LinesInv ==
  /\ Scanning \/ pc = "merge" \/ pc = "done"
  /\ SpanList /\ Scan
  /\ pc = "merge" => ~interlaced
  /\ ~Scanning => \A p \in changed : InField(p[2]) => Covered(p)

-----------------------------------------------------------------------------
(* The methods that send a single rectangle *)

TopFound == <<box.minX, box.minY>> \in changed /\ \A p \in changed : box.minY <= p[2]

\* The words behind the framebuffers count as a pixel below the frame.
Bounded ==
  /\ box.minX \in Columns /\ box.minY \in Rows /\ box.maxX \in Columns
  /\ box.minY <= box.maxY /\ (behind \/ box.maxY < FrameHeight)
  /\ \A p \in changed : /\ box.minY <= p[2] /\ p[2] <= box.maxY
                        /\ p[2] = box.maxY => p[1] <= box.maxX

\* Rows of memory: pixel n, and the pixels n..m.
PixelAt(p) == p[2] * FrameWidth + p[1]
Same(n, m) == \A k \in n..m : ~ChangedAt(k)

Exact(s) == FrameWidth % Align = 0 /\ ~behind => Sized(s)

RectInv ==
  /\ pc \in {"lines", "bottom", "linear", "last", "precise", "frame", "sides", "align", "done"}
  /\ box \in [minX : Nat, minY : Nat, maxX : Nat, maxY : Nat]
  /\ pc # "done" => spans = <<>> /\ i = 1
  /\ pc = "lines" => y <= FrameHeight /\ \A p \in changed : y <= p[2]
  /\ pc = "bottom" => /\ TopFound /\ box.minY <= y /\ y < FrameHeight
                      /\ \A p \in changed : p[2] <= y
  /\ pc \in {"linear", "last", "precise"} => /\ FrameWidth % Align = 0
                                             /\ x <= NumPixels /\ x % Group = 0
  /\ pc = "linear" => Same(0, x - 1)
  /\ pc \in {"last", "precise"} => /\ TopFound /\ PixelAt(<<box.minX, box.minY>>) < x
                                   /\ Same(x, NumPixels - 1)
  /\ pc \in {"sides", "align"} => Bounded
  /\ pc = "align" => /\ start <= box.maxX /\ box.maxX < end /\ end <= FrameWidth
                     /\ \A p \in changed : start <= p[1] /\ p[1] < end
  /\ pc = "done" => \/ spans = <<>> /\ changed = {}
                    \/ /\ Len(spans) = 1 /\ Exact(spans[1])
                       /\ \A p \in changed : Contains(spans[1], p)

IInv == /\ TypeOK /\ Input
        /\ ~Rectangle => LinesInv
        /\ Rectangle => RectInv

-----------------------------------------------------------------------------
(* Least and greatest elements *)

LEMMA LeastNat ==
  ASSUME NEW S, S \subseteq Nat, S # {}
  PROVE  \E c \in S : \A d \in S : c <= d
<1>1. PICK c \in S : \A d \in S : <<d, c>> \notin OpToRel(<, Nat)
  BY WFMin, NatLessThanWellFounded, Zenon
<1>2. \A d \in S : ~(d < c)
  BY <1>1 DEF OpToRel
<1> QED BY <1>2

LEMMA FirstIsLeast ==
  ASSUME NEW S, S \subseteq Nat, S # {}
  PROVE  First(S) \in S /\ \A d \in S : First(S) <= d
BY LeastNat, Zenon DEF First

LEMMA LastIsGreatest ==
  ASSUME NEW S, S \subseteq Nat, S # {}, NEW b \in Nat, \A d \in S : d <= b
  PROVE  Last(S) \in S /\ \A d \in S : d <= Last(S)
<1> DEFINE R == {b - d : d \in S}
<1>1. R \subseteq Nat /\ R # {}
  <2>1. PICK d \in S : TRUE
    OBVIOUS
  <2>2. b - d \in R
    OBVIOUS
  <2> QED BY <2>2
<1>2. PICK r \in R : \A d \in R : r <= d
  BY <1>1, LeastNat
<1>3. PICK c \in S : r = b - c
  OBVIOUS
<1>4. \A d \in S : d <= c
  BY <1>2, <1>3
<1> QED BY <1>3, <1>4, Zenon DEF Last

-----------------------------------------------------------------------------
(* The size of a span *)

LEMMA SizeOfInterval ==
  ASSUME NEW a \in Int, NEW b \in Int, a <= b
  PROVE  IsFiniteSet(a..b - 1) /\ Cardinality(a..b - 1) = b - a
<1> DEFINE S == a..b - 1
<1>1. IsFiniteSet(S) /\ Cardinality(S) = IF a > b - 1 THEN 0 ELSE (b - 1) - a + 1
  BY FS_Interval, b - 1 \in Int
<1> HIDE DEF S
<1>2. IsFiniteSet(S) /\ Cardinality(S) = b - a
  BY <1>1
<1> QED BY <1>2 DEF S

\* The full scanlines, and the last one.
PixelsOf(x0, x1, y0, y1, last) ==
  ((x0..x1 - 1) \X (y0..y1 - 2)) \cup ((x0..last - 1) \X {y1 - 1})

LEMMA SizeOfSpan ==
  ASSUME NEW x0 \in Nat, NEW x1 \in Nat, NEW y0 \in Nat, NEW y1 \in Nat, NEW last \in Nat,
         x0 <= x1, y0 < y1, x0 <= last
  PROVE  Cardinality(PixelsOf(x0, x1, y0, y1, last)) = (x1 - x0) * (y1 - y0 - 1) + (last - x0)
<1> DEFINE columns == x0..x1 - 1
           rows == y0..y1 - 2
           rest == x0..last - 1
           full == columns \X rows
           partial == rest \X {y1 - 1}
<1>1. /\ IsFiniteSet(columns) /\ Cardinality(columns) = x1 - x0
      /\ IsFiniteSet(rest) /\ Cardinality(rest) = last - x0
  BY SizeOfInterval
<1>2. IsFiniteSet(rows) /\ Cardinality(rows) = y1 - y0 - 1
  <2>1. rows = y0..(y1 - 1) - 1 /\ y1 - 1 \in Int /\ y0 <= y1 - 1 /\ y1 - y0 - 1 = (y1 - 1) - y0
    OBVIOUS
  <2> HIDE DEF rows
  <2>2. PICK e \in Int, d \in Int :
          e = y0 /\ d = y1 - 1 /\ e <= d /\ rows = e..d - 1 /\ y1 - y0 - 1 = d - e
    BY <2>1
  <2>3. IsFiniteSet(e..d - 1) /\ Cardinality(e..d - 1) = d - e
    BY <2>2, SizeOfInterval, Zenon
  <2> QED BY <2>2, <2>3
<1>3. IsFiniteSet({y1 - 1}) /\ Cardinality({y1 - 1}) = 1
  BY FS_Singleton
<1>4. full \cap partial = {}
  OBVIOUS
<1> HIDE DEF columns, rows, rest
<1>5. IsFiniteSet(full) /\ Cardinality(full) = Cardinality(columns) * Cardinality(rows)
  BY <1>1, <1>2, FS_Product, Zenon
<1>6. IsFiniteSet(partial) /\ Cardinality(partial) = Cardinality(rest) * Cardinality({y1 - 1})
  BY <1>1, <1>3, FS_Product, Zenon
<1>7. Cardinality(partial) = last - x0
  <2>1. (last - x0) * 1 = last - x0
    OBVIOUS
  <2> HIDE DEF partial
  <2> QED BY <1>1, <1>3, <1>6, <2>1
<1>8. Cardinality(full) = (x1 - x0) * (y1 - y0 - 1)
  <2> HIDE DEF full
  <2> QED BY <1>1, <1>2, <1>5, Zenon
<1>9. Cardinality(full \cup partial) = Cardinality(full) + Cardinality(partial)
  <2> HIDE DEF full, partial
  <2>1. Cardinality(full \cap partial) = 0
    BY <1>4, FS_EmptySet
  <2>2. Cardinality(full) \in Nat /\ Cardinality(partial) \in Nat
    BY <1>5, <1>6, FS_CardinalityType
  <2>3. Cardinality(full \cup partial)
          = Cardinality(full) + Cardinality(partial) - Cardinality(full \cap partial)
    BY <1>5, <1>6, FS_Union, Zenon
  <2> QED BY <2>1, <2>2, <2>3
<1>10. Cardinality(full \cup partial) = (x1 - x0) * (y1 - y0 - 1) + (last - x0)
  <2> HIDE DEF full, partial
  <2> QED BY <1>7, <1>8, <1>9, Zenon
<1> QED BY <1>10, Zenon DEF columns, rows, rest, PixelsOf

LEMMA SizedIsWellFormed ==
  ASSUME NEW s \in Span, Sized(s)
  PROVE  WellFormed(s)
<1>1. /\ s.x \in Nat /\ s.endX \in Nat /\ s.y \in Nat /\ s.endY \in Nat /\ s.lastScanEndX \in Nat
      /\ FrameWidth \in Nat /\ FrameHeight \in Nat
  BY DiffAssumption DEF Span
<1> DEFINE full == (s.x..s.endX - 1) \X (s.y..s.endY - 2)
           last == (s.x..s.lastScanEndX - 1) \X {s.endY - 1}
<1>2. {p \in Positions : Contains(s, p)} = full \cup last
  <2>1. ASSUME NEW p \in Positions, Contains(s, p) PROVE p \in full \cup last
    BY <1>1, <2>1 DEF Contains, Positions, Columns, Rows
  <2>2. ASSUME NEW p \in full PROVE p \in Positions /\ Contains(s, p)
    BY <1>1, <2>2 DEF Contains, Sized, Positions, Columns, Rows
  <2>3. ASSUME NEW p \in last PROVE p \in Positions /\ Contains(s, p)
    BY <1>1, <2>3 DEF Contains, Sized, Positions, Columns, Rows
  <2> HIDE DEF full, last
  <2> QED BY <2>1, <2>2, <2>3
<1>3. Cardinality(full \cup last)
        = (s.endX - s.x) * (s.endY - s.y - 1) + (s.lastScanEndX - s.x)
  <2>1. PICK a \in Nat, b \in Nat, c \in Nat, d \in Nat, l \in Nat :
          a = s.x /\ b = s.endX /\ c = s.y /\ d = s.endY /\ l = s.lastScanEndX
    BY <1>1
  <2>2. a <= b /\ c < d /\ a <= l
    BY <2>1 DEF Sized
  <2>3. Cardinality(PixelsOf(a, b, c, d, l)) = (b - a) * (d - c - 1) + (l - a)
    BY <2>2, SizeOfSpan
  <2>4. full \cup last = PixelsOf(a, b, c, d, l)
    BY <2>1 DEF PixelsOf
  <2> HIDE DEF full, last
  <2> QED BY <2>1, <2>3, <2>4
<1> HIDE DEF full, last
<1> QED BY <1>2, <1>3, Zenon DEF WellFormed, Sized
-----------------------------------------------------------------------------
(* Merging two spans *)

LEMMA ProductsAreNat == \A a, b \in Nat : a * b \in Nat
OBVIOUS

\* The list is ordered by y, so that t is not above s.
LEMMA MergedIsSized ==
  ASSUME NEW s \in Span, NEW t \in Span, Sized(s), Sized(t), s.y <= t.y
  PROVE  /\ Merged(s, t) \in Span /\ Sized(Merged(s, t))
         /\ Merged(s, t).y = s.y
<1> DEFINE m == Merged(s, t)
<1>1. /\ s.x \in Nat /\ s.endX \in Nat /\ s.y \in Nat /\ s.endY \in Nat /\ s.lastScanEndX \in Nat
      /\ t.x \in Nat /\ t.endX \in Nat /\ t.y \in Nat /\ t.endY \in Nat /\ t.lastScanEndX \in Nat
      /\ FrameWidth \in Nat /\ FrameHeight \in Nat
  BY DiffAssumption DEF Span
<1>2. /\ m.x = Least(s.x, t.x) /\ m.y = Least(s.y, t.y) /\ m.endX = Greatest(s.endX, t.endX)
      /\ m.endY = Greatest(s.endY, t.endY) /\ m.lastScanEndX = LastScanEnd(s, t)
      /\ m.size = (m.endX - m.x) * (m.endY - m.y - 1) + (m.lastScanEndX - m.x)
      /\ m = [x |-> m.x, y |-> m.y, endX |-> m.endX, endY |-> m.endY,
              lastScanEndX |-> m.lastScanEndX, size |-> m.size]
  BY DEF Merged
<1> HIDE DEF m
<1>3. /\ m.x \in Nat /\ m.y \in Nat /\ m.endX \in Nat /\ m.endY \in Nat /\ m.lastScanEndX \in Nat
      /\ m.x < m.endX /\ m.endX <= FrameWidth /\ m.y < m.endY /\ m.endY <= FrameHeight
      /\ m.x < m.lastScanEndX /\ m.lastScanEndX <= m.endX
      /\ m.y = s.y
  BY <1>1, <1>2 DEF Sized, Least, Greatest, LastScanEnd
<1>4. m.size \in Nat
  <2>1. m.endX - m.x \in Nat /\ m.endY - m.y - 1 \in Nat /\ m.lastScanEndX - m.x \in Nat
    BY <1>3
  <2>2. (m.endX - m.x) * (m.endY - m.y - 1) \in Nat
    BY <2>1, ProductsAreNat
  <2> QED BY <1>2, <2>1, <2>2
<1>5. m \in Span
  BY <1>2, <1>3, <1>4 DEF Span
<1>6. Sized(m)
  BY <1>2, <1>3 DEF Sized
<1> QED BY <1>3, <1>5, <1>6 DEF m

LEMMA MergedContainsBoth ==
  ASSUME NEW s \in Span, NEW t \in Span, Sized(s), Sized(t),
         NEW p \in Positions, Contains(s, p) \/ Contains(t, p)
  PROVE  Contains(Merged(s, t), p)
<1>1. /\ s.x \in Nat /\ s.endX \in Nat /\ s.y \in Nat /\ s.endY \in Nat /\ s.lastScanEndX \in Nat
      /\ t.x \in Nat /\ t.endX \in Nat /\ t.y \in Nat /\ t.endY \in Nat /\ t.lastScanEndX \in Nat
      /\ p[1] \in Int /\ p[2] \in Int
  BY DiffAssumption DEF Span, Positions, Columns, Rows
<1> DEFINE m == Merged(s, t)
<1>2. /\ m.x = Least(s.x, t.x) /\ m.y = Least(s.y, t.y) /\ m.endX = Greatest(s.endX, t.endX)
      /\ m.endY = Greatest(s.endY, t.endY) /\ m.lastScanEndX = LastScanEnd(s, t)
  BY DEF Merged
<1> HIDE DEF m
<1>3. /\ m.x <= s.x /\ m.x <= t.x /\ m.y <= s.y /\ m.y <= t.y
      /\ m.endX >= s.endX /\ m.endX >= t.endX /\ m.endY >= s.endY /\ m.endY >= t.endY
      /\ m.endX \in Nat /\ m.endY \in Nat /\ m.x \in Nat /\ m.y \in Nat /\ m.lastScanEndX \in Nat
      /\ m.endY = s.endY => m.lastScanEndX >= s.lastScanEndX
      /\ m.endY = t.endY => m.lastScanEndX >= t.lastScanEndX
  BY <1>1, <1>2 DEF Least, Greatest, LastScanEnd
<1>4. s.lastScanEndX <= s.endX /\ t.lastScanEndX <= t.endX
  BY DEF Sized
<1>5. Contains(m, p)
  <2>1. CASE Contains(s, p)
    BY <1>1, <1>3, <1>4, <2>1 DEF Contains
  <2>2. CASE Contains(t, p)
    BY <1>1, <1>3, <1>4, <2>2 DEF Contains
  <2> QED BY <2>1, <2>2
<1> QED BY <1>5 DEF m

\* Unlink takes one element out of a list and puts one in the place of another.
LEMMA UnlinkIsList ==
  ASSUME NEW list \in Seq(Span), NEW a \in 1..Len(list), NEW b \in 1..Len(list), a < b,
         NEW s \in Span
  PROVE  /\ Unlink(list, a, b, s) \in Seq(Span)
         /\ Len(Unlink(list, a, b, s)) = Len(list) - 1
<1>1. Len(list) - 1 \in Nat
  OBVIOUS
<1>2. Unlink(list, a, b, s) \in [1..Len(list) - 1 -> Span]
  BY <1>1 DEF Unlink
<1> QED BY <1>1, <1>2 DEF Unlink

LEMMA UnlinkAt ==
  ASSUME NEW list \in Seq(Span), NEW a \in 1..Len(list), NEW b \in 1..Len(list), a < b,
         NEW s \in Span, NEW k \in 1..Len(list) - 1
  PROVE  /\ k = a => Unlink(list, a, b, s)[k] = s
         /\ k # a /\ k < b => Unlink(list, a, b, s)[k] = list[k]
         /\ k >= b => Unlink(list, a, b, s)[k] = list[k + 1]
BY DEF Unlink

LEMMA SpanAt ==
  ASSUME TypeOK, NEW k \in 1..Len(spans)
  PROVE  /\ spans[k] \in Span
         /\ spans[k].x \in Nat /\ spans[k].endX \in Nat /\ spans[k].y \in Nat
         /\ spans[k].endY \in Nat /\ spans[k].lastScanEndX \in Nat /\ spans[k].size \in Nat
<1>1. spans[k] \in Span
  BY DEF TypeOK
<1> QED BY <1>1 DEF Span

-----------------------------------------------------------------------------
(* Groups of pixels *)

LEMMA Quotient ==
  ASSUME NEW g \in Nat \ {0}, NEW n \in Int
  PROVE  n = g * (n \div g) + (n % g) /\ n \div g \in Int /\ n % g \in 0..g - 1
<1>1. n = g * (n \div g) + (n % g)
  OBVIOUS
<1>2. n \div g \in Int
  OBVIOUS
<1>3. n % g \in 0..g - 1
  OBVIOUS
<1> QED BY <1>1, <1>2, <1>3

LEMMA ProductAtLeast ==
  ASSUME NEW g \in Nat, NEW q \in Int, q >= 1
  PROVE  g * q >= g /\ g * (0 - q) = 0 - g * q
<1>1. g * (q - 1) >= 0
  OBVIOUS
<1>2. g * (q - 1) = g * q - g
  OBVIOUS
<1> QED BY <1>1, <1>2

\* A number has one quotient and remainder.
LEMMA QuotientIs ==
  ASSUME NEW g \in Nat \ {0}, NEW q \in Int, NEW r \in 0..g - 1
  PROVE  (g * q + r) \div g = q /\ (g * q + r) % g = r
<1> DEFINE n == g * q + r
           d == n \div g
           e == n % g
<1>1. n \in Int /\ n = g * q + r
  OBVIOUS
<1> HIDE DEF n
<1>2. n = g * d + e /\ d \in Int /\ e \in 0..g - 1
  BY <1>1, Quotient
<1> HIDE DEF d, e
<1>3. g * (q - d) = e - r /\ g * (d - q) = r - e
  BY <1>1, <1>2
<1>4. ~(q - d >= 1) /\ ~(d - q >= 1)
  <2>1. q - d >= 1 => g * (q - d) >= g
    BY <1>2, ProductAtLeast
  <2>2. d - q >= 1 => g * (d - q) >= g
    BY <1>2, ProductAtLeast
  <2> QED BY <1>2, <1>3, <2>1, <2>2
<1>5. d = q /\ e = r
  BY <1>1, <1>2, <1>4
<1> QED BY <1>5 DEF n, d, e

LEMMA Multiple ==
  ASSUME NEW g \in Nat \ {0}, NEW q \in Int
  PROVE  (g * q) % g = 0
<1>1. g * q + 0 = g * q /\ 0 \in 0..g - 1
  OBVIOUS
<1>2. (g * q + 0) % g = 0
  BY <1>1, QuotientIs
<1> QED BY <1>1, <1>2

LEMMA Factor ==
  ASSUME NEW g \in Nat \ {0}, NEW n \in Int, n % g = 0
  PROVE  \E q \in Int : n = g * q
<1> DEFINE q == n \div g
           r == n % g
<1>1. n = g * q + r /\ q \in Int /\ r = 0
  BY Quotient
<1> HIDE DEF q, r
<1>2. g * q \in Int
  BY <1>1
<1> QED BY <1>1, <1>2

\* A multiple of a multiple of a multiple.
LEMMA Product ==
  ASSUME NEW g \in Int, NEW b \in Int, NEW a \in Int, NEW h \in Int
  PROVE  ((g * b) * a) * h = g * ((b * a) * h) /\ (b * a) * h \in Int
<1>1. b * a \in Int /\ (g * b) * a = g * (b * a)
  OBVIOUS
<1>2. \A c \in Int : (g * c) * h = g * (c * h) /\ c * h \in Int
  OBVIOUS
<1> QED BY <1>1, <1>2

LEMMA NextGroup ==
  ASSUME NEW g \in Nat \ {0}, NEW n \in Nat, NEW m \in Nat, n % g = 0, m % g = 0, n < m
  PROVE  n + g <= m /\ (n + g) % g = 0 /\ (m - g) % g = 0
<1> DEFINE a == n \div g
           b == m \div g
<1>1. n = g * a /\ m = g * b /\ a \in Int /\ b \in Int
  BY Quotient
<1> HIDE DEF a, b
<1>2. /\ g * (a + 1) = n + g /\ g * (b - 1) = m - g /\ a + 1 \in Int /\ b - 1 \in Int
  BY <1>1
<1>3. (n + g) % g = 0 /\ (m - g) % g = 0
  BY <1>2, Multiple
<1>4. a < b
  <2> SUFFICES ASSUME b <= a PROVE FALSE
    BY <1>1
  <2>1. g * (a - b) >= 0 /\ g * (a - b) = g * a - g * b
    BY <1>1
  <2> QED BY <1>1, <2>1
<1>5. n + g <= m
  <2>1. g * (b - (a + 1)) >= 0 /\ g * (b - (a + 1)) = g * b - g * (a + 1)
    BY <1>1, <1>4
  <2> QED BY <1>1, <1>2, <2>1
<1> QED BY <1>3, <1>5

-----------------------------------------------------------------------------
(* Steps of the scan *)

LEMMA Start ==
  ASSUME Init
  PROVE  IInv
<1>1. Input
  <2>1. /\ changed \subseteq Positions /\ method \in Methods
        /\ interlaced \in IF Rectangle THEN {FALSE} ELSE BOOLEAN
        /\ parity \in IF interlaced THEN 0..1 ELSE {0}
    BY DEF Init
  <2>3. interlaced \in BOOLEAN /\ (Rectangle => ~interlaced)
    BY <2>1, Zenon
  <2>4. parity \in 0..1
    BY <2>1
  <2>2. behind \in BOOLEAN /\ (behind => BehindMayDiffer)
    BY DiffAssumption DEF Init
  <2> QED BY <2>1, <2>2, <2>3, <2>4 DEF Input
<1>2. method \in AllMethods /\ method \in Methods
  BY DEF Init, Methods, AllMethods
<1>3. TypeOK
  BY <1>1, <1>2 DEF Init, TypeOK, Input, AllMethods, Rectangle
<1>4. ASSUME ~Rectangle PROVE LinesInv
  BY <1>1, <1>4, DiffAssumption
  DEF Init, LinesInv, SpanList, Ordered, Scan, Here, Scanning, RowsDone, InField, Input, Rectangle,
      Positions, Rows
<1>5. ASSUME Rectangle PROVE RectInv
  BY <1>1, <1>5, DiffAssumption
  DEF Init, RectInv, Input, Rectangle, Positions, Rows, Same, NumPixels, Methods
<1> QED BY <1>1, <1>3, <1>4, <1>5 DEF IInv

\* The input stays as it is.
LEMMA InputStays ==
  ASSUME Input, UNCHANGED input
  PROVE  /\ Input' /\ (Rectangle' <=> Rectangle)
         /\ changed' = changed /\ interlaced' = interlaced /\ method' = method
         /\ parity' = parity /\ behind' = behind
         /\ \A row : InField(row)' <=> InField(row)
BY DEF Input, input, Rectangle, InField

LEMMA ListStays ==
  ASSUME SpanList, UNCHANGED input, spans' = spans
  PROVE  SpanList' /\ \A p : Covered(p)' <=> Covered(p)
BY DEF SpanList, Ordered, InField, input, Sized, Covered, Contains

\* What a scan by scanlines is about.
LEMMA LinesOnly ==
  ASSUME IInv, pc \in {"line", "scan", "extend", "emit", "merge"}
  PROVE  /\ ~Rectangle /\ LinesInv /\ method \in {"exact", "coarse"}
         /\ method = "coarse" => FrameWidth % Group = 0
BY DEF IInv, RectInv, Input, Rectangle, Methods

LEMMA NextLineStep ==
  ASSUME IInv, NextLine
  PROVE  IInv'
<1> USE DEF NextLine
<1>1. /\ ~Rectangle /\ LinesInv /\ SpanList /\ Scan /\ Input /\ TypeOK /\ pc = "line"
      /\ UNCHANGED <<input, box, scan, spans, i, j>>
  BY LinesOnly DEF IInv, LinesInv
<1>2. SpanList' /\ Input' /\ ~Rectangle' /\ \A p : Covered(p)' <=> Covered(p)
  BY <1>1, InputStays, ListStays
<1>3. TypeOK'
  BY <1>1 DEF TypeOK, input, scan
<1>4. CASE y < FrameHeight
  <2>1. Scan'
    BY <1>1, <1>2, <1>4
    DEF Scan, Here, Scanning, RowsDone, ColumnsDone, InField, input, scan
  <2> QED BY <1>1, <1>2, <1>3, <1>4, <2>1 DEF IInv, LinesInv, Scanning
<1>5. CASE ~(y < FrameHeight)
  <2>1. \A p \in changed : InField(p[2]) => Covered(p)
    <3>1. \A p \in changed : p[2] < y
      BY <1>1, <1>5, DiffAssumption DEF Input, Positions, Rows, TypeOK
    <3> QED BY <1>1, <3>1 DEF Scan, Scanning, RowsDone
  <2>2. pc' \in {"done", "merge"} /\ (pc' = "merge" => ~interlaced)
    BY <1>5
  <2>3. Scan' /\ ~Scanning'
    BY <2>2 DEF Scan, Here, Scanning
  <2> QED BY <1>1, <1>2, <1>3, <2>1, <2>2, <2>3, InputStays DEF IInv, LinesInv
<1> QED BY <1>4, <1>5

LEMMA EndLineStep ==
  ASSUME IInv, EndLine
  PROVE  IInv'
<1> USE DEF EndLine
<1>1. /\ ~Rectangle /\ LinesInv /\ SpanList /\ Scan /\ Input /\ TypeOK /\ pc = "scan"
      /\ UNCHANGED <<input, box, start, end, unchanged, spans, i, j>>
      /\ x >= FrameWidth /\ pc' = "line" /\ x' = 0
      /\ y' = y + (IF interlaced THEN 2 ELSE 1)
  BY LinesOnly DEF IInv, LinesInv
<1>2. /\ SpanList' /\ Input' /\ ~Rectangle' /\ \A p : Covered(p)' <=> Covered(p)
      /\ \A row : InField(row)' <=> InField(row)
  BY <1>1, InputStays, ListStays
<1>3. TypeOK'
  BY <1>1 DEF TypeOK, input
<1>4. InField(y') /\ \A row \in Nat : row < y' /\ row > y => ~InField(row)
  BY <1>1 DEF InField, Scan, Scanning, TypeOK
<1>5. RowsDone'
  <2> SUFFICES ASSUME NEW p \in changed, p[2] < y', InField(p[2])
               PROVE  Covered(p)
    BY <1>1, <1>2 DEF RowsDone, input
  <2>1. p \in Positions /\ p = <<p[1], p[2]>> /\ p[1] \in Columns /\ p[2] \in Nat /\ y \in Nat
    BY <1>1 DEF Input, Positions, Rows, TypeOK
  <2>2. p[2] <= y
    BY <1>4, <2>1
  <2>3. CASE p[2] < y
    BY <1>1, <2>3 DEF Scan, Scanning, RowsDone
  <2>4. CASE p[2] = y
    <3>1. p[1] \in 0..x - 1
      <4>1. x \in Nat /\ x >= FrameWidth /\ FrameWidth \in Nat
        BY <1>1, DiffAssumption DEF TypeOK
      <4>2. p[1] \in 0..FrameWidth - 1
        BY <2>1, Zenon DEF Columns
      <4> QED BY <4>1, <4>2
    <3>2. p = <<p[1], y>> /\ Changed(p[1])
      BY <2>1, <2>4, Zenon DEF Changed
    <3> QED BY <1>1, <3>1, <3>2 DEF Scan, Here, ColumnsDone
  <2> QED BY <2>1, <2>2, <2>3, <2>4
<1>6. Scan'
  <2>1. \A k \in 1..Len(spans) : spans[k].y <= y'
    <3>1. y < y' /\ y \in Nat /\ y' \in Nat
      BY <1>1 DEF TypeOK
    <3>2. \A k \in 1..Len(spans) : spans[k].y \in Nat /\ spans[k].y <= y
      BY <1>1, SpanAt DEF Scan, Here, Scanning
    <3> HIDE DEF EndLine
    <3> QED BY <3>1, <3>2
  <2>2. 0 <= FrameWidth /\ 0 % Group = 0
    BY DiffAssumption
  <2> QED BY <1>1, <1>2, <1>4, <1>5, <2>1, <2>2 DEF Scan, Here, Scanning
<1> QED BY <1>1, <1>2, <1>3, <1>6 DEF IInv, LinesInv, Scanning

\* The span that is appended is the last, and has the last of the changed pixels.
LEMMA EmitSpanStep ==
  ASSUME IInv, EmitSpan
  PROVE  IInv'
<1> DEFINE s == [x |-> start, endX |-> end, lastScanEndX |-> end,
                 y |-> y, endY |-> y + 1, size |-> end - start]
<1>1. /\ ~Rectangle /\ LinesInv /\ SpanList /\ Scan /\ Input /\ TypeOK /\ pc = "emit"
      /\ UNCHANGED <<input, box, scan, i, j>> /\ pc' = "scan"
      /\ spans' = Append(spans, s)
  BY LinesOnly DEF IInv, LinesInv, EmitSpan
<1>2. /\ Input' /\ ~Rectangle' /\ (\A row : InField(row)' <=> InField(row))
  BY <1>1, InputStays
<1>3. /\ y \in Nat /\ start \in Nat /\ end \in Nat /\ x \in Nat /\ y < FrameHeight
      /\ start < end /\ end <= FrameWidth /\ FrameWidth <= MaxTaskPixels /\ InField(y)
      /\ FrameWidth \in Nat /\ FrameHeight \in Nat /\ MaxTaskPixels \in Nat
  BY <1>1, DiffAssumption DEF TypeOK, Scan, Here, Scanning
<1>4. s \in Span /\ s.y = y /\ s.endY = y + 1 /\ Sized(s) /\ s.size <= MaxTaskPixels
  <2>1. s \in Span /\ s.y = y /\ s.endY = y + 1 /\ s.size <= MaxTaskPixels
    BY <1>3 DEF Span
  <2>2. (end - start) * (y + 1 - y - 1) + (end - start) = end - start
    BY <1>3
  <2> QED BY <1>3, <2>1, <2>2 DEF Sized
<1> HIDE DEF s
<1>5. /\ spans' \in Seq(Span) /\ Len(spans') = Len(spans) + 1 /\ Len(spans) \in Nat
      /\ \A k \in 1..Len(spans) : spans'[k] = spans[k]
      /\ spans'[Len(spans) + 1] = s
  BY <1>1, <1>4 DEF TypeOK
<1>6. TypeOK'
  BY <1>1, <1>5 DEF TypeOK, input, scan
<1>7. \A p : Covered(p) => Covered(p)'
  BY <1>5 DEF Covered, Contains
<1>8. ASSUME NEW k \in 1..Len(spans')
      PROVE  \/ k \in 1..Len(spans) /\ spans'[k] = spans[k]
             \/ k = Len(spans) + 1 /\ spans'[k] = s
  BY <1>5
<1>9. \A k \in 1..Len(spans') :
        /\ Sized(spans'[k]) /\ spans'[k].size <= MaxTaskPixels /\ spans'[k].y <= y
        /\ interlaced => spans'[k].endY = spans'[k].y + 1 /\ InField(spans'[k].y)
  BY <1>1, <1>3, <1>4, <1>8 DEF SpanList, Scan, Scanning
<1>10. Ordered(spans')
  <2> SUFFICES ASSUME NEW k \in 1..Len(spans'), NEW l \in 1..Len(spans'), k < l
               PROVE  spans'[k].y <= spans'[l].y
    BY DEF Ordered
  <2>1. k \in 1..Len(spans)
    BY <1>5
  <2> QED BY <1>1, <1>4, <1>5, <1>8, <2>1 DEF SpanList, Ordered, Scan, Scanning
<1>11. SpanList'
  BY <1>1, <1>2, <1>9, <1>10 DEF SpanList, Sized, Ordered, input
<1>12. ColumnsDone(x)'
  <2> SUFFICES ASSUME NEW c \in 0..x - 1, Changed(c)
               PROVE  \E k \in 1..Len(spans') : Contains(spans'[k], <<c, y>>)
    BY <1>1 DEF ColumnsDone, Changed, input, scan, Covered, Contains
  <2>1. CASE c < start
    <3>1. c \in 0..start - 1
      BY <1>3, <2>1
    <3>2. Covered(<<c, y>>)
      BY <1>1, <3>1 DEF Scan, Here, ColumnsDone
    <3> QED BY <1>5, <3>2 DEF Covered
  <2>2. CASE ~(c < start)
    <3>1. start <= c /\ c < end
      BY <1>1, <1>3, <2>2 DEF Scan, Here, InSpan
    <3>2. Contains(s, <<c, y>>)
      BY <1>3, <3>1 DEF Contains, s
    <3> QED BY <1>5, <3>2
  <2> QED BY <2>1, <2>2
<1>13. Scan'
  <2>1. RowsDone'
    BY <1>1, <1>2, <1>7 DEF RowsDone, Scan, Scanning, input, scan
  <2> QED BY <1>1, <1>2, <1>9, <1>12, <2>1 DEF Scan, Here, Scanning, scan, input
<1> QED BY <1>1, <1>2, <1>6, <1>11, <1>13 DEF IInv, LinesInv, Scanning

\* A step within a scanline that leaves the list alone.
LEMMA WithinLine ==
  ASSUME IInv, pc \in {"scan", "extend"}, pc' \in {"scan", "extend", "emit"},
         UNCHANGED <<input, box, y, spans, i, j>>,
         x' \in Nat, x' <= FrameWidth, method = "coarse" => x' % Group = 0,
         start' \in Nat, end' \in Nat, unchanged' \in Nat,
         Here'
  PROVE  IInv'
<1>1. ~Rectangle /\ LinesInv /\ SpanList /\ Scan /\ Input /\ TypeOK
  BY LinesOnly DEF IInv, LinesInv
<1>2. /\ SpanList' /\ Input' /\ ~Rectangle' /\ \A p : Covered(p)' <=> Covered(p)
      /\ \A row : InField(row)' <=> InField(row)
  BY <1>1, InputStays, ListStays
<1>3. TypeOK'
  BY <1>1 DEF TypeOK, input
<1>4. RowsDone'
  BY <1>1, <1>2 DEF Scan, Scanning, RowsDone, input
<1>5. Scan'
  BY <1>1, <1>2, <1>4 DEF Scan, Scanning, input
<1> QED BY <1>1, <1>2, <1>3, <1>5 DEF IInv, LinesInv, Scanning

\* What is known within a scanline.
LEMMA InLine ==
  ASSUME IInv, pc \in {"scan", "extend"}
  PROVE  /\ x \in Nat /\ y \in Nat /\ start \in Nat /\ end \in Nat /\ unchanged \in Nat
         /\ FrameWidth \in Nat \ {0} /\ Group \in Nat \ {0} /\ Threshold \in Nat
         /\ x <= FrameWidth /\ Here
         /\ method = "coarse" => x % Group = 0 /\ FrameWidth % Group = 0
         /\ \A c : Changed(c) => c \in 0..FrameWidth - 1
<1>1. \A c : Changed(c) => c \in 0..FrameWidth - 1
  BY DEF IInv, Input, Positions, Columns, Changed
<1> QED BY <1>1, LinesOnly, DiffAssumption DEF IInv, TypeOK, LinesInv, Scan, Scanning

\* What the definitions of the changed pixels of a scanline become.
LEMMA LineStays ==
  ASSUME UNCHANGED <<changed, y, spans>>
  PROVE  /\ \A c : Changed(c)' <=> Changed(c)
         /\ \A n : ColumnsDone(n)' <=> ColumnsDone(n)
         /\ \A n : ChangedInGroup(n)' = ChangedInGroup(n)
BY DEF Changed, ColumnsDone, ChangedInGroup, Covered, Contains

\* If there is no changed pixel in n..m - 1, a scan that was done up to n is up to m.
LEMMA NoChange ==
  ASSUME NEW n \in Nat, NEW m \in Nat, ColumnsDone(n),
         \A c \in Int : n <= c /\ c < m => ~Changed(c)
  PROVE  ColumnsDone(m)
BY DEF ColumnsDone

LEMMA ScanPairStep ==
  ASSUME IInv, ScanPair
  PROVE  IInv'
<1>1. /\ pc = "scan" /\ method = "exact" /\ method' = method /\ x + 1 < FrameWidth /\ x' = x + 2
      /\ UNCHANGED <<input, box, y, spans, i, j>> /\ UNCHANGED <<changed, y, spans>>
  BY DEF ScanPair, input
<1>2. ColumnsDone(x)
  BY <1>1, InLine DEF Here
<1>3. CASE Changed(x) \/ Changed(x + 1)
  <2>1. /\ start' = x /\ pc' = "extend"
        /\ \/ Changed(x + 1) /\ end' = x + 2 /\ unchanged' = 0
           \/ ~Changed(x + 1) /\ end' = x + 1 /\ unchanged' = 1
    BY <1>3 DEF ScanPair
  <2>2. \A c \in start'..x' - 1 : Changed(c) => c < end'
    BY <1>1, <2>1, InLine
  <2>3. Here'
    BY <1>1, <1>2, <2>1, <2>2, InLine, LineStays DEF Here, InSpan
  <2> QED BY <1>1, <2>1, <2>3, InLine, WithinLine
<1>4. CASE ~(Changed(x) \/ Changed(x + 1))
  <2>1. UNCHANGED <<start, end, unchanged, pc>>
    BY <1>4 DEF ScanPair
  <2>2. ColumnsDone(x')
    <3>1. \A c \in Int : x <= c /\ c < x + 2 => ~Changed(c)
      BY <1>4, InLine, <1>1
    <3> QED BY <1>1, <1>2, <3>1, InLine, NoChange
  <2>3. Here'
    BY <1>1, <2>1, <2>2, LineStays DEF Here
  <2> QED BY <1>1, <2>1, <2>3, InLine, WithinLine
<1> QED BY <1>3, <1>4

LEMMA ExtendSpanStep ==
  ASSUME IInv, ExtendSpan
  PROVE  IInv'
<1>1. /\ pc = "extend" /\ method = "exact" /\ method' = method /\ start' = start
      /\ UNCHANGED <<input, box, y, spans, i, j>> /\ UNCHANGED <<changed, y, spans>>
  BY DEF ExtendSpan, input
<1>2. ColumnsDone(start) /\ start < x /\ start < end /\ end <= x /\ InSpan
  BY <1>1, InLine DEF Here
<1>3. CASE x >= FrameWidth
  <2>1. pc' = "emit" /\ UNCHANGED <<x, end, unchanged>>
    BY <1>3 DEF ExtendSpan
  <2>2. Here'
    BY <1>1, <1>2, <2>1, InLine, LineStays DEF Here, InSpan
  <2> QED BY <1>1, <2>1, <2>2, InLine, WithinLine
<1>4. CASE ~(x >= FrameWidth)
  <2>1. /\ x' = x + 1 /\ unchanged' \in Nat /\ pc' \in {"extend", "emit"}
        /\ \/ Changed(x) /\ end' = x + 1
           \/ ~Changed(x) /\ end' = end
    BY <1>4, InLine, <1>1 DEF ExtendSpan
  <2>2. \A c \in start'..x' - 1 : Changed(c) => c < end'
    BY <1>1, <1>2, <2>1, InLine DEF InSpan
  <2>3. Here'
    BY <1>1, <1>2, <1>4, <2>1, <2>2, InLine, LineStays DEF Here, InSpan
  <2> QED BY <1>1, <1>4, <2>1, <2>3, InLine, WithinLine
<1> QED BY <1>3, <1>4

LEMMA ScanLastPixelStep ==
  ASSUME IInv, ScanLastPixel
  PROVE  IInv'
<1>1. /\ pc = "scan" /\ method = "exact" /\ method' = method /\ x + 1 = FrameWidth /\ x' = x + 1
      /\ UNCHANGED <<input, box, y, spans, i, j>> /\ UNCHANGED <<changed, y, spans>>
      /\ unchanged' = unchanged
  BY DEF ScanLastPixel, input
<1>2. ColumnsDone(x)
  BY <1>1, InLine DEF Here
<1>3. CASE Changed(x)
  <2>1. start' = x /\ end' = x + 1 /\ pc' = "emit"
    BY <1>3 DEF ScanLastPixel
  <2>2. Here'
    BY <1>1, <1>2, <2>1, InLine, LineStays DEF Here, InSpan
  <2> QED BY <1>1, <2>1, <2>2, InLine, WithinLine
<1>4. CASE ~Changed(x)
  <2>1. UNCHANGED <<start, end, pc>>
    BY <1>4 DEF ScanLastPixel
  <2>2. ColumnsDone(x')
    <3>1. \A c \in Int : x <= c /\ c < x + 1 => ~Changed(c)
      BY <1>1, <1>4, InLine
    <3> QED BY <1>1, <1>2, <3>1, InLine, NoChange
  <2>3. Here'
    BY <1>1, <2>1, <2>2, LineStays DEF Here
  <2> QED BY <1>1, <2>1, <2>3, InLine, WithinLine
<1> QED BY <1>3, <1>4

\* The first changed pixel of a group, and the last.
LEMMA GroupEnds ==
  ASSUME NEW n \in Nat, Group \in Nat \ {0}, ChangedInGroup(n) # {}
  PROVE  /\ First(ChangedInGroup(n)) \in ChangedInGroup(n)
         /\ Last(ChangedInGroup(n)) \in ChangedInGroup(n)
         /\ \A c \in ChangedInGroup(n) : /\ First(ChangedInGroup(n)) <= c
                                         /\ c <= Last(ChangedInGroup(n))
         /\ \A c \in ChangedInGroup(n) : c \in n..n + Group - 1 /\ c \in Nat /\ Changed(c)
<1> DEFINE S == ChangedInGroup(n)
<1>1. \A c \in S : c \in n..n + Group - 1 /\ c \in Nat /\ Changed(c)
  BY DEF ChangedInGroup
<1>2. n + Group \in Nat /\ \A c \in S : c <= n + Group
  BY <1>1
<1> HIDE DEF S
<1>3. First(S) \in S /\ \A d \in S : First(S) <= d
  BY <1>1, FirstIsLeast DEF S
<1>4. Last(S) \in S /\ \A d \in S : d <= Last(S)
  BY <1>1, <1>2, LastIsGreatest DEF S
<1> QED BY <1>1, <1>3, <1>4 DEF S

LEMMA ScanGroupStep ==
  ASSUME IInv, ScanGroup
  PROVE  IInv'
<1>1. /\ pc = "scan" /\ method = "coarse" /\ method' = method /\ x < FrameWidth /\ x' = x + Group
      /\ UNCHANGED <<input, box, y, spans, i, j>> /\ UNCHANGED <<changed, y, spans>>
      /\ unchanged' = unchanged /\ end' = end
  BY DEF ScanGroup, input
<1>2. ColumnsDone(x)
  BY <1>1, InLine DEF Here
<1>3. x' \in Nat /\ x' <= FrameWidth /\ x' % Group = 0 /\ x' - Group = x
  BY <1>1, InLine, NextGroup
<1>4. CASE ChangedInGroup(x) # {}
  <2>1. start' = First(ChangedInGroup(x)) /\ pc' = "extend"
    BY <1>4 DEF ScanGroup
  <2>2. /\ start' \in ChangedInGroup(x) /\ start' \in Nat /\ x <= start' /\ start' <= x + Group - 1
        /\ \A c \in ChangedInGroup(x) : start' <= c
    BY <1>1, <1>4, <2>1, GroupEnds, InLine
  <2>3. ASSUME NEW c \in Int, x <= c, c < start' PROVE ~Changed(c)
    <3>1. x \in Nat /\ Group \in Nat
      BY <1>1, InLine
    <3>2. c \in x..x + Group - 1
      BY <2>2, <2>3, <3>1
    <3>3. Changed(c) => start' <= c
      BY <2>2, <3>2 DEF ChangedInGroup
    <3> QED BY <2>2, <2>3, <3>3
  <2>4. ColumnsDone(start')
    BY <1>1, <1>2, <2>2, <2>3, InLine, NoChange
  <2>5. /\ start' < x' /\ Group <= x'
        /\ start' \in ChangedInGroup(x' - Group) /\ start' <= start'
    BY <1>1, <1>3, <2>2, InLine
  <2>6. Here'
    BY <1>1, <2>1, <2>4, <2>5, LineStays DEF Here
  <2> QED BY <1>1, <1>3, <2>1, <2>2, <2>6, InLine, WithinLine
<1>5. CASE ~(ChangedInGroup(x) # {})
  <2>1. UNCHANGED <<start, pc>>
    BY <1>5 DEF ScanGroup
  <2>2. ColumnsDone(x')
    <3>1. \A c \in x..x + Group - 1 : ~Changed(c)
      BY <1>5 DEF ChangedInGroup
    <3> QED BY <1>1, <1>2, <1>3, <3>1, InLine, NoChange
  <2>3. Here'
    BY <1>1, <2>1, <2>2, LineStays DEF Here
  <2> QED BY <1>1, <1>3, <2>1, <2>3, InLine, WithinLine
<1> QED BY <1>4, <1>5

LEMMA ExtendByGroupStep ==
  ASSUME IInv, ExtendByGroup
  PROVE  IInv'
<1>1. /\ pc = "extend" /\ method = "coarse" /\ method' = method
      /\ UNCHANGED <<input, box, y, spans, i, j>> /\ UNCHANGED <<changed, y, spans>>
      /\ unchanged' = unchanged /\ start' = start
  BY DEF ExtendByGroup, input
<1>2. ColumnsDone(start) /\ start < x /\ Group <= x
  BY <1>1, InLine DEF Here
<1>3. PICK c0 \in ChangedInGroup(x - Group) : start <= c0
  BY <1>1, InLine DEF Here
<1>4. CASE x >= FrameWidth
  <2>1. end' = FrameWidth /\ pc' = "emit" /\ x' = x
    BY <1>4 DEF ExtendByGroup
  <2>2. Here'
    BY <1>1, <1>2, <1>4, <2>1, InLine, LineStays DEF Here, InSpan
  <2> QED BY <1>1, <2>1, <2>2, InLine, WithinLine
<1>5. CASE ~(x >= FrameWidth)
  <2>1. x' = x + Group /\ x < FrameWidth
    BY <1>1, <1>5, InLine DEF ExtendByGroup
  <2>2. x' \in Nat /\ x' <= FrameWidth /\ x' % Group = 0 /\ x' - Group = x /\ Group <= x'
    BY <1>1, <1>2, <2>1, InLine, NextGroup
  <2>3. CASE ChangedInGroup(x) # {}
    <3>1. UNCHANGED <<end, pc>>
      BY <1>5, <2>3 DEF ExtendByGroup
    <3>2. \E c \in ChangedInGroup(x) : start <= c
      <4>1. PICK c \in ChangedInGroup(x) : TRUE
        BY <2>3
      <4> QED BY <1>1, <1>2, <4>1, InLine DEF ChangedInGroup
    <3>3. Here'
      BY <1>1, <1>2, <2>1, <2>2, <3>1, <3>2, InLine, LineStays DEF Here
    <3> QED BY <1>1, <2>2, <3>1, <3>3, InLine, WithinLine
  <2>4. CASE ~(ChangedInGroup(x) # {})
    <3> DEFINE last == Last(ChangedInGroup(x - Group))
    <3>1. end' = last + 2 /\ pc' = "emit"
      BY <1>5, <2>4 DEF ExtendByGroup
    <3>2. /\ last \in Nat /\ last <= x - 1
          /\ \A c \in ChangedInGroup(x - Group) : c <= last
      <4>1. x - Group \in Nat
        BY <1>1, <1>2, InLine
      <4>2. /\ last \in ChangedInGroup(x - Group)
            /\ \A c \in ChangedInGroup(x - Group) : /\ c <= last /\ c \in Nat
                                                    /\ c \in x - Group..x - Group + Group - 1
        BY <1>1, <1>3, <4>1, GroupEnds, InLine
      <4> QED BY <1>1, <4>1, <4>2, InLine
    <3> HIDE DEF last
    <3>3. start < end' /\ end' <= FrameWidth /\ end' \in Nat
      BY <1>1, <1>3, <2>1, <3>1, <3>2, InLine DEF ChangedInGroup
    <3>4. ASSUME NEW c \in start..x' - 1, Changed(c) PROVE c < end'
      <4>1. ~(x <= c)
        <5>1. x <= c => c \in ChangedInGroup(x)
          BY <1>1, <2>1, <3>4, InLine DEF ChangedInGroup
        <5> QED BY <2>4, <5>1
      <4>2. CASE c < x - Group
        BY <1>1, <1>2, <1>3, <3>1, <3>2, <4>2, InLine DEF ChangedInGroup
      <4>3. CASE ~(c < x - Group)
        <5>1. c \in ChangedInGroup(x - Group)
          BY <1>1, <1>2, <3>4, <4>1, <4>3, InLine DEF ChangedInGroup
        <5> QED BY <1>1, <3>1, <3>2, <5>1, InLine
      <4> QED BY <4>2, <4>3
    <3>5. Here'
      BY <1>1, <1>2, <3>1, <3>3, <3>4, InLine, LineStays DEF Here, InSpan
    <3> QED BY <1>1, <2>2, <3>1, <3>3, <3>5, InLine, WithinLine
  <2> QED BY <2>3, <2>4
<1> QED BY <1>4, <1>5

-----------------------------------------------------------------------------
(* Steps of the merging *)

LEMMA MergePairStep ==
  ASSUME IInv, MergePair
  PROVE  IInv'
<1> DEFINE s == Merged(spans[i], spans[j])
<1>1. /\ ~Rectangle /\ LinesInv /\ SpanList /\ Scan /\ Input /\ TypeOK /\ pc = "merge" /\ ~interlaced
      /\ UNCHANGED <<input, box, pc, scan, i, j>>
      /\ i \in 1..Len(spans) /\ j \in 1..Len(spans) /\ i < j /\ Len(spans) \in Nat
      /\ spans' = Unlink(spans, i, j, s) /\ s.size <= MaxTaskPixels
  BY LinesOnly DEF IInv, LinesInv, MergePair, InnerLoop, TypeOK, WorthMerging
<1>2. /\ Input' /\ ~Rectangle' /\ \A row : InField(row)' <=> InField(row)
  BY <1>1, InputStays
<1>3. /\ s \in Span /\ Sized(s) /\ s.y = spans[i].y
      /\ \A p \in Positions : Contains(spans[i], p) \/ Contains(spans[j], p) => Contains(s, p)
  <2>1. /\ Sized(spans[i]) /\ Sized(spans[j]) /\ spans[i].y <= spans[j].y
        /\ spans[i] \in Span /\ spans[j] \in Span
    BY <1>1, SpanAt DEF SpanList, Ordered
  <2> QED BY <2>1, MergedIsSized, MergedContainsBoth
<1> HIDE DEF s
<1>4. /\ spans \in Seq(Span) /\ spans' \in Seq(Span) /\ Len(spans') = Len(spans) - 1
      /\ \A k \in 1..Len(spans') :
           /\ k = i => spans'[k] = s
           /\ k # i /\ k < j => spans'[k] = spans[k]
           /\ k >= j => spans'[k] = spans[k + 1]
  <2>1. spans \in Seq(Span)
    BY <1>1 DEF TypeOK
  <2>2. i < j /\ i \in 1..Len(spans) /\ j \in 1..Len(spans) /\ s \in Span
    BY <1>1, <1>3
  <2>3. spans' \in Seq(Span) /\ Len(spans') = Len(spans) - 1
    BY <1>1, <2>1, <2>2, UnlinkIsList
  <2>4. ASSUME NEW k \in 1..Len(spans) - 1
        PROVE  /\ k = i => spans'[k] = s
               /\ k # i /\ k < j => spans'[k] = spans[k]
               /\ k >= j => spans'[k] = spans[k + 1]
    BY <1>1, <2>1, <2>2, UnlinkAt
  <2> QED BY <2>1, <2>3, <2>4
<1>5. TypeOK'
  BY <1>1, <1>4 DEF TypeOK, input, scan
<1>6. ASSUME NEW p \in Positions, Covered(p) PROVE Covered(p)'
  <2>1. PICK k \in 1..Len(spans) : Contains(spans[k], p)
    BY <1>6 DEF Covered
  <2>2. PICK l \in 1..Len(spans) - 1 : /\ k \in {i, j} => spans'[l] = s
                                       /\ k \notin {i, j} => spans'[l] = spans[k]
    <3>1. CASE k \in {i, j}
      <4>1. i \in 1..Len(spans) - 1 /\ spans'[i] = s
        BY <1>1, <1>4
      <4> QED BY <3>1, <4>1
    <3>2. CASE k \notin {i, j} /\ k < j
      <4>1. k \in 1..Len(spans) - 1 /\ spans'[k] = spans[k]
        BY <1>1, <1>4, <3>2
      <4> QED BY <3>2, <4>1
    <3>3. CASE k \notin {i, j} /\ ~(k < j)
      <4>1. k - 1 \in 1..Len(spans) - 1 /\ spans'[k - 1] = spans[k]
        BY <1>1, <1>4, <3>3
      <4> QED BY <3>3, <4>1
    <3> QED BY <3>1, <3>2, <3>3
  <2>3. Contains(spans'[l], p)
    BY <1>3, <2>1, <2>2
  <2> QED BY <1>4, <2>2, <2>3 DEF Covered, Contains
<1>7. ASSUME NEW k \in 1..Len(spans')
      PROVE  \E l \in 1..Len(spans) :
               /\ spans'[k].y = spans[l].y
               /\ l = (IF k < j THEN k ELSE k + 1)
               /\ spans'[k] = s \/ spans'[k] = spans[l]
  <2>1. CASE k = i
    BY <1>1, <1>3, <1>4, <2>1
  <2>2. CASE k # i
    BY <1>1, <1>4, <2>2
  <2> QED BY <2>1, <2>2
<1>8. \A k \in 1..Len(spans') : Sized(spans'[k]) /\ spans'[k].size <= MaxTaskPixels
  BY <1>1, <1>3, <1>7 DEF SpanList
<1>9. Ordered(spans')
  <2> SUFFICES ASSUME NEW k \in 1..Len(spans'), NEW l \in 1..Len(spans'), k < l
               PROVE  spans'[k].y <= spans'[l].y
    BY DEF Ordered
  <2>1. PICK m \in 1..Len(spans) : spans'[k].y = spans[m].y /\ m = IF k < j THEN k ELSE k + 1
    BY <1>7
  <2>2. PICK n \in 1..Len(spans) : spans'[l].y = spans[n].y /\ n = IF l < j THEN l ELSE l + 1
    BY <1>7
  <2>3. m < n
    BY <1>1, <2>1, <2>2
  <2>4. spans[m].y <= spans[n].y
    BY <1>1, <2>3 DEF SpanList, Ordered
  <2> QED BY <2>1, <2>2, <2>4
<1>10. SpanList'
  BY <1>1, <1>8, <1>9 DEF SpanList, Sized, Ordered, input
<1>11. \A p \in changed : InField(p[2]) => Covered(p)'
  BY <1>1, <1>6 DEF LinesInv, Scanning, Input
<1>12. Scan' /\ ~Scanning' /\ changed' = changed
  BY <1>1 DEF Scan, Here, Scanning, input
<1>13. \A p \in changed' : InField(p[2])' => Covered(p)'
  BY <1>2, <1>11, <1>12
<1> QED BY <1>1, <1>2, <1>5, <1>10, <1>12, <1>13, InputStays DEF IInv, LinesInv

\* A step that only moves the two pointers, or ends the merging.
LEMMA PointerStep ==
  ASSUME IInv, KeepPair \/ NextSpan \/ EndMerge
  PROVE  IInv'
<1>1. /\ ~Rectangle /\ LinesInv /\ SpanList /\ Scan /\ Input /\ TypeOK /\ pc = "merge" /\ ~interlaced
      /\ UNCHANGED <<input, box, scan, spans>> /\ pc' \in {"merge", "done"}
      /\ i' \in 1..Len(spans) + 1 /\ j' \in Nat /\ i' < j'
  BY LinesOnly DEF IInv, LinesInv, KeepPair, NextSpan, EndMerge, InnerLoop, TypeOK
<1>2. /\ SpanList' /\ Input' /\ ~Rectangle' /\ (\A p : Covered(p)' <=> Covered(p))
      /\ \A row : InField(row)' <=> InField(row)
  BY <1>1, InputStays, ListStays
<1>3. TypeOK'
  BY <1>1 DEF TypeOK, input, scan
<1>4. Scan' /\ ~Scanning' /\ ~Scanning /\ changed' = changed /\ interlaced' = interlaced
  BY <1>1 DEF Scan, Here, Scanning, input
<1> QED BY <1>1, <1>2, <1>3, <1>4 DEF IInv, LinesInv

-----------------------------------------------------------------------------
(* Steps of the methods that send a rectangle *)

LEMMA RectOnly ==
  ASSUME IInv, pc \in {"frame", "lines", "bottom", "linear", "last", "precise", "sides", "align"}
  PROVE  /\ Rectangle /\ RectInv /\ Input /\ TypeOK /\ ~interlaced /\ spans = <<>> /\ i = 1
         /\ x \in Nat /\ y \in Nat /\ start \in Nat /\ end \in Nat /\ unchanged \in Nat
         /\ FrameWidth \in Nat \ {0} /\ FrameHeight \in Nat \ {0}
         /\ Group \in Nat \ {0} /\ Align \in Nat \ {0} /\ Align % Group = 0
         /\ NumPixels \in Nat
         /\ box \in [minX : Nat, minY : Nat, maxX : Nat, maxY : Nat]
         /\ \A p \in changed : /\ p = <<p[1], p[2]>>
                               /\ p[1] \in Nat /\ p[1] < FrameWidth
                               /\ p[2] \in Nat /\ p[2] < FrameHeight
<1>1. Rectangle /\ RectInv /\ Input /\ TypeOK
  BY DEF IInv, LinesInv, Scanning
<1>2. FrameWidth \in Nat \ {0} /\ FrameHeight \in Nat \ {0}
  BY DiffAssumption
<1>3. NumPixels \in Nat
  BY <1>2, ProductsAreNat DEF NumPixels
<1>4. \A p \in changed : /\ p = <<p[1], p[2]>>
                         /\ p[1] \in Nat /\ p[1] < FrameWidth
                         /\ p[2] \in Nat /\ p[2] < FrameHeight
  BY <1>1, <1>2 DEF Input, Positions, Columns, Rows
<1> QED BY <1>1, <1>2, <1>3, <1>4, DiffAssumption DEF Input, TypeOK, RectInv

LEMMA RectStep ==
  ASSUME IInv, Rectangle, UNCHANGED <<input, i, j>>, i = 1, spans' \in Seq(Span),
         x' \in Nat, y' \in Nat, start' \in Nat, end' \in Nat, unchanged' \in Nat,
         RectInv'
  PROVE  IInv'
<1>1. TypeOK /\ Input
  BY DEF IInv
<1>2. Input' /\ Rectangle'
  BY <1>1, InputStays
<1>3. Len(spans') \in Nat
  OBVIOUS
<1>4. TypeOK'
  <2>1. pc' \in {"lines", "bottom", "linear", "last", "precise", "frame", "sides", "align", "done"}
    BY DEF RectInv
  <2>2. i' \in 1..Len(spans') + 1
    BY <1>3
  <2> QED BY <1>1, <2>1, <2>2 DEF TypeOK, input
<1> QED BY <1>2, <1>4 DEF IInv

\* EmitFrame: the one span that can be as large as the frame.
LEMMA EmitFrameStep ==
  ASSUME IInv, EmitFrame
  PROVE  IInv'
<1> DEFINE s == [x |-> 0, endX |-> FrameWidth, lastScanEndX |-> FrameWidth, y |-> 0,
                 endY |-> FrameHeight, size |-> FrameWidth * FrameHeight]
<1>1. /\ pc = "frame" /\ pc' = "done" /\ UNCHANGED <<input, box, scan, i, j>> /\ spans' = <<s>>
      /\ changed' = changed /\ behind' = behind /\ box' = box
  BY DEF EmitFrame, input
<1>2. s \in Span /\ Sized(s) /\ \A p \in changed : Contains(s, p)
  <2>1. FrameWidth * FrameHeight \in Nat
    BY <1>1, RectOnly DEF NumPixels
  <2>2. s \in Span
    BY <1>1, <2>1, RectOnly DEF Span
  <2>3. (FrameWidth - 0) * (FrameHeight - 0 - 1) + (FrameWidth - 0) = FrameWidth * FrameHeight
    BY <1>1, RectOnly
  <2>4. Sized(s)
    BY <1>1, <2>3, RectOnly, SMTT(30) DEF Sized
  <2>5. \A p \in changed : Contains(s, p)
    BY <1>1, RectOnly DEF Contains
  <2> QED BY <2>2, <2>4, <2>5
<1> HIDE DEF s
<1>3. spans' \in Seq(Span) /\ Len(spans') = 1 /\ spans'[1] = s
  BY <1>1, <1>2
<1>4. RectInv'
  <2>1. Sized(spans'[1]) /\ \A p \in changed' : Contains(spans'[1], p)
    BY <1>1, <1>2, <1>3
  <2>2. Exact(spans[1])' /\ \A p \in changed' : Contains(spans[1], p)'
    BY <2>1 DEF Exact, Sized, Contains
  <2>3. /\ box' \in [minX : Nat, minY : Nat, maxX : Nat, maxY : Nat] /\ pc' = "done"
        /\ Len(spans') = 1
    BY <1>1, <1>3, RectOnly
  <2> QED BY <2>2, <2>3 DEF RectInv
<1> QED BY <1>1, <1>3, <1>4, RectOnly, RectStep DEF scan

\* The changed pixels of a scanline.
LEMMA LineEnds ==
  ASSUME IInv, pc \in {"lines", "bottom"}, ChangedInLine # {}
  PROVE  /\ First(ChangedInLine) \in Nat /\ <<First(ChangedInLine), y>> \in changed
         /\ Last(ChangedInLine) \in Columns /\ <<Last(ChangedInLine), y>> \in changed
         /\ \A p \in changed : p[2] = y => p[1] <= Last(ChangedInLine)
<1> DEFINE S == ChangedInLine
<1>1. /\ \A c \in S : c \in Nat /\ c \in Columns /\ <<c, y>> \in changed /\ c <= FrameWidth
      /\ FrameWidth \in Nat
  <2>1. FrameWidth \in Nat
    BY RectOnly
  <2> QED BY <2>1 DEF ChangedInLine, Columns, Changed
<1>2. ASSUME NEW p \in changed, p[2] = y PROVE p[1] \in S
  <2>1. p = <<p[1], y>> /\ p[1] \in Columns
    BY <1>2, RectOnly, SMTT(30) DEF Columns
  <2> QED BY <2>1, Zenon DEF ChangedInLine, Changed
<1> HIDE DEF S
<1>3. First(S) \in S
  BY <1>1, FirstIsLeast DEF S
<1>4. Last(S) \in S /\ \A d \in S : d <= Last(S)
  BY <1>1, LastIsGreatest DEF S
<1> QED BY <1>1, <1>2, <1>3, <1>4 DEF S

LEMMA LineEmpty ==
  ASSUME IInv, pc \in {"lines", "bottom"}, ChangedInLine = {}
  PROVE  \A p \in changed : p[2] # y
BY RectOnly DEF ChangedInLine, Columns, Changed

LEMMA FindTopStep ==
  ASSUME IInv, FindTop
  PROVE  IInv'
<1>1. /\ pc = "lines" /\ UNCHANGED <<input, i, j>> /\ UNCHANGED <<x, start, end, unchanged, spans>>
      /\ changed' = changed /\ behind' = behind
  BY DEF FindTop, input
<1>2. y <= FrameHeight /\ \A p \in changed : y <= p[2]
  BY <1>1, RectOnly DEF RectInv
<1>3. CASE y = FrameHeight
  <2>1. pc' = "done" /\ UNCHANGED <<box, y>>
    BY <1>3 DEF FindTop
  <2>2. changed = {}
    <3>1. ASSUME NEW p \in changed PROVE FALSE
      BY <1>1, <1>2, <1>3, <3>1, RectOnly
    <3> QED BY <3>1
  <2>3. RectInv'
    BY <1>1, <2>1, <2>2, RectOnly DEF RectInv
  <2> QED BY <1>1, <2>1, <2>3, RectOnly, RectStep
<1>4. CASE y # FrameHeight /\ ChangedInLine = {}
  <2>1. y' = y + 1 /\ UNCHANGED <<box, pc>>
    BY <1>4 DEF FindTop
  <2>2. y' \in Nat /\ y' <= FrameHeight /\ \A p \in changed' : y' <= p[2]
    <3>1. y \in Nat /\ FrameHeight \in Nat /\ \A p \in changed : p[2] \in Nat
      BY <1>1, RectOnly
    <3>2. \A p \in changed : p[2] # y
      BY <1>1, <1>4, LineEmpty
    <3> QED BY <1>1, <1>2, <1>4, <2>1, <3>1, <3>2
  <2>3. RectInv'
    BY <1>1, <2>1, <2>2, RectOnly DEF RectInv
  <2> QED BY <1>1, <2>1, <2>2, <2>3, RectOnly, RectStep
<1>5. CASE y # FrameHeight /\ ChangedInLine # {}
  <2>1. /\ box' = [box EXCEPT !.minX = First(ChangedInLine), !.minY = y]
        /\ y' = FrameHeight - 1 /\ pc' = "bottom"
    BY <1>5 DEF FindTop
  <2>2. /\ box' \in [minX : Nat, minY : Nat, maxX : Nat, maxY : Nat]
        /\ box'.minY = y /\ <<box'.minX, box'.minY>> \in changed
    BY <1>1, <1>5, <2>1, RectOnly, LineEnds
  <2>3. y' \in Nat /\ y' < FrameHeight /\ y <= y' /\ \A p \in changed : p[2] <= y'
    BY <1>1, <1>2, <1>5, <2>1, RectOnly, SMTT(30)
  <2>4. RectInv'
    BY <1>1, <1>2, <2>1, <2>2, <2>3, RectOnly DEF RectInv, TopFound
  <2> QED BY <1>1, <2>1, <2>3, <2>4, RectOnly, RectStep
<1> QED BY <1>3, <1>4, <1>5

LEMMA FindBottomStep ==
  ASSUME IInv, FindBottom
  PROVE  IInv'
<1>1. /\ pc = "bottom" /\ UNCHANGED <<input, i, j>>
      /\ UNCHANGED <<x, start, end, unchanged, spans>>
      /\ changed' = changed /\ behind' = behind
  BY DEF FindBottom, input
<1>2. TopFound /\ box.minY <= y /\ y < FrameHeight /\ \A p \in changed : p[2] <= y
  BY <1>1, RectOnly DEF RectInv
<1>3. CASE ChangedInLine = {}
  <2>1. y' = y - 1 /\ UNCHANGED <<box, pc>>
    BY <1>3 DEF FindBottom
  <2>2. \A p \in changed : p[2] < y
    BY <1>1, <1>2, <1>3, RectOnly, LineEmpty, SMTT(30)
  <2>3. box.minY < y
    BY <1>2, <2>2 DEF TopFound
  <2>4. y' \in Nat /\ box.minY <= y' /\ y' < FrameHeight /\ \A p \in changed : p[2] <= y'
    BY <1>1, <1>2, <2>1, <2>2, <2>3, RectOnly, SMTT(30)
  <2>5. RectInv'
    BY <1>1, <1>2, <2>1, <2>4, RectOnly DEF RectInv, TopFound
  <2> QED BY <1>1, <2>1, <2>4, <2>5, RectOnly, RectStep
<1>4. CASE ChangedInLine # {}
  <2>1. /\ box' = [box EXCEPT !.maxX = Last(ChangedInLine), !.maxY = y]
        /\ pc' = "sides" /\ y' = y
    BY <1>4 DEF FindBottom
  <2>2. /\ Last(ChangedInLine) \in Columns
        /\ \A p \in changed : p[2] = y => p[1] <= Last(ChangedInLine)
    BY <1>1, <1>4, LineEnds
  <2>3. /\ box' \in [minX : Nat, minY : Nat, maxX : Nat, maxY : Nat]
        /\ box'.minX = box.minX /\ box'.minY = box.minY
        /\ box'.maxX = Last(ChangedInLine) /\ box'.maxY = y
    <3>1. Last(ChangedInLine) \in Nat /\ y \in Nat
      BY <1>1, <2>2, RectOnly DEF Columns
    <3>2. box \in [minX : Nat, minY : Nat, maxX : Nat, maxY : Nat]
      BY <1>1, RectOnly
    <3> QED BY <2>1, <3>1, <3>2
  <2>4. box.minX \in Columns /\ box.minY \in Rows
    BY <1>1, <1>2, RectOnly DEF TopFound, Columns, Rows
  <2>5. Bounded'
    BY <1>1, <1>2, <2>1, <2>2, <2>3, <2>4, RectOnly DEF Bounded, TopFound
  <2>6. RectInv'
    BY <1>1, <2>1, <2>3, <2>5, RectOnly DEF RectInv
  <2> QED BY <1>1, <2>1, <2>6, RectOnly, RectStep
<1> QED BY <1>3, <1>4

-----------------------------------------------------------------------------
(* The pixels in memory, one scanline behind the other *)

LEMMA PlaceInMemory ==
  ASSUME NEW w \in Nat \ {0}, NEW h \in Nat, NEW r \in Nat, r < h, NEW c \in Nat, c < w
  PROVE  /\ r * w + c \in Nat /\ r * w + c < w * h
         /\ (r * w + c) % w = c /\ (r * w + c) \div w = r
<1>1. r * w = w * r /\ w * r \in Nat /\ c \in 0..w - 1
  OBVIOUS
<1>2. (w * r + c) % w = c /\ (w * r + c) \div w = r
  BY <1>1, QuotientIs
<1>3. w * (h - 1 - r) >= 0 /\ w * (h - 1 - r) = w * h - w - w * r
  <2>1. h - 1 - r \in Nat
    OBVIOUS
  <2> QED BY <2>1, ProductsAreNat
<1>4. w * h \in Nat
  OBVIOUS
<1> QED BY <1>1, <1>2, <1>3, <1>4

\* Further behind in memory is further down, or further right on the scanline.
LEMMA RowMajor ==
  ASSUME NEW w \in Nat \ {0}, NEW r \in Nat, NEW c \in Nat, c < w, NEW s \in Nat, NEW d \in Nat,
         d < w, r * w + c <= s * w + d
  PROVE  r <= s /\ (r = s => c <= d)
<1>1. ~(s + 1 <= r)
  <2> SUFFICES ASSUME s + 1 <= r PROVE FALSE
    OBVIOUS
  <2>1. (r - s) * w >= w
    <3>1. (r - (s + 1)) * w >= 0 /\ (r - (s + 1)) * w = (r - s) * w - w
      <4>1. r - (s + 1) \in Nat
        OBVIOUS
      <4> QED BY <4>1, ProductsAreNat
    <3> QED BY <3>1
  <2>2. (r - s) * w = r * w - s * w /\ r * w \in Nat /\ s * w \in Nat
    OBVIOUS
  <2> QED BY <2>1, <2>2
<1>2. r * w \in Nat /\ s * w \in Nat
  OBVIOUS
<1> QED BY <1>1, <1>2

LEMMA ChangedInMemory ==
  ASSUME IInv, pc \in {"linear", "last", "precise"}, NEW p \in changed
  PROVE  PixelAt(p) \in Nat /\ PixelAt(p) < NumPixels /\ ChangedAt(PixelAt(p))
<1>1. PICK r \in Nat, c \in Nat : p = <<c, r>> /\ c < FrameWidth /\ r < FrameHeight
  BY RectOnly
<1>2. PixelAt(p) = r * FrameWidth + c
  BY <1>1 DEF PixelAt
<1>3. /\ PixelAt(p) \in Nat /\ PixelAt(p) < NumPixels
      /\ PixelAt(p) % FrameWidth = c /\ PixelAt(p) \div FrameWidth = r
  BY <1>1, <1>2, PlaceInMemory, DiffAssumption DEF NumPixels
<1>4. PixelAt(p) # NumPixels
  BY <1>3, RectOnly
<1> QED BY <1>1, <1>3, <1>4 DEF ChangedAt

\* Back from memory to the position.
LEMMA PositionOf ==
  ASSUME IInv, pc \in {"linear", "last", "precise"}, NEW n \in Nat, n < NumPixels, ChangedAt(n)
  PROVE  /\ <<n % FrameWidth, n \div FrameWidth>> \in changed
         /\ n % FrameWidth \in Nat /\ n % FrameWidth < FrameWidth /\ n \div FrameWidth \in Nat
         /\ n = (n \div FrameWidth) * FrameWidth + (n % FrameWidth)
<1>1. <<n % FrameWidth, n \div FrameWidth>> \in changed
  <2>1. n # NumPixels
    BY RectOnly
  <2> QED BY <2>1 DEF ChangedAt
<1> DEFINE r == n \div FrameWidth
           c == n % FrameWidth
<1>2. n = FrameWidth * r + c /\ r \in Int /\ c \in 0..FrameWidth - 1
  BY Quotient, DiffAssumption
<1> HIDE DEF r, c
<1>3. r \in Nat /\ FrameWidth * r = r * FrameWidth
  BY <1>1, <1>2, RectOnly DEF r
<1> QED BY <1>1, <1>2, <1>3, RectOnly DEF r, c

\* An earlier changed pixel.
LEMMA EarlierInMemory ==
  ASSUME IInv, pc \in {"linear", "last", "precise"}, NEW p \in changed, NEW q \in changed,
         PixelAt(p) <= PixelAt(q)
  PROVE  p[2] <= q[2] /\ (p[2] = q[2] => p[1] <= q[1])
<1>1. PICK r \in Nat, c \in Nat : p = <<c, r>> /\ c < FrameWidth
  BY RectOnly
<1>2. PICK s \in Nat, d \in Nat : q = <<d, s>> /\ d < FrameWidth
  BY RectOnly
<1>3. r * FrameWidth + c <= s * FrameWidth + d
  BY <1>1, <1>2 DEF PixelAt
<1>4. r <= s /\ (r = s => c <= d)
  BY <1>1, <1>2, <1>3, RowMajor, DiffAssumption
<1> QED BY <1>1, <1>2, <1>4

\* The groups fill the frame.
LEMMA GroupsInMemory ==
  ASSUME IInv, pc \in {"linear", "last", "precise"}
  PROVE  /\ NumPixels % Group = 0 /\ 0 % Group = 0
         /\ x % Group = 0 /\ x <= NumPixels
<1>1. FrameWidth % Align = 0 /\ x % Group = 0 /\ x <= NumPixels
  BY RectOnly DEF RectInv
<1>2. /\ FrameWidth \in Int /\ Align \in Nat \ {0} /\ Align \in Int /\ Group \in Nat \ {0}
      /\ FrameHeight \in Int /\ Group \in Int /\ Align % Group = 0
  BY RectOnly
<1>3. PICK a \in Int : FrameWidth = Align * a
  BY <1>1, <1>2, Factor, Zenon
<1>4. PICK b \in Int : Align = Group * b
  BY <1>2, Factor, Zenon
<1>5. PICK q \in Int : NumPixels = Group * q
  <2>1. NumPixels = ((Group * b) * a) * FrameHeight
    BY <1>3, <1>4, Zenon DEF NumPixels
  <2>2. /\ ((Group * b) * a) * FrameHeight = Group * ((b * a) * FrameHeight)
        /\ (b * a) * FrameHeight \in Int
    BY <1>2, <1>3, <1>4, Product
  <2> QED BY <2>1, <2>2, Zenon
<1>6. NumPixels % Group = 0
  BY <1>2, <1>5, Multiple
<1>7. 0 % Group = 0
  BY <1>2
<1> QED BY <1>1, <1>6, <1>7

LEMMA MemoryStays ==
  ASSUME UNCHANGED input
  PROVE  \A n, m : Same(n, m)' <=> Same(n, m)
BY DEF Same, ChangedAt, input

\* The first changed pixel of a group.
LEMMA FirstFrom ==
  ASSUME NEW n \in Nat, Group \in Nat \ {0}, ChangedFrom(n) # {}
  PROVE  /\ First(ChangedFrom(n)) \in Nat /\ ChangedAt(First(ChangedFrom(n)))
         /\ n <= First(ChangedFrom(n)) /\ First(ChangedFrom(n)) < n + Group
         /\ \A m \in n..n + Group - 1 : ChangedAt(m) => First(ChangedFrom(n)) <= m
<1> DEFINE S == ChangedFrom(n)
<1>1. \A m \in S : m \in Nat /\ ChangedAt(m) /\ n <= m /\ m < n + Group
  BY DEF ChangedFrom
<1>2. \A m \in n..n + Group - 1 : ChangedAt(m) => m \in S
  BY DEF ChangedFrom
<1> HIDE DEF S
<1>3. First(S) \in S /\ \A d \in S : First(S) <= d
  BY <1>1, FirstIsLeast DEF S
<1> QED BY <1>1, <1>2, <1>3 DEF S

LEMMA FindFirstStep ==
  ASSUME IInv, FindFirst
  PROVE  IInv'
<1>1. /\ pc = "linear" /\ UNCHANGED <<input, i, j>>
      /\ UNCHANGED <<y, start, end, unchanged, spans>>
      /\ changed' = changed /\ behind' = behind
  BY DEF FindFirst, input
<1>2. Same(0, x - 1) /\ FrameWidth % Align = 0 /\ x <= NumPixels /\ x % Group = 0
  BY <1>1, RectOnly DEF RectInv
<1>3. ASSUME NEW p \in changed PROVE PixelAt(p) \in Nat /\ x <= PixelAt(p)
  <2>1. PICK q \in Nat : q = PixelAt(p) /\ ChangedAt(q)
    BY <1>1, ChangedInMemory
  <2>2. x \in Nat /\ \A k \in 0..x - 1 : ~ChangedAt(k)
    BY <1>1, <1>2, RectOnly DEF Same
  <2>3. ~(q <= x - 1)
    BY <2>1, <2>2
  <2> QED BY <2>1, <2>2, <2>3
<1>4. CASE x = NumPixels
  <2>1. pc' = "done" /\ UNCHANGED <<box, x>>
    BY <1>4 DEF FindFirst
  <2>2. changed = {}
    <3>1. ASSUME NEW p \in changed PROVE FALSE
      BY <1>1, <1>3, <1>4, ChangedInMemory, RectOnly
    <3> QED BY <3>1
  <2>3. RectInv'
    BY <1>1, <2>1, <2>2, RectOnly DEF RectInv
  <2> QED BY <1>1, <2>1, <2>3, RectOnly, RectStep
<1>5. ASSUME x # NumPixels
      PROVE  x + Group <= NumPixels /\ (x + Group) % Group = 0
  BY <1>1, <1>2, <1>5, GroupsInMemory, NextGroup, RectOnly
<1>6. CASE x # NumPixels /\ ChangedFrom(x) = {}
  <2>1. x' = x + Group /\ UNCHANGED <<box, pc>>
    BY <1>6 DEF FindFirst
  <2>2. Same(0, x + Group - 1)
    <3> SUFFICES ASSUME NEW m \in 0..x + Group - 1 PROVE ~ChangedAt(m)
      BY DEF Same
    <3>1. CASE m < x
      BY <1>1, <1>2, <3>1, RectOnly DEF Same
    <3>2. CASE ~(m < x)
      BY <1>1, <1>6, <3>2, RectOnly DEF ChangedFrom
    <3> QED BY <3>1, <3>2
  <2>3. RectInv'
    <3>1. (Same(0, x - 1))'
      <4> SUFFICES ASSUME NEW m \in 0..x' - 1 PROVE ~(ChangedAt(m)')
        BY DEF Same
      <4>1. m \in 0..x + Group - 1
        BY <1>1, <2>1, RectOnly
      <4>2. ChangedAt(m)' <=> ChangedAt(m)
        BY <1>1 DEF ChangedAt, input, NumPixels
      <4> QED BY <2>2, <4>1, <4>2 DEF Same
    <3> QED BY <1>1, <1>2, <1>5, <1>6, <2>1, <3>1, RectOnly DEF RectInv, NumPixels
  <2> QED BY <1>1, <2>1, <2>3, RectOnly, RectStep
<1>7. CASE x # NumPixels /\ ChangedFrom(x) # {}
  <2> DEFINE n == First(ChangedFrom(x))
  <2>1. /\ box' = [box EXCEPT !.minX = n % FrameWidth, !.minY = n \div FrameWidth]
        /\ x' = NumPixels /\ pc' = "last"
    BY <1>7 DEF FindFirst
  <2>2. /\ n \in Nat /\ ChangedAt(n) /\ x <= n /\ n < x + Group
        /\ \A m \in x..x + Group - 1 : ChangedAt(m) => n <= m
    BY <1>1, <1>7, FirstFrom, RectOnly
  <2> HIDE DEF n
  <2>3. n < NumPixels
    <3>1. x + Group <= NumPixels
      BY <1>5, <1>7
    <3>2. x \in Nat /\ Group \in Nat /\ NumPixels \in Nat
      BY <1>1, RectOnly
    <3>3. n \in Nat /\ n < x + Group
      BY <2>2
    <3> QED BY <3>1, <3>2, <3>3
  <2> DEFINE q == <<n % FrameWidth, n \div FrameWidth>>
  <2>4. q \in changed /\ n % FrameWidth \in Nat /\ n \div FrameWidth \in Nat /\ PixelAt(q) = n
    BY <1>1, <2>2, <2>3, PositionOf DEF PixelAt
  <2>5. ASSUME NEW p \in changed PROVE n \div FrameWidth <= p[2]
    <3>1. PixelAt(p) \in Nat /\ ChangedAt(PixelAt(p)) /\ x <= PixelAt(p)
      BY <1>1, <1>3, ChangedInMemory
    <3>2. n <= PixelAt(p)
      <4>1. PICK m \in Nat : m = PixelAt(p)
        BY <3>1
      <4>2. ChangedAt(m) /\ x <= m
        BY <3>1, <4>1
      <4>3. x \in Nat /\ Group \in Nat
        BY <1>1, RectOnly
      <4>4. m < x + Group => n <= m
        BY <2>2, <4>2, <4>3
      <4> QED BY <2>2, <4>1, <4>3, <4>4
    <3>3. q[2] <= p[2]
      <4> HIDE DEF q
      <4> QED BY <1>1, <2>4, <3>2, EarlierInMemory
    <3> QED BY <3>3
  <2>6. /\ box' \in [minX : Nat, minY : Nat, maxX : Nat, maxY : Nat]
        /\ <<box'.minX, box'.minY>> = q /\ box'.minY = n \div FrameWidth
    BY <1>1, <2>1, <2>4, RectOnly
  <2>7. TopFound'
    BY <1>1, <2>4, <2>5, <2>6 DEF TopFound
  <2>8. PixelAt(<<box.minX, box.minY>>)' < NumPixels
    BY <2>3, <2>4, <2>6 DEF PixelAt
  <2>9. (Same(x, NumPixels - 1))'
    <3>1. PICK k \in Nat : k = NumPixels /\ NumPixels' = k /\ x' = k
      <4>1. NumPixels \in Nat
        BY <1>1, RectOnly
      <4>2. NumPixels' = NumPixels
        BY DEF NumPixels
      <4> QED BY <2>1, <4>1, <4>2
    <3>2. k..k - 1 = {}
      OBVIOUS
    <3> QED BY <3>1, <3>2 DEF Same
  <2>10. RectInv'
    <3>1. x' <= NumPixels' /\ x' % Group = 0
      <4>1. NumPixels \in Nat /\ NumPixels % Group = 0
        BY <1>1, GroupsInMemory, RectOnly
      <4>2. NumPixels' = NumPixels
        BY DEF NumPixels
      <4> QED BY <2>1, <4>1, <4>2
    <3>2. PixelAt(<<box.minX, box.minY>>)' < x'
      BY <2>1, <2>8
    <3>3. spans' = <<>> /\ i' = 1 /\ box' \in [minX : Nat, minY : Nat, maxX : Nat, maxY : Nat]
      BY <1>1, <2>6, RectOnly DEF RectInv
    <3> QED BY <1>2, <2>1, <2>7, <2>9, <3>1, <3>2, <3>3 DEF RectInv
  <2> QED BY <1>1, <2>1, <2>10, RectOnly, RectStep
<1> QED BY <1>4, <1>6, <1>7

LEMMA SkipGroupBackStep ==
  ASSUME IInv, SkipGroupBack
  PROVE  IInv'
<1>1. /\ pc = "last" /\ UNCHANGED <<input, i, j>>
      /\ UNCHANGED <<box, y, start, end, unchanged, spans>>
      /\ changed' = changed /\ behind' = behind
  BY DEF SkipGroupBack, input
<1> DEFINE p0 == <<box.minX, box.minY>>
<1>2. /\ TopFound /\ PixelAt(p0) < x /\ Same(x, NumPixels - 1) /\ p0 \in changed
      /\ FrameWidth % Align = 0 /\ x <= NumPixels /\ x % Group = 0
  BY <1>1, RectOnly DEF RectInv, TopFound
<1>3. PixelAt(p0) \in Nat /\ ChangedAt(PixelAt(p0))
  <2> HIDE DEF p0
  <2> QED BY <1>1, <1>2, ChangedInMemory
<1>4. CASE ChangedFrom(x - Group) = {}
  <2>1. x' = x - Group /\ pc' = pc
    BY <1>4 DEF SkipGroupBack
  <2>2. x - Group \in Nat /\ (x - Group) % Group = 0
    <3>1. 0 < x
      BY <1>1, <1>2, <1>3, RectOnly
    <3>2. 0 + Group <= x /\ (x - Group) % Group = 0
      BY <1>1, <1>2, <3>1, NextGroup, GroupsInMemory, RectOnly
    <3> QED BY <1>1, <3>2, RectOnly
  <2>3. \A m \in Nat : x - Group <= m /\ m < x => ~ChangedAt(m)
    BY <1>1, <1>4, <2>2, RectOnly, SMTT(30) DEF ChangedFrom
  <2>4. PixelAt(p0) < x - Group
    <3> HIDE DEF p0
    <3>1. PICK m \in Nat : m = PixelAt(p0) /\ ChangedAt(m) /\ m < x
      BY <1>2, <1>3
    <3>2. ~(x - Group <= m)
      BY <2>3, <3>1
    <3>3. m < x - Group
      BY <2>2, <3>2
    <3> QED BY <3>1, <3>3
  <2>5. (Same(x, NumPixels - 1))'
    <3> SUFFICES ASSUME NEW m \in x'..NumPixels' - 1 PROVE ~(ChangedAt(m)')
      BY DEF Same
    <3>1. m \in Nat /\ x - Group <= m /\ m <= NumPixels - 1
      <4>1. m \in x - Group..NumPixels - 1 /\ NumPixels \in Nat
        BY <1>1, <2>1, RectOnly
      <4> QED BY <2>2, <4>1
    <3>2. ChangedAt(m)' <=> ChangedAt(m)
      BY <1>1 DEF ChangedAt, input, NumPixels
    <3> QED BY <1>1, <1>2, <2>3, <3>1, <3>2, RectOnly DEF Same
  <2>6. PixelAt(<<box.minX, box.minY>>)' < x'
    BY <1>1, <2>1, <2>4 DEF PixelAt
  <2>7. x' <= NumPixels
    <3>1. x \in Nat /\ Group \in Nat /\ NumPixels \in Nat
      BY <1>1, RectOnly
    <3> QED BY <1>2, <2>1, <3>1
  <2>8. RectInv'
    BY <1>1, <1>2, <2>1, <2>2, <2>5, <2>6, <2>7, RectOnly DEF RectInv, TopFound
  <2> QED BY <1>1, <2>1, <2>2, <2>8, RectOnly, RectStep
<1>5. CASE ChangedFrom(x - Group) # {}
  <2>1. pc' = "precise" /\ x' = x
    BY <1>5 DEF SkipGroupBack
  <2>2. (Same(x, NumPixels - 1))' /\ PixelAt(<<box.minX, box.minY>>)' < x' /\ TopFound'
    BY <1>1, <1>2, <2>1 DEF Same, ChangedAt, input, NumPixels, PixelAt, TopFound
  <2>3. RectInv'
    BY <1>1, <1>2, <2>1, <2>2, RectOnly DEF RectInv, NumPixels
  <2> QED BY <1>1, <2>1, <2>3, RectOnly, RectStep
<1> QED BY <1>4, <1>5

\* The words behind the framebuffers are below the frame, in its first column.
LEMMA BehindTheFrame ==
  ASSUME NEW w \in Nat \ {0}, NEW h \in Nat
  PROVE  (w * h) % w = 0 /\ (w * h) \div w = h
<1>1. w * h + 0 = w * h /\ 0 \in 0..w - 1
  OBVIOUS
<1> QED BY <1>1, QuotientIs

LEMMA FindLastStep ==
  ASSUME IInv, FindLast
  PROVE  IInv'
<1> DEFINE S == {m \in 0..x : ChangedAt(m)}
           n == Last(S)
<1>1. /\ pc = "precise" /\ UNCHANGED <<input, i, j>>
      /\ UNCHANGED <<x, y, start, end, unchanged, spans>>
      /\ changed' = changed /\ behind' = behind
      /\ box' = [box EXCEPT !.maxX = n % FrameWidth, !.maxY = n \div FrameWidth]
      /\ pc' = "sides"
  BY DEF FindLast, input
<1> DEFINE p0 == <<box.minX, box.minY>>
<1>2. /\ TopFound /\ PixelAt(p0) < x /\ Same(x, NumPixels - 1) /\ p0 \in changed
      /\ x <= NumPixels
  BY <1>1, RectOnly DEF RectInv, TopFound
<1>3. ASSUME NEW p \in changed PROVE PixelAt(p) \in Nat /\ PixelAt(p) < x /\ PixelAt(p) \in S
  <2>1. PixelAt(p) \in Nat /\ PixelAt(p) < NumPixels /\ ChangedAt(PixelAt(p))
    BY <1>1, <1>3, ChangedInMemory
  <2>2. PixelAt(p) < x
    <3>1. x \in Nat /\ NumPixels \in Nat
      BY <1>1, RectOnly
    <3>2. \A m \in x..NumPixels - 1 : ~ChangedAt(m)
      BY <1>2 DEF Same
    <3> HIDE DEF S, n
    <3> QED BY <2>1, <3>1, <3>2
  <2>3. PixelAt(p) \in 0..x
    BY <1>1, <2>1, <2>2, RectOnly, SMTT(30)
  <2> QED BY <2>1, <2>2, <2>3, Zenon
<1>4. n \in Nat /\ n <= x /\ ChangedAt(n) /\ \A p \in changed : PixelAt(p) <= n
  <2>1. S \subseteq Nat /\ S # {} /\ \A m \in S : m <= x
    BY <1>1, <1>2, <1>3, RectOnly, SMTT(30)
  <2>2. \A m \in S : ChangedAt(m)
    OBVIOUS
  <2> HIDE DEF S
  <2>3. n \in S /\ \A m \in S : m <= n
    BY <1>1, <2>1, LastIsGreatest, RectOnly
  <2> QED BY <1>3, <2>1, <2>2, <2>3
<1> HIDE DEF S, n
<1>5. box.minX \in Columns /\ box.minY \in Rows
  BY <1>1, <1>2, RectOnly, SMTT(30) DEF Columns, Rows
<1> DEFINE c == n % FrameWidth
           r == n \div FrameWidth
<1>6. CASE n < NumPixels
  <2> DEFINE q == <<c, r>>
  <2>1. q \in changed /\ c \in Nat /\ c < FrameWidth /\ r \in Nat /\ PixelAt(q) = n
    BY <1>1, <1>4, <1>6, PositionOf DEF PixelAt
  <2>2. r < FrameHeight
    BY <1>1, <2>1, RectOnly
  <2>3. ASSUME NEW p \in changed PROVE p[2] <= r /\ (p[2] = r => p[1] <= c)
    <3>1. PixelAt(p) <= PixelAt(q)
      BY <1>4, <2>1
    <3>2. p[2] <= q[2] /\ (p[2] = q[2] => p[1] <= q[1])
      <4> HIDE DEF q
      <4> QED BY <1>1, <2>1, <3>1, EarlierInMemory
    <3> QED BY <3>2
  <2> HIDE DEF c, r
  <2>4. box.minY <= r
    <3>1. p0[2] <= r
      <4> HIDE DEF p0
      <4> QED BY <1>2, <2>3
    <3> QED BY <3>1
  <2>5. /\ box' \in [minX : Nat, minY : Nat, maxX : Nat, maxY : Nat]
        /\ box'.minX = box.minX /\ box'.minY = box.minY /\ box'.maxX = c /\ box'.maxY = r
    <3>1. box' = [box EXCEPT !.maxX = c, !.maxY = r]
      BY <1>1 DEF c, r
    <3> QED BY <1>1, <2>1, <3>1, RectOnly
  <2>6. Bounded'
    <3>1. c \in Columns
      BY <2>1, DiffAssumption DEF Columns
    <3>2. \A p \in changed : box.minY <= p[2]
      BY <1>2 DEF TopFound
    <3> QED BY <1>1, <1>5, <2>2, <2>3, <2>4, <2>5, <3>1, <3>2 DEF Bounded
  <2>7. RectInv'
    BY <1>1, <2>5, <2>6, RectOnly DEF RectInv
  <2> QED BY <1>1, <2>7, RectOnly, RectStep
<1>7. CASE ~(n < NumPixels)
  <2>1. n = NumPixels /\ behind
    <3>1. n = NumPixels
      <4>1. x \in Nat /\ NumPixels \in Nat
        BY <1>1, RectOnly
      <4>2. n \in Nat /\ n <= x /\ x <= NumPixels
        BY <1>2, <1>4
      <4> QED BY <1>7, <4>1, <4>2
    <3> QED BY <1>4, <3>1 DEF ChangedAt
  <2>2. c = 0 /\ r = FrameHeight
    BY <1>1, <2>1, BehindTheFrame, RectOnly DEF NumPixels
  <2> HIDE DEF c, r
  <2>3. /\ box' \in [minX : Nat, minY : Nat, maxX : Nat, maxY : Nat]
        /\ box'.minX = box.minX /\ box'.minY = box.minY
        /\ box'.maxX = 0 /\ box'.maxY = FrameHeight
    <3>1. box' = [box EXCEPT !.maxX = 0, !.maxY = FrameHeight]
      BY <1>1, <2>2 DEF c, r
    <3>2. box \in [minX : Nat, minY : Nat, maxX : Nat, maxY : Nat] /\ FrameHeight \in Nat
      BY <1>1, RectOnly
    <3> HIDE DEF p0
    <3> QED BY <3>1, <3>2
  <2>4. Bounded'
    <3>1. 0 \in Columns
      BY DiffAssumption DEF Columns
    <3>2. box.minY <= FrameHeight
      BY <1>5, DiffAssumption DEF Rows
    <3>3. \A p \in changed : /\ box.minY <= p[2] /\ p[2] <= FrameHeight /\ p[2] # FrameHeight
      BY <1>1, <1>2, RectOnly, SMTT(30) DEF TopFound
    <3> QED BY <1>1, <1>5, <2>1, <2>3, <3>1, <3>2, <3>3 DEF Bounded
  <2>5. RectInv'
    BY <1>1, <2>3, <2>4, RectOnly DEF RectInv
  <2> QED BY <1>1, <2>5, RectOnly, RectStep
<1> QED BY <1>6, <1>7

-----------------------------------------------------------------------------
(* The sides of the rectangle, and its alignment *)

LEMMA FindSidesStep ==
  ASSUME IInv, FindSides
  PROVE  IInv'
<1> DEFINE left == Least(box.minX, box.maxX)
           right == Greatest(box.minX, box.maxX)
           S == {left} \cup {c \in ChangedColumns : c < left}
           T == {right} \cup {c \in ChangedColumns : c > right}
<1>1. /\ pc = "sides" /\ UNCHANGED <<input, i, j>>
      /\ UNCHANGED <<box, x, y, unchanged, spans>>
      /\ changed' = changed /\ behind' = behind
      /\ start' = First(S) /\ end' = 1 + Last(T) /\ pc' = "align"
  BY DEF FindSides, input
<1>2. /\ Bounded /\ box.minX \in Nat /\ box.maxX \in Nat
      /\ box.minX < FrameWidth /\ box.maxX < FrameWidth /\ FrameWidth \in Nat
  BY <1>1, RectOnly DEF RectInv, Bounded, Columns
<1>3. /\ left \in Nat /\ left <= box.maxX
      /\ right \in Nat /\ right < FrameWidth /\ box.maxX <= right
  BY <1>2 DEF Least, Greatest
<1>4. ASSUME NEW p \in changed PROVE p[1] \in ChangedColumns
  <2>1. box.minY <= p[2] /\ p[2] <= box.maxY
    BY <1>2 DEF Bounded
  <2>2. p[2] \in box.minY..box.maxY
    BY <1>1, <2>1, RectOnly
  <2> QED BY <2>2, Zenon DEF ChangedColumns
<1>5. ASSUME NEW c \in ChangedColumns PROVE c \in Nat /\ c < FrameWidth
  BY <1>1, RectOnly DEF ChangedColumns
<1> HIDE DEF left, right
<1>6. S \subseteq Nat /\ left \in S /\ \A c \in ChangedColumns : c < left => c \in S
  BY <1>3, <1>5
<1>7. /\ T \subseteq Nat /\ right \in T /\ \A c \in ChangedColumns : c > right => c \in T
      /\ \A c \in T : c < FrameWidth
  BY <1>3, <1>5
<1> HIDE DEF S, T
<1>8. start' \in S /\ \A c \in S : start' <= c
  BY <1>1, <1>6, FirstIsLeast
<1>9. Last(T) \in T /\ \A c \in T : c <= Last(T)
  <2>1. T # {} /\ \A c \in T : c <= FrameWidth
    BY <1>2, <1>7
  <2> QED BY <1>2, <1>7, <2>1, LastIsGreatest
<1>10. start' \in Nat /\ start' <= box.maxX /\ \A c \in ChangedColumns : start' <= c
  BY <1>2, <1>3, <1>5, <1>6, <1>8
<1>11. /\ end' \in Nat /\ box.maxX < end' /\ end' <= FrameWidth
       /\ \A c \in ChangedColumns : c < end'
  <2>1. Last(T) \in Nat /\ right <= Last(T) /\ Last(T) < FrameWidth
    BY <1>7, <1>9
  <2>2. \A c \in ChangedColumns : c <= Last(T)
    BY <1>3, <1>5, <1>7, <1>9, <2>1
  <2> QED BY <1>1, <1>2, <1>3, <1>5, <2>1, <2>2
<1>12. Bounded'
  BY <1>1, <1>2 DEF Bounded
<1>13. RectInv'
  BY <1>1, <1>4, <1>10, <1>11, <1>12, RectOnly DEF RectInv
<1> QED BY <1>1, <1>10, <1>11, <1>13, RectOnly, RectStep

LEMMA AlignedDown ==
  ASSUME NEW n \in Nat
  PROVE  AlignDown(n) \in Nat /\ AlignDown(n) <= n /\ n < AlignDown(n) + Align
<1> DEFINE q == n \div Align
           r == n % Align
<1>1. n = Align * q + r /\ q \in Int /\ r \in 0..Align - 1 /\ Align \in Nat \ {0}
  BY Quotient, DiffAssumption
<1>2. AlignDown(n) = Align * q
  BY DEF AlignDown
<1>3. q \in Nat
  BY DiffAssumption
<1> HIDE DEF q, r
<1>4. Align * q \in Nat
  BY <1>1, <1>3, ProductsAreNat
<1> QED BY <1>1, <1>2, <1>4

LEMMA AlignedUp ==
  ASSUME NEW n \in Nat
  PROVE  AlignUp(n) \in Nat /\ n <= AlignUp(n)
<1>1. n + Align - 1 \in Nat /\ Align \in Nat
  BY DiffAssumption
<1>2. AlignDown(n + Align - 1) \in Nat /\ n + Align - 1 < AlignDown(n + Align - 1) + Align
  BY <1>1, AlignedDown
<1> QED BY <1>1, <1>2 DEF AlignUp

\* What is rounded up does not pass a multiple it does not pass, nor what is larger, rounded.
LEMMA AlignedUpAtMost ==
  ASSUME NEW n \in Nat, NEW m \in Nat, n <= m
  PROVE  /\ m % Align = 0 => AlignUp(n) <= m
         /\ AlignUp(n) <= AlignUp(m)
<1> DEFINE a == (n + Align - 1) \div Align
           b == (m + Align - 1) \div Align
<1>1. Align \in Nat \ {0} /\ n + Align - 1 \in Int /\ m + Align - 1 \in Int
  BY DiffAssumption
<1>2. /\ a \in Int /\ Align * a <= n + Align - 1 /\ n + Align - 1 < Align * a + Align
      /\ b \in Int /\ Align * b <= m + Align - 1 /\ m + Align - 1 < Align * b + Align
  BY <1>1, Quotient
<1>3. AlignUp(n) = Align * a /\ AlignUp(m) = Align * b
  BY DEF AlignUp, AlignDown
<1> HIDE DEF a, b
<1>4. Align * a \in Int /\ Align * b \in Int
  BY <1>1, <1>2
<1>5. ASSUME NEW c \in Int, n + Align - 1 < Align * c + Align, Align * a > Align * c PROVE FALSE
  <2>1. a >= c + 1
    <3> SUFFICES ASSUME a <= c PROVE FALSE
      BY <1>2
    <3>1. Align * (c - a) >= 0 /\ Align * (c - a) = Align * c - Align * a
      BY <1>1, <1>2
    <3> QED BY <1>1, <1>2, <1>5, <3>1
  <2>2. Align * (a - (c + 1)) >= 0 /\ Align * (a - (c + 1)) = Align * a - Align * c - Align
    BY <1>1, <1>2, <2>1
  <2>3. Align * c \in Int
    BY <1>1
  <2> QED BY <1>1, <1>2, <1>4, <1>5, <2>2, <2>3
<1>6. AlignUp(n) <= AlignUp(m)
  BY <1>1, <1>2, <1>3, <1>4, <1>5
<1>7. ASSUME m % Align = 0 PROVE AlignUp(n) <= m
  <2>1. PICK c \in Int : m = Align * c
    BY <1>1, <1>7, Factor
  <2>2. n + Align - 1 < Align * c + Align
    BY <1>1, <2>1
  <2>3. ~(Align * a > Align * c)
    BY <1>5, <2>2
  <2> QED BY <1>3, <1>4, <2>1, <2>3
<1> QED BY <1>6, <1>7

LEMMA EmitRectangleStep ==
  ASSUME IInv, EmitRectangle
  PROVE  IInv'
<1> DEFINE x0 == AlignDown(start)
           x1 == Least(FrameWidth, AlignUp(end))
           last == AlignUp(box.maxX + 1)
           h == box.maxY - box.minY
           s == [x |-> x0, endX |-> x1, lastScanEndX |-> last,
                 y |-> box.minY, endY |-> box.maxY + 1,
                 size |-> (x1 - x0) * h + (last - x0)]
<1>1. /\ pc = "align" /\ pc' = "done" /\ UNCHANGED <<input, box, scan, i, j>> /\ spans' = <<s>>
      /\ changed' = changed /\ behind' = behind /\ box' = box
  BY DEF EmitRectangle, input
<1>2. /\ Bounded /\ start <= box.maxX /\ box.maxX < end /\ end <= FrameWidth
      /\ \A p \in changed : start <= p[1] /\ p[1] < end
      /\ start \in Nat /\ end \in Nat /\ FrameWidth \in Nat /\ FrameHeight \in Nat
      /\ box.minX \in Nat /\ box.maxX \in Nat /\ box.minY \in Nat /\ box.maxY \in Nat
      /\ box.minY <= box.maxY /\ box.maxX < FrameWidth
  BY <1>1, RectOnly DEF RectInv, Bounded, Columns
<1>3. /\ x0 \in Nat /\ x0 <= start
      /\ AlignUp(end) \in Nat /\ end <= AlignUp(end)
      /\ last \in Nat /\ box.maxX < last /\ box.maxX + 1 \in Nat
  <2>1. box.maxX + 1 \in Nat
    BY <1>2
  <2>2. last \in Nat /\ box.maxX + 1 <= last
    BY <2>1, AlignedUp
  <2>3. x0 \in Nat /\ x0 <= start /\ AlignUp(end) \in Nat /\ end <= AlignUp(end)
    BY <1>2, AlignedDown, AlignedUp
  <2> HIDE DEF x0, last
  <2> QED BY <1>2, <2>1, <2>2, <2>3
<1>4. x1 \in Nat /\ x0 < x1 /\ end <= x1 /\ x1 <= FrameWidth
  <2> HIDE DEF x0
  <2> QED BY <1>2, <1>3 DEF Least
<1>5. ASSUME FrameWidth % Align = 0 PROVE last <= x1
  <2>1. last <= AlignUp(end) /\ last <= FrameWidth
    BY <1>2, <1>3, <1>5, AlignedUpAtMost
  <2> HIDE DEF last
  <2> QED BY <1>2, <1>3, <2>1 DEF Least
<1>6. s.size \in Nat
  <2>1. x1 - x0 \in Nat /\ h \in Nat /\ last - x0 \in Nat
    <3> HIDE DEF x0, x1, last
    <3> QED BY <1>2, <1>3, <1>4
  <2> HIDE DEF x0, x1, last, h
  <2>2. (x1 - x0) * h \in Nat
    BY <2>1, ProductsAreNat
  <2> QED BY <2>1, <2>2
<1>7. s \in Span
  <2>1. box.maxY + 1 \in Nat
    BY <1>2
  <2> HIDE DEF x0, x1, last, h
  <2> QED BY <1>2, <1>3, <1>4, <1>6, <2>1 DEF Span
<1>8. /\ s.x = x0 /\ s.endX = x1 /\ s.lastScanEndX = last /\ s.y = box.minY
      /\ s.endY = box.maxY + 1 /\ s.size = (x1 - x0) * h + (last - x0)
  <2> HIDE DEF x0, x1, last, h
  <2> QED OBVIOUS
<1> HIDE DEF s, x0, x1, last
<1>9. s.size = (s.endX - s.x) * (s.endY - s.y - 1) + (s.lastScanEndX - s.x)
  <2>1. s.endY - s.y - 1 = h
    BY <1>2, <1>8
  <2> HIDE DEF h
  <2> QED BY <1>8, <2>1, Zenon
<1> HIDE DEF h
<1>10. \A p \in changed : Contains(s, p)
  <2> SUFFICES ASSUME NEW p \in changed PROVE Contains(s, p)
    OBVIOUS
  <2>1. /\ box.minY <= p[2] /\ p[2] <= box.maxY /\ (p[2] = box.maxY => p[1] <= box.maxX)
        /\ p[1] \in Nat /\ p[2] \in Nat /\ start <= p[1] /\ p[1] < end
    BY <1>1, <1>2, RectOnly DEF Bounded
  <2> QED BY <1>2, <1>3, <1>4, <1>8, <2>1 DEF Contains
<1>11. Exact(s)
  <2> SUFFICES ASSUME FrameWidth % Align = 0, ~behind PROVE Sized(s)
    BY DEF Exact
  <2>1. box.maxY < FrameHeight
    BY <1>2 DEF Bounded
  <2> QED BY <1>2, <1>3, <1>4, <1>5, <1>8, <1>9, <2>1 DEF Sized
<1>12. spans' \in Seq(Span) /\ Len(spans') = 1 /\ spans'[1] = s
  BY <1>1, <1>7
<1>13. RectInv'
  <2>1. Exact(spans[1])' /\ \A p \in changed' : Contains(spans[1], p)'
    BY <1>1, <1>10, <1>11, <1>12 DEF Exact, Sized, Contains
  <2>2. /\ box' \in [minX : Nat, minY : Nat, maxX : Nat, maxY : Nat] /\ pc' = "done"
        /\ Len(spans') = 1
    BY <1>1, <1>12, RectOnly
  <2> QED BY <2>1, <2>2 DEF RectInv
<1> QED BY <1>1, <1>12, <1>13, RectOnly, RectStep DEF scan

-----------------------------------------------------------------------------
(* The invariant, and what follows from it *)

LEMMA StutterStep ==
  ASSUME IInv, UNCHANGED vars
  PROVE  IInv'
<1> USE DEF vars, input, scan
<1>1. TypeOK' /\ Input' /\ Rectangle' = Rectangle
  BY DEF IInv, TypeOK, Input, Rectangle, Methods
<1>2. ASSUME LinesInv PROVE LinesInv'
  <2>1. SpanList' /\ Scanning' = Scanning
    BY <1>2 DEF LinesInv, SpanList, Sized, Ordered, InField, Scanning
  <2>2. RowsDone' = RowsDone /\ Here' = Here
    BY DEF RowsDone, InField, Covered, Contains, Here, ColumnsDone, Changed, InSpan, ChangedInGroup
  <2>3. Scan'
    BY <1>2, <2>1, <2>2 DEF LinesInv, Scan, InField
  <2> QED BY <1>2, <2>1, <2>3 DEF LinesInv, InField, Covered, Contains
<1>3. ASSUME RectInv PROVE RectInv'
  BY <1>3 DEF RectInv, TopFound, Same, ChangedAt, Bounded, Exact, Sized, Contains
<1> QED BY <1>1, <1>2, <1>3 DEF IInv

THEOREM Inductive == Spec => []IInv
<1>1. IInv /\ [Next]_vars => IInv'
  <2> SUFFICES ASSUME IInv, [Next]_vars PROVE IInv'
    OBVIOUS
  <2>1. CASE NextLine
    BY <2>1, NextLineStep
  <2>2. CASE EndLine
    BY <2>2, EndLineStep
  <2>3. CASE EmitSpan
    BY <2>3, EmitSpanStep
  <2>4. CASE ScanPair
    BY <2>4, ScanPairStep
  <2>5. CASE ExtendSpan
    BY <2>5, ExtendSpanStep
  <2>6. CASE ScanLastPixel
    BY <2>6, ScanLastPixelStep
  <2>7. CASE ScanGroup
    BY <2>7, ScanGroupStep
  <2>8. CASE ExtendByGroup
    BY <2>8, ExtendByGroupStep
  <2>9. CASE EmitFrame
    BY <2>9, EmitFrameStep
  <2>10. CASE FindTop
    BY <2>10, FindTopStep
  <2>11. CASE FindBottom
    BY <2>11, FindBottomStep
  <2>12. CASE FindFirst
    BY <2>12, FindFirstStep
  <2>13. CASE SkipGroupBack
    BY <2>13, SkipGroupBackStep
  <2>14. CASE FindLast
    BY <2>14, FindLastStep
  <2>15. CASE FindSides
    BY <2>15, FindSidesStep
  <2>16. CASE EmitRectangle
    BY <2>16, EmitRectangleStep
  <2>17. CASE MergePair
    BY <2>17, MergePairStep
  <2>18. CASE KeepPair \/ NextSpan \/ EndMerge
    BY <2>18, PointerStep
  <2>19. CASE UNCHANGED vars
    BY <2>19, StutterStep
  <2> QED
    BY <2>1, <2>2, <2>3, <2>4, <2>5, <2>6, <2>7, <2>8, <2>9, <2>10, <2>11, <2>12, <2>13,
       <2>14, <2>15, <2>16, <2>17, <2>18, <2>19, Zenon DEF Next
<1> QED BY Start, <1>1, PTL DEF Spec

\* Every frame and every method leaves the variables of the diff within their types, and the
\* pointers of the merging in the list.
THEOREM TypeCorrect == Spec => []TypeOK
<1>1. IInv => TypeOK
  BY DEF IInv
<1> QED BY Inductive, <1>1, PTL

\* Diffing by pixels, in groups, by scanlines or linearly, and then merging, loses no changed
\* pixel of the scanlines that are updated, whatever the frame's size and content.
THEOREM Coverage == Spec => []ChangesCovered
<1>1. IInv => ChangesCovered
  <2> SUFFICES ASSUME IInv, pc \in {"merge", "done"}, NEW p \in changed, InField(p[2])
               PROVE  \E k \in 1..Len(spans) : Contains(spans[k], p)
    BY DEF ChangesCovered
  <2>1. CASE ~Rectangle
    <3>1. LinesInv
      BY <2>1 DEF IInv
    <3>2. Covered(p)
      BY <3>1 DEF LinesInv, Scanning
    <3> QED BY <3>2 DEF Covered
  <2>2. CASE Rectangle
    <3>1. RectInv
      BY <2>2 DEF IInv
    <3>2. pc = "done"
      BY <3>1 DEF RectInv
    <3>3. Len(spans) = 1 /\ Contains(spans[1], p)
      BY <3>1, <3>2 DEF RectInv
    <3> QED BY <3>3
  <2> QED BY <2>1, <2>2
<1> QED BY Inductive, <1>1, PTL

\* The list of spans stays ordered by scanline through scanning and merging, which is why the
\* merging may stop at the first span that lies further down; and an interlaced update sends
\* single scanlines of its own field.
THEOREM Order == Spec => []SpansInOrder
<1>1. IInv => SpansInOrder
  <2> SUFFICES ASSUME IInv PROVE SpansInOrder
    OBVIOUS
  <2>1. TypeOK /\ Len(spans) \in Nat
    BY DEF IInv, TypeOK
  <2>2. CASE ~Rectangle
    <3>1. SpanList
      BY <2>2 DEF IInv, LinesInv
    <3>2. ASSUME NEW k \in 1..Len(spans) - 1 PROVE spans[k].y <= spans[k + 1].y
      <4>1. k \in 1..Len(spans) /\ k + 1 \in 1..Len(spans) /\ k < k + 1
        BY <2>1
      <4> QED BY <3>1, <4>1 DEF SpanList, Ordered
    <3> QED BY <3>1, <3>2 DEF SpansInOrder, SpanList
  <2>3. CASE Rectangle
    <3>1. RectInv /\ ~interlaced
      BY <2>3 DEF IInv, Input
    <3>2. \A k \in 1..Len(spans) - 1 : FALSE
      <4>1. Len(<<>>) = 0
        OBVIOUS
      <4>2. PICK n \in Nat : n = Len(spans)
        BY <2>1
      <4>3. n = 0 \/ n = 1
        BY <3>1, <4>1, <4>2, Zenon DEF RectInv
      <4>4. \A k \in 1..n - 1 : FALSE
        BY <4>3
      <4> QED BY <4>2, <4>4, Zenon
    <3> QED BY <3>1, <3>2, Zenon DEF SpansInOrder
  <2> QED BY <2>2, <2>3
<1> QED BY Inductive, <1>1, PTL

LEMMA LinesWellFormed ==
  ASSUME IInv, ~Rectangle
  PROVE  SpansWellFormed
<1>1. SpanList
  BY DEF IInv, LinesInv
<1>2. ASSUME NEW k \in 1..Len(spans)
      PROVE  WellFormed(spans[k]) /\ spans[k].size <= MaxTaskPixels
  <2>1. Sized(spans[k]) /\ spans[k].size <= MaxTaskPixels
    BY <1>1 DEF SpanList
  <2>2. spans[k] \in Span
    BY SpanAt DEF IInv
  <2> QED BY <2>1, <2>2, SizedIsWellFormed
<1> QED BY <1>2 DEF SpansWellFormed

\* A span of the methods that go by scanlines lies within the frame, is as large as its size
\* says, and is not too large for a task: for any width of the frame.
THEOREM LineSpansWellFormed == Spec => [](~Rectangle => SpansWellFormed)
BY Inductive, LinesWellFormed, PTL

\* So does the rectangle, aligned to cache lines, if these divide the scanlines and the search
\* from the end of the framebuffers does not stumble over the words behind them.
THEOREM AllSpansWellFormed ==
  ASSUME FrameWidth % Align = 0, ~BehindMayDiffer
  PROVE  Spec => []SpansWellFormed
<1>1. ASSUME IInv, Rectangle PROVE SpansWellFormed
  <2>1. RectInv /\ ~behind /\ TypeOK
    BY <1>1 DEF IInv, Input
  <2>2. spans = <<>> \/ (Len(spans) = 1 /\ Sized(spans[1]))
    BY <2>1 DEF RectInv, Exact
  <2>3. ASSUME NEW k \in 1..Len(spans) PROVE WellFormed(spans[k])
    <3>1. k = 1 /\ Sized(spans[1])
      <4>1. k >= 1 /\ k <= Len(spans) /\ k \in Int
        BY <2>1, <2>3 DEF TypeOK
      <4>2. Len(<<>>) = 0
        OBVIOUS
      <4>3. Len(spans) = 0 \/ (Len(spans) = 1 /\ Sized(spans[1]))
        BY <2>2, <4>2, Zenon
      <4>4. Len(spans) = 1 /\ Sized(spans[1])
        BY <4>1, <4>3
      <4> QED BY <4>1, <4>4
    <3>2. spans[1] \in Span
      BY <2>1, <2>3, <3>1, SpanAt
    <3> QED BY <3>1, <3>2, SizedIsWellFormed
  <2> QED BY <1>1, <2>3 DEF SpansWellFormed
<1> QED BY Inductive, LinesWellFormed, <1>1, PTL
=============================================================================
