--------------------------- MODULE Charts_proofs ---------------------------
(***************************************************************************)
(* Proofs about the functions of Charts, for every series, every last good *)
(* poll and every moment: the split of a line in a solid and a dashed part *)
(* loses no point and leaves no gap, the bar strip spans what the line     *)
(* spans and each bar stands under its time, a sparkline is made of level  *)
(* and upright strokes, and an age is shown in the unit that fits it.      *)
(***************************************************************************)
EXTENDS Charts, NumberLemmas, SequenceTheorems, TLAPS

Point  == [ts : Nat, value : Int]
Points == Seq(Point)

LEMMA TwoParts ==
    ASSUME NEW n \in Nat, NEW k \in 1..n
    PROVE  /\ (1..k) \union (k..n) = 1..n
           /\ (1..k) \intersect (k..n) = {k}
           /\ \A i \in (1..k) \ (k..n) : i \in 1..k - 1
<1>1. \A i : i \in (1..k) \union (k..n) <=> i \in 1..n
    OBVIOUS
<1>2. \A i : i \in (1..k) \intersect (k..n) <=> i = k
    OBVIOUS
<1>3. \A i \in (1..k) \ (k..n) : i \in 1..k - 1
    OBVIOUS
<1> QED
    <2>1. (1..k) \union (k..n) = 1..n
        BY <1>1
    <2>2. (1..k) \intersect (k..n) = {k}
        BY <1>2
    <2> QED BY <2>1, <2>2, <1>3

LEMMA PointFacts ==
    ASSUME NEW points \in Points, points # <<>>
    PROVE  /\ Len(points) \in Nat \ {0}
           /\ DOMAIN points = 1..Len(points)
           /\ \A i \in 1..Len(points) : points[i] \in Point /\ points[i].ts \in Nat
           /\ Head(points) = points[1]
           /\ Last(points) = points[Len(points)]
           /\ Last(points) \in Point
           /\ Last(points).ts \in Nat
<1>1. points \in Seq(Point)
    BY DEF Points
<1>2. Len(points) \in Nat \ {0} /\ DOMAIN points = 1..Len(points)
    BY <1>1, EmptySeq, LenProperties
<1>3. \A i \in 1..Len(points) : points[i] \in Point
    BY <1>1, ElementOfSeq
<1>4. \A i \in 1..Len(points) : points[i].ts \in Nat
    BY <1>3 DEF Point
<1>5. Len(points) \in 1..Len(points)
    BY <1>2
<1>6. Last(points) = points[Len(points)]
    BY DEF Last
<1>7. Head(points) = points[1]
    BY <1>1
<1> QED BY <1>2, <1>3, <1>4, <1>5, <1>6, <1>7

\* The points that are drawn are the real ones and at most one more, at now.
LEMMA ExtendedPoints ==
    ASSUME NEW points \in Points, points # <<>>,
           NEW staleSince \in Nat \union {Healthy}, NEW now \in Nat
    PROVE  LET xs == Extended(points, staleSince, now)
           IN /\ xs \in Points
              /\ Len(xs) \in {Len(points), Len(points) + 1}
              /\ \A i \in 1..Len(points) : xs[i] = points[i]
              /\ staleSince # Healthy => xs[Len(xs)].ts >= now
              /\ (staleSince # Healthy /\ Last(points).ts < now) =>
                    Len(xs) = Len(points) + 1 /\ xs[Len(xs)].ts = now
              /\ (staleSince = Healthy \/ ~(Last(points).ts < now)) => xs = points
<1> DEFINE xs == Extended(points, staleSince, now)
<1>1. /\ Len(points) \in Nat \ {0}
      /\ Last(points) = points[Len(points)]
      /\ Last(points) \in Point
      /\ Last(points).ts \in Nat /\ Last(points).value \in Int
    BY PointFacts DEF Point
<1>2. CASE staleSince # Healthy /\ Last(points).ts < now
    <2> DEFINE tail == [ts |-> now, value |-> Last(points).value]
    <2>1. tail \in Point
        BY <1>1 DEF Point
    <2>2. xs = Append(points, tail)
        BY <1>2 DEF Extended
    <2>3. /\ xs \in Points
          /\ Len(xs) = Len(points) + 1
          /\ \A i \in 1..Len(points) : xs[i] = points[i]
          /\ xs[Len(xs)] = tail
        BY <2>1, <2>2, AppendProperties DEF Points
    <2> QED BY <1>1, <1>2, <2>3
<1>3. CASE ~(staleSince # Healthy /\ Last(points).ts < now)
    <2>1. xs = points
        BY <1>3 DEF Extended
    <2>2. staleSince # Healthy => xs[Len(xs)].ts >= now
        BY <1>1, <1>3, <2>1
    <2> QED BY <1>1, <1>3, <2>1, <2>2
<1> QED BY <1>2, <1>3

\* The split lies on a real point, and everything before it is older than the
\* last good poll.
LEMMA SplitOnRealPoint ==
    ASSUME NEW points \in Points, points # <<>>,
           NEW staleSince \in Nat, NEW now \in Nat
    PROVE  LET xs    == Extended(points, staleSince, now)
               split == SplitIndex(xs, SplitThreshold(points, staleSince))
           IN /\ split \in 1..Len(points)
              /\ \A i \in 1..split - 1 : xs[i].ts < staleSince
<1> DEFINE xs        == Extended(points, staleSince, now)
           threshold == SplitThreshold(points, staleSince)
           from      == {i \in DOMAIN xs : xs[i].ts >= threshold}
<1>1. /\ xs \in Points
      /\ Len(xs) \in {Len(points), Len(points) + 1}
      /\ \A i \in 1..Len(points) : xs[i] = points[i]
    BY ExtendedPoints
<1>2. /\ Len(points) \in Nat \ {0}
      /\ Last(points) = points[Len(points)]
      /\ Last(points).ts \in Nat
    BY PointFacts
<1>3. /\ threshold \in Nat
      /\ threshold <= staleSince
      /\ threshold <= Last(points).ts
    BY <1>2, LesserOfTwo DEF SplitThreshold
<1>4. DOMAIN xs = 1..Len(xs) /\ \A i \in 1..Len(xs) : xs[i].ts \in Nat
    <2>1. xs # <<>>
        BY <1>1, <1>2, EmptySeq
    <2> QED BY <1>1, <2>1, PointFacts
<1>5. Len(points) \in from
    <2>1. Len(points) \in 1..Len(xs) /\ xs[Len(points)] = Last(points)
        BY <1>1, <1>2
    <2> QED BY <1>2, <1>3, <1>4, <2>1
<1>6. from \in SUBSET Nat
    BY <1>4
<1>7. Min(from) \in from /\ \A y \in from : Min(from) <= y
    BY <1>5, <1>6, LeastElement
<1>8. SplitIndex(xs, threshold) = Min(from)
    BY <1>5 DEF SplitIndex
<1>9. Min(from) \in 1..Len(points)
    BY <1>2, <1>4, <1>5, <1>7
<1>10. ASSUME NEW i \in 1..Min(from) - 1 PROVE xs[i].ts < staleSince
    <2> HIDE DEF xs, threshold, from
    <2>1. /\ Min(from) \in Nat /\ Min(from) <= Len(points)
          /\ i \in Int /\ 1 <= i /\ i < Min(from)
        BY <1>2, <1>9
    <2>2. i \in 1..Len(xs)
        BY <1>1, <1>2, <2>1
    <2>3. i \notin from
        BY <1>7, <2>1
    <2>4. ~(xs[i].ts >= threshold)
        BY <1>4, <2>2, <2>3 DEF from
    <2> QED BY <1>3, <1>4, <2>2, <2>4
<1> QED BY <1>8, <1>9, <1>10

\* The line of a chart, whatever is drawn (chart.js): a healthy one is solid
\* throughout.  A stale one is split at a real point that both parts share, so
\* that no point is lost and no gap opens; it reaches now; what is solid only is
\* older than the last good poll; and a tail of two points or more follows when
\* the newest sample lies before now, however late the last good poll was.
THEOREM LineIsWhole ==
    ASSUME NEW points \in Points, points # <<>>,
           NEW staleSince \in Nat \union {Healthy}, NEW now \in Nat
    PROVE  LET line == Line(points, staleSince, now)
           IN /\ line.solid \union line.dashed = DOMAIN line.xs
              /\ staleSince = Healthy =>
                    line.xs = points /\ line.dashed = {} /\ line.filled
              /\ staleSince # Healthy =>
                    /\ \E i \in 1..Len(points) : line.solid \intersect line.dashed = {i}
                    /\ line.xs[Len(line.xs)].ts >= now
                    /\ Len(line.xs) \in line.dashed
                    /\ \A i \in line.solid \ line.dashed : line.xs[i].ts < staleSince
                    /\ Last(points).ts < now =>
                          /\ {Len(points), Len(line.xs)} \subseteq line.dashed
                          /\ Len(points) # Len(line.xs)
                          /\ ~line.filled
<1> DEFINE xs    == Extended(points, staleSince, now)
           split == IF staleSince = Healthy THEN Len(xs)
                    ELSE SplitIndex(xs, SplitThreshold(points, staleSince))
           line  == Line(points, staleSince, now)
<1>1. line = [xs     |-> xs,
              solid  |-> 1..split,
              dashed |-> IF staleSince = Healthy THEN {} ELSE split..Len(xs),
              filled |-> split = Len(xs)]
    BY DEF Line
<1> HIDE DEF line, split
<1>2. /\ Len(points) \in Nat \ {0}
      /\ Len(xs) \in {Len(points), Len(points) + 1}
      /\ DOMAIN xs = 1..Len(xs)
    <2>1. xs \in Points /\ Len(xs) \in {Len(points), Len(points) + 1}
        BY ExtendedPoints
    <2>2. Len(points) \in Nat \ {0}
        BY PointFacts
    <2> QED BY <2>1, <2>2, LenProperties DEF Points
<1>3. CASE staleSince = Healthy
    <2>1. xs = points
        BY <1>3, ExtendedPoints
    <2>2. split = Len(xs)
        BY <1>3 DEF split
    <2> HIDE DEF xs
    <2>3. /\ line.solid = 1..Len(xs) /\ line.dashed = {}
          /\ line.xs = xs /\ line.filled
        BY <1>1, <1>3, <2>2
    <2>4. line.solid \union line.dashed = DOMAIN line.xs
        BY <1>2, <2>3
    <2> QED BY <1>3, <2>1, <2>3, <2>4 DEF line
<1>4. CASE staleSince # Healthy
    <2>1. /\ split \in 1..Len(points)
          /\ \A i \in 1..split - 1 : xs[i].ts < staleSince
        BY <1>4, SplitOnRealPoint DEF split
    <2>2. /\ xs[Len(xs)].ts >= now
          /\ Last(points).ts < now => Len(xs) = Len(points) + 1
        BY <1>4, ExtendedPoints
    <2> HIDE DEF xs
    <2>3. /\ line.solid = 1..split /\ line.dashed = split..Len(xs)
          /\ line.xs = xs /\ line.filled = (split = Len(xs))
        BY <1>1, <1>4
    <2>4. split \in 1..Len(points)
        BY <2>1
    <2>5. Len(xs) \in Nat /\ split \in 1..Len(xs) /\ split <= Len(points)
        <3> DEFINE n == Len(points)
                   l == Len(xs)
                   k == split
        <3>1. n \in Nat \ {0} /\ l \in {n, n + 1} /\ k \in 1..n
            BY <1>2, <2>4
        <3> HIDE DEF n, l, k
        <3>2. l \in Nat /\ k \in 1..l /\ k <= n
            BY <3>1
        <3> QED BY <3>2 DEF n, l, k
    <2>6. line.solid \union line.dashed = DOMAIN line.xs
        BY <1>2, <2>5, <2>3, TwoParts
    <2>7. line.solid \intersect line.dashed = {split}
        BY <2>5, <2>3, TwoParts
    <2>8. \A i \in line.solid \ line.dashed : line.xs[i].ts < staleSince
        <3> SUFFICES ASSUME NEW i \in line.solid \ line.dashed
                     PROVE  line.xs[i].ts < staleSince
            OBVIOUS
        <3>1. i \in 1..split - 1
            BY <2>5, <2>3, TwoParts
        <3> QED BY <2>1, <2>3, <3>1
    <2>9. Last(points).ts < now =>
             /\ {Len(points), Len(line.xs)} \subseteq line.dashed
             /\ Len(points) # Len(line.xs)
             /\ ~line.filled
        <3> SUFFICES ASSUME Last(points).ts < now
                     PROVE  /\ {Len(points), Len(xs)} \subseteq split..Len(xs)
                            /\ Len(points) # Len(xs)
                            /\ split # Len(xs)
            BY <2>3
        <3>1. Len(xs) = Len(points) + 1
            BY <2>2
        <3> QED BY <1>2, <2>5, <3>1
    <2>10. Len(line.xs) \in line.dashed
        BY <2>3, <2>5
    <2> QED BY <1>4, <2>1, <2>2, <2>3, <2>6, <2>7, <2>8, <2>9, <2>10 DEF line
<1> QED BY <1>3, <1>4

\* The strip of bars (common.js, barsDomain) spans the very times that the line
\* above it spans, stale or not, as long as no sample lies after now.
THEOREM StripSpansLine ==
    ASSUME NEW points \in Points, points # <<>>,
           NEW staleSince \in Nat \union {Healthy}, NEW now \in Nat,
           Last(points).ts <= now
    PROVE  LET xs     == Line(points, staleSince, now).xs
               domain == BarsDomain(points, staleSince, now)
           IN domain.start = xs[1].ts /\ domain.end = xs[Len(xs)].ts
<1> DEFINE xs     == Line(points, staleSince, now).xs
           domain == BarsDomain(points, staleSince, now)
<1>1. xs = Extended(points, staleSince, now)
    BY DEF Line
<1>2. /\ Len(points) \in Nat \ {0}
      /\ Last(points) = points[Len(points)]
      /\ Last(points).ts \in Nat
      /\ Head(points) = points[1]
    BY PointFacts
<1>3. domain.start = xs[1].ts
    <2>1. domain.start = points[1].ts
        BY <1>2 DEF BarsDomain
    <2>2. xs[1] = points[1]
        BY <1>1, <1>2, ExtendedPoints
    <2> QED BY <2>1, <2>2
<1>4. CASE staleSince # Healthy
    <2>1. domain.end = now
        BY <1>4 DEF BarsDomain
    <2>2. xs[Len(xs)].ts = now
        <3>1. CASE Last(points).ts < now
            BY <1>1, <1>4, <3>1, ExtendedPoints
        <3>2. CASE ~(Last(points).ts < now)
            <4>1. xs = points
                BY <1>1, <3>2, ExtendedPoints
            <4> QED BY <1>2, <3>2, <4>1
        <3> QED BY <3>1, <3>2
    <2> QED BY <1>3, <2>1, <2>2
<1>5. CASE staleSince = Healthy
    <2>1. domain.end = Last(points).ts
        BY <1>5 DEF BarsDomain
    <2>2. xs = points
        BY <1>1, <1>5, ExtendedPoints
    <2> QED BY <1>2, <1>3, <2>1, <2>2
<1> QED BY <1>4, <1>5

\* An age is shown in the unit that fits it, never as 0 of a unit and never as
\* a whole of the next one, although each unit is rounded from the one below
\* (relativeTime in common.js).
THEOREM AgeFitsUnit ==
    ASSUME NEW age \in Int
    PROVE  LET shown == RelativeTime(age)
           IN \/ shown[2] = "s" /\ shown[1] \in 0..59
              \/ shown[2] = "m" /\ shown[1] \in 1..59
              \/ shown[2] = "h" /\ shown[1] \in 1..23
              \/ shown[2] = "d" /\ shown[1] \in Nat \ {0}
<1> DEFINE seconds == Max({0, age})
           minutes == Rounded(seconds, 60)
           hours   == Rounded(minutes, 60)
           days    == Rounded(hours, 24)
<1>1. seconds \in Nat
    BY GreaterOfTwo
<1> HIDE DEF seconds
<1>2. minutes \in Nat /\ (seconds >= 60 => minutes >= 1)
    BY <1>1 DEF Rounded
<1> HIDE DEF minutes
<1>3. hours \in Nat /\ (minutes >= 60 => hours >= 1)
    BY <1>2 DEF Rounded
<1> HIDE DEF hours
<1>4. days \in Nat /\ (hours >= 24 => days >= 1)
    BY <1>3 DEF Rounded
<1> HIDE DEF days
<1>5. RelativeTime(age) =
         CASE seconds < 60 -> <<seconds, "s">>
           [] seconds >= 60 /\ minutes < 60 -> <<minutes, "m">>
           [] minutes >= 60 /\ hours < 24 -> <<hours, "h">>
           [] OTHER -> <<days, "d">>
    BY DEF RelativeTime, seconds, minutes, hours, days
<1> QED
    BY <1>1, <1>2, <1>3, <1>4, <1>5


-----------------------------------------------------------------------------
\* The bars of the strip

\* A part of a length, scaled to a width, is a part of the width.
LEMMA ScaledPart ==
    ASSUME NEW part \in Nat, NEW whole \in Nat \ {0}, part <= whole, NEW width \in Nat
    PROVE  (part * width) \div whole \in 0..width
<1> DEFINE q == (part * width) \div whole
<1>1. part * width \in Nat /\ part * width <= whole * width
    <2>1. PICK rest \in Nat : whole = part + rest
        <3>1. whole - part \in Nat /\ whole = part + (whole - part)
            OBVIOUS
        <3> QED BY <3>1
    <2>2. whole * width = part * width + rest * width
        BY <2>1
    <2>3. part * width \in Nat /\ rest * width \in Nat
        BY <2>1
    <2> QED BY <2>2, <2>3
<1>2. q \in Nat /\ whole * q <= part * width
    <2> DEFINE n == part * width
    <2>1. n \in Nat
        BY <1>1
    <2> HIDE DEF n
    <2>2. n \div whole \in Nat /\ whole * (n \div whole) <= n
        BY <2>1
    <2> QED BY <2>2 DEF n
<1> HIDE DEF q
<1>3. whole * q <= whole * width
    BY <1>1, <1>2
<1>4. q <= width
    <2> SUFFICES ASSUME ~(q <= width) PROVE FALSE
        OBVIOUS
    <2>1. PICK more \in Nat \ {0} : q = width + more
        <3>1. q - width \in Nat \ {0} /\ q = width + (q - width)
            BY <1>2
        <3> QED BY <3>1
    <2>2. whole * q = whole * width + whole * more
        BY <2>1
    <2>3. whole * more > 0 /\ whole * width \in Nat /\ whole * more \in Nat
        BY <2>1
    <2> QED BY <1>3, <2>2, <2>3
<1> QED BY <1>2, <1>4 DEF q

Bar  == [ts : Int, change : Int]
Bars == Seq(Bar)

\* The tallest bar is as tall as there is room for, and no other is taller.
LEMMA HeightFits ==
    ASSUME NEW bars \in Bars, NEW i \in DOMAIN bars, NEW domain
    PROVE  LET rect == BarRect(bars[i], bars, domain)
           IN  rect.height <= HalfHeight /\ rect.top >= 0
<1> DEFINE sizes   == {Magnitude(b.change) : b \in ToSet(bars)}
           tallest == Max(sizes)
           size    == Magnitude(bars[i].change)
           whole   == IF tallest = 0 THEN 1 ELSE tallest
           height  == (size * BarRoom) \div whole
<1>1. Len(bars) \in Nat /\ DOMAIN bars = 1..Len(bars) /\ \A j \in 1..Len(bars) : bars[j] \in Bar
    BY LenProperties, ElementOfSeq DEF Bars
<1>2. ToSet(bars) = {bars[j] : j \in 1..Len(bars)}
    BY <1>1 DEF ToSet
<1>3. \A b \in Bar : Magnitude(b.change) \in Nat
    BY DEF Bar, Magnitude
<1>4. sizes \in SUBSET Nat /\ size \in sizes
    BY <1>1, <1>2, <1>3
<1>5. IsFiniteSet(sizes)
    <2>1. IsFiniteSet(1..Len(bars))
        BY <1>1, FS_Interval
    <2> DEFINE f == [j \in 1..Len(bars) |-> Magnitude(bars[j].change)]
    <2>2. f \in Surjection(1..Len(bars), sizes)
        <3>1. f \in [1..Len(bars) -> sizes]
            BY <1>2
        <3>2. \A s \in sizes : \E j \in 1..Len(bars) : f[j] = s
            BY <1>2
        <3> HIDE DEF f, sizes
        <3> QED BY <3>1, <3>2 DEF Surjection
    <2> HIDE DEF f, sizes
    <2> QED BY <2>1, <2>2, FS_Surjection
<1> HIDE DEF sizes, size
<1>6. tallest \in Nat /\ size \in Nat /\ size <= tallest
    BY <1>4, <1>5, GreatestElement
<1> HIDE DEF tallest
<1>7. whole \in Nat \ {0} /\ size <= whole
    BY <1>6
<1>8. BarRoom = 48 /\ HalfHeight = 50
    BY DEF BarRoom, HalfHeight
<1>9. height \in 0..48
    <2> HIDE DEF whole
    <2>1. (size * BarRoom) \div whole \in 0..BarRoom
        BY <1>6, <1>7, <1>8, ScaledPart
    <2> QED BY <1>8, <2>1
<1>10. LET rect == BarRect(bars[i], bars, domain)
       IN  /\ rect.height = Max({height, 1})
           /\ rect.top \in {HalfHeight - height, HalfHeight}
    BY DEF BarRect, sizes, tallest, size
<1> HIDE DEF height
<1>11. Max({height, 1}) \in {height, 1}
    <2>1. height \in Int /\ 1 \in Int
        BY <1>9
    <2> QED BY <2>1, GreaterOfTwo
<1> QED BY <1>8, <1>9, <1>10, <1>11

\* Where a time between two others lies on the strip.
LEMMA AcrossFits ==
    ASSUME NEW ts \in Int, NEW start \in Int, NEW end \in Int, start <= ts, ts <= end
    PROVE  Across(ts, start, end) \in 0..StripWidth
<1> DEFINE whole == Max({end - start, 1})
<1>1. whole \in Nat \ {0} /\ ts - start \in Nat /\ ts - start <= whole
    <2>1. PICK length \in Int : length = end - start
        OBVIOUS
    <2>2. /\ Max({length, 1}) \in {length, 1}
          /\ length <= Max({length, 1}) /\ 1 <= Max({length, 1})
        BY <2>1, GreaterOfTwo
    <2>3. whole = Max({length, 1})
        BY <2>1
    <2> HIDE DEF whole
    <2> QED BY <2>1, <2>2, <2>3
<1> HIDE DEF whole
<1>2. ((ts - start) * StripWidth) \div whole \in 0..StripWidth
    BY <1>1, ScaledPart DEF StripWidth
<1> QED BY <1>2 DEF Across, whole

\* Every bar of the strip stands under the time of the line that it is about,
\* stale or not, and none sticks out of the strip (chart.js, renderChangeBars;
\* common.js, barsDomain).
THEOREM BarsStandUnderLine ==
    ASSUME NEW points \in Points, points # <<>>,
           NEW staleSince \in Nat \union {Healthy}, NEW now \in Nat,
           Last(points).ts <= now,
           NEW bars \in Bars,
           \A i \in DOMAIN bars : points[1].ts <= bars[i].ts /\ bars[i].ts <= Last(points).ts
    PROVE  LET xs    == Line(points, staleSince, now).xs
               rects == RenderBars(bars, BarsDomain(points, staleSince, now))
           IN  \A i \in DOMAIN bars :
                  /\ rects[i].centre = Across(bars[i].ts, Head(xs).ts, Last(xs).ts)
                  /\ rects[i].centre \in 0..StripWidth
                  /\ rects[i].height <= HalfHeight /\ rects[i].top >= 0
<1> DEFINE xs     == Line(points, staleSince, now).xs
           domain == BarsDomain(points, staleSince, now)
           rects  == RenderBars(bars, domain)
<1>1. domain.start = xs[1].ts /\ domain.end = xs[Len(xs)].ts
    BY StripSpansLine
<1>2. xs = Extended(points, staleSince, now)
    BY DEF Line
<1>3. xs \in Points /\ Len(xs) >= Len(points) /\ xs[1] = points[1]
    <2>1. Len(points) \in Nat \ {0}
        BY PointFacts
    <2>2. /\ Extended(points, staleSince, now) \in Points
          /\ Len(Extended(points, staleSince, now)) \in {Len(points), Len(points) + 1}
          /\ \A i \in 1..Len(points) : Extended(points, staleSince, now)[i] = points[i]
        BY ExtendedPoints
    <2> QED BY <1>2, <2>1, <2>2
<1>4. Head(xs) = xs[1] /\ Last(xs) = xs[Len(xs)]
    BY <1>3 DEF Last, Points
<1>5. /\ points[1].ts \in Nat /\ Last(points).ts \in Nat
      /\ Last(points) = points[Len(points)]
    BY PointFacts
<1>6. xs[Len(xs)].ts \in Nat /\ xs[Len(xs)].ts >= Last(points).ts
    <2>1. CASE staleSince = Healthy \/ ~(Last(points).ts < now)
        <3>1. xs = points
            BY <1>2, <2>1, ExtendedPoints
        <3> QED BY <1>5, <3>1
    <2>2. CASE staleSince # Healthy /\ Last(points).ts < now
        <3>1. xs[Len(xs)].ts = now
            BY <1>2, <2>2, ExtendedPoints
        <3> QED BY <1>5, <3>1
    <2> QED BY <2>1, <2>2
<1> HIDE DEF xs, domain
<1>7. ASSUME NEW i \in DOMAIN bars
      PROVE  /\ rects[i].centre = Across(bars[i].ts, Head(xs).ts, Last(xs).ts)
             /\ rects[i].centre \in 0..StripWidth
             /\ rects[i].height <= HalfHeight /\ rects[i].top >= 0
    <2>1. rects[i] = BarRect(bars[i], bars, domain)
        BY DEF RenderBars
    <2>2. rects[i].centre = Across(bars[i].ts, domain.start, domain.end)
        BY <2>1 DEF BarRect
    <2>3. Across(bars[i].ts, domain.start, domain.end) \in 0..StripWidth
        <3>1. bars[i].ts \in Int
            <4>1. bars[i] \in Bar
                BY LenProperties, ElementOfSeq DEF Bars
            <4> QED BY <4>1 DEF Bar
        <3>2. domain.start <= bars[i].ts /\ bars[i].ts <= domain.end
            BY <1>1, <1>3, <1>5, <1>6, <3>1
        <3>3. domain.start \in Int /\ domain.end \in Int
            BY <1>1, <1>3, <1>5, <1>6
        <3> QED BY <3>1, <3>2, <3>3, AcrossFits
    <2>4. rects[i].height <= HalfHeight /\ rects[i].top >= 0
        BY <2>1, HeightFits
    <2> QED BY <1>1, <1>4, <2>2, <2>3, <2>4
<1> QED BY <1>7 DEF xs, domain


-----------------------------------------------------------------------------
\* The sparklines

\* A sparkline runs from the first point to the last, up or down and to the right
\* in turn (dashboard.js, renderSparkline).
THEOREM SparklineSteps ==
    ASSUME NEW T, NEW points \in Seq(T), Len(points) >= 2
    PROVE  LET path == Sparkline(points)
           IN  /\ Head(path) = points[1] /\ Last(path) = points[Len(points)]
               /\ \A i \in 2..Len(path) :
                     path[i].ts = path[i - 1].ts \/ path[i].value = path[i - 1].value
<1> DEFINE path == Sparkline(points)
           at(n) == (n + 1) \div 2
           step(n) == IF n % 2 = 1 THEN points[at(n)]
                      ELSE Corner(points[at(n)], points[at(n) + 1])
<1>1. PICK l \in Nat : l = Len(points) /\ l >= 2
    BY LenProperties
<1>2. path = [n \in 1..2 * l - 1 |-> step(n)]
    BY <1>1 DEF Sparkline
<1> HIDE DEF step
<1>3. /\ \E S : path \in Seq(S)
      /\ Len(path) = 2 * l - 1
    <2>1. PICK m \in Nat : m = 2 * l - 1
        <3>1. 2 * l - 1 \in Nat
            BY <1>1
        <3> QED BY <3>1
    <2>2. PICK S : path \in [1..m -> S]
        <3>1. path \in [1..m -> {step(n) : n \in 1..m}]
            BY <1>2, <2>1
        <3> QED BY <3>1
    <2> HIDE DEF path
    <2>3. path \in Seq(S) /\ Len(path) = m
        BY <2>2
    <2> QED BY <2>1, <2>3
<1>4. \A n \in 1..2 * l - 1 : path[n] = step(n)
    BY <1>2
<1> HIDE DEF path
<1>5. Head(path) = points[1]
    <2>1. Head(path) = path[1] /\ 1 \in 1..2 * l - 1
        BY <1>1, <1>3
    <2>2. step(1) = points[1]
        BY DEF step
    <2> QED BY <1>4, <2>1, <2>2
<1>6. Last(path) = points[l]
    <2>1. Last(path) = path[2 * l - 1] /\ 2 * l - 1 \in 1..2 * l - 1
        BY <1>1, <1>3 DEF Last
    <2>2. (2 * l - 1) % 2 = 1 /\ at(2 * l - 1) = l
        BY <1>1
    <2>3. step(2 * l - 1) = points[l]
        BY <2>2 DEF step
    <2> QED BY <1>4, <2>1, <2>3
<1>7. ASSUME NEW i \in 2..2 * l - 1
      PROVE  path[i].ts = path[i - 1].ts \/ path[i].value = path[i - 1].value
    <2>1. i \in 1..2 * l - 1 /\ i - 1 \in 1..2 * l - 1
        BY <1>1
    <2>2. CASE i % 2 = 1
        <3>1. (i - 1) % 2 # 1 /\ at(i - 1) + 1 = at(i)
            BY <2>2
        <3>2. step(i) = points[at(i)] /\ step(i - 1) = Corner(points[at(i - 1)], points[at(i)])
            BY <2>2, <3>1 DEF step
        <3> QED BY <1>4, <2>1, <3>2 DEF Corner
    <2>3. CASE i % 2 # 1
        <3>1. (i - 1) % 2 = 1 /\ at(i - 1) = at(i)
            BY <2>3
        <3>2. step(i) = Corner(points[at(i)], points[at(i) + 1]) /\ step(i - 1) = points[at(i)]
            BY <2>3, <3>1 DEF step
        <3> QED BY <1>4, <2>1, <3>2 DEF Corner
    <2> QED BY <2>2, <2>3
<1> QED BY <1>1, <1>3, <1>5, <1>6, <1>7 DEF path
=============================================================================
