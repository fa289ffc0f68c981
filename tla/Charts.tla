------------------------------- MODULE Charts -------------------------------
(***************************************************************************)
(* What the pages draw from the numbers they are sent, as functions: the   *)
(* big chart and its bar strip (static/js/chart.js), the sparklines        *)
(* (dashboard.js) and the helpers both pages share (common.js).            *)
(*                                                                         *)
(* A point is a record of a time (in seconds) and a value.  Positions on   *)
(* the screen are left in time and value where scaling them would show     *)
(* nothing new; colours other than "solid or dashed" are left out.         *)
(***************************************************************************)
EXTENDS Integers, SequencesExt, FiniteSetsExt

\* staleSinceTs is null: the series is up to date.
Healthy == -1

Magnitude(n) == IF n < 0 THEN -n ELSE n

\* Math.round(n / d), d positive: halves go up.
Rounded(n, d) == (2 * n + d) \div (2 * d)

DirectionOf(change) ==
    CASE change > 0 -> "up" [] change < 0 -> "down" [] OTHER -> "flat"

\* A change as the tiles, the rows and the detail page show it.
FormatChange(change, percent) ==
    [direction |-> DirectionOf(change), plus |-> change > 0, percent |-> percent]

(***************************************************************************)
(* The age of a timestamp as a row shows it.  Each unit is rounded from    *)
(* the rounded one below it.                                               *)
(***************************************************************************)
RelativeTime(age) ==
    LET seconds == Max({0, age})
        minutes == Rounded(seconds, 60)
        hours   == Rounded(minutes, 60)
    IN CASE seconds < 60 -> <<seconds, "s">>
         [] seconds >= 60 /\ minutes < 60 -> <<minutes, "m">>
         [] minutes >= 60 /\ hours < 24 -> <<hours, "h">>
         [] OTHER -> <<Rounded(hours, 24), "d">>

-----------------------------------------------------------------------------
(***************************************************************************)
(* The big chart.  A stale series has no sample at "now", so one is made   *)
(* up for the line to reach it; the line is then split in a solid and a    *)
(* dashed part that share one point.  A part is the set of the indexes of  *)
(* its points.                                                             *)
(***************************************************************************)
Extended(points, staleSince, now) ==
    IF staleSince # Healthy /\ Last(points).ts < now
      THEN Append(points, [ts |-> now, value |-> Last(points).value])
      ELSE points

\* Mutant: the threshold is the last good poll, clamped to nothing.
SplitThresholdUnclamped(points, staleSince) == staleSince

\* The threshold is clamped to the last real point: a flat series' last good
\* poll lies after its last stored sample.
SplitThreshold(points, staleSince) == Min({staleSince, Last(points).ts})

SplitIndex(xs, threshold) ==
    LET from == {i \in DOMAIN xs : xs[i].ts >= threshold}
    IN IF from = {} THEN Len(xs) ELSE Min(from)

\* NguChart.render of at least one point.
Line(points, staleSince, now) ==
    LET xs    == Extended(points, staleSince, now)
        split == IF staleSince = Healthy THEN Len(xs)
                 ELSE SplitIndex(xs, SplitThreshold(points, staleSince))
    IN [xs     |-> xs,
        solid  |-> 1..split,
        dashed |-> IF staleSince = Healthy THEN {} ELSE split..Len(xs),
        filled |-> split = Len(xs)]

-----------------------------------------------------------------------------
(***************************************************************************)
(* The bar strip under the chart, and the time range it is drawn over.     *)
(***************************************************************************)
StripWidth == 1000
HalfHeight == 50
BarRoom    == HalfHeight - 2

\* Mutant: the strip ends at the last sample, stale or not.
BarsDomainOfSamples(points, staleSince, now) ==
    [start |-> IF points = <<>> THEN 0 ELSE Head(points).ts,
     end   |-> IF points = <<>> THEN 1 ELSE Last(points).ts]

BarsDomain(points, staleSince, now) ==
    [start |-> IF points = <<>> THEN 0 ELSE Head(points).ts,
     end   |-> CASE staleSince # Healthy -> now
                 [] staleSince = Healthy /\ points # <<>> -> Last(points).ts
                 [] OTHER -> 1]

\* Where a time lies on a strip that shows the times from start to end.
Across(ts, start, end) == ((ts - start) * StripWidth) \div Max({end - start, 1})

BarRect(bar, bars, domain) ==
    LET tallest == Max({Magnitude(b.change) : b \in ToSet(bars)})
        height  == (Magnitude(bar.change) * BarRoom)
                     \div (IF tallest = 0 THEN 1 ELSE tallest)
    IN [centre |-> Across(bar.ts, domain.start, domain.end),
        top    |-> IF bar.change >= 0 THEN HalfHeight - height ELSE HalfHeight,
        height |-> Max({height, 1}),
        up     |-> bar.change >= 0]

RenderBars(bars, domain) ==
    [i \in DOMAIN bars |-> BarRect(bars[i], bars, domain)]

-----------------------------------------------------------------------------
(***************************************************************************)
(* A sparkline: the corners of a stepped path, which holds a value until   *)
(* the next change.  Fewer than two points draw nothing.                   *)
(***************************************************************************)
Corner(from, to) == [ts |-> to.ts, value |-> from.value]

Sparkline(points) ==
    IF Len(points) < 2 THEN <<>>
    ELSE [n \in 1..2 * Len(points) - 1 |->
             LET i == (n + 1) \div 2
             IN IF n % 2 = 1 THEN points[i] ELSE Corner(points[i], points[i + 1])]
=============================================================================
