------------------------------ MODULE Browser ------------------------------
(***************************************************************************)
(* A browser tab on the live service or on the static demo: the overview   *)
(* and the detail page, and the ways from one to the other.  A page load   *)
(* loses everything the scripts keep but the URL and localStorage.         *)
(***************************************************************************)
EXTENDS Overview, DetailPage, DemoShim

vars == <<tabVars, overviewVars, detailVars>>

Init ==
    /\ TabInit
    /\ answer = Nothing
    /\ linkRange = DefaultRange
    /\ m = Nothing
    /\ highlighted = Nothing
    /\ asked = Nothing
    /\ expanded = {}
    /\ focus = Nothing
    /\ overviews = {[range |-> DefaultRange, since |-> ServerNow]}
    /\ visible = TRUE
    /\ detail = NoDetail
    /\ pill = Nothing

\* The server is polled and its samples change.
Tick ==
    /\ clock < MaxClock
    /\ clock' = clock + 1
    /\ UNCHANGED <<demo, page, range, theme, local, wanted, drawn, histories,
                   acts, overviewVars, detailVars>>

\* The browser reloads the overview at its URL, which holds range and metric.
ReloadOverview ==
    /\ page = "overview"
    /\ ByUser
    /\ LoadPage("overview", RangeOfPage(range))
    /\ histories' = {}
    /\ OverviewLoaded(RangeOfPage(range), m)
    /\ UNCHANGED <<clock, demo, local, wanted, visible, detailVars>>

\* A row's name leads to the metric's page, at the range of the link.
OpenDetail(k) ==
    /\ page = "overview"
    /\ ByUser
    /\ k \in RowsVisible(answer, expanded)
    /\ DetailLoaded(k, linkRange)
    /\ OverviewLeft
    /\ UNCHANGED <<clock, demo, local, wanted, visible>>

\* setRange of detail.js, a range link, or a reload: a full navigation.
ReloadDetail(r) ==
    /\ page = "detail"
    /\ ByUser
    /\ DetailLoaded(detail.key, r)
    /\ UNCHANGED <<clock, demo, local, wanted, overviewVars>>

\* The breadcrumb leads back to the overview at the page's range.
BackToOverview ==
    /\ page = "detail"
    /\ ByUser
    /\ LoadPage("overview", RangeOfPage(range))
    /\ histories' = {}
    /\ OverviewLoaded(RangeOfPage(range), Nothing)
    /\ DetailLeft
    /\ UNCHANGED <<clock, demo, local, wanted, visible>>

OnOverview ==
    \/ \E req \in overviews : OverviewArrives(req)
    \/ \E h \in histories : ChartArrives(h)
    \/ Refresh
    \/ \E r \in Ranges : SetRange(r)
    \/ \E e \in Elements(answer, expanded) : Select(e) \/ MoveFocus(e)
    \/ \E p \in Plugins : ToggleFold(p)
    \/ ToggleOverviewTheme

OnDetail ==
    \/ \E h \in histories : HistoryArrives(h)
    \/ ToggleDetailTheme

Next ==
    \/ Tick
    \/ OnOverview /\ UNCHANGED detailVars
    \/ ChangeVisibility /\ UNCHANGED detailVars
    \/ OnDetail /\ UNCHANGED overviewVars
    \/ ReloadOverview
    \/ \E k \in Keys : OpenDetail(k)
    \/ \E r \in Ranges : ReloadDetail(r)
    \/ BackToOverview

\* The network answers every request, or loses it; the timer fires again and
\* again.  What the user does, and failures, are up to them.
Spec ==
    /\ Init /\ [][Next]_vars
    /\ WF_vars((\E req \in overviews : OverviewArrives(req)) /\ UNCHANGED detailVars)
    /\ WF_vars((\E h \in histories : ChartArrives(h)) /\ UNCHANGED detailVars)
    /\ WF_vars((\E h \in histories : HistoryArrives(h)) /\ UNCHANGED overviewVars)
    /\ SF_vars(Refresh /\ UNCHANGED detailVars)

-----------------------------------------------------------------------------
TypeOK ==
    /\ TabTypeOK
    /\ DetailTypeOK
    /\ answer = Nothing \/ answer \in Answer
    /\ {linkRange} \subseteq Ranges
    /\ {m, highlighted} \subseteq Keys \union {Nothing}
    /\ asked = Nothing \/ asked \in Request
    /\ expanded \subseteq Plugins
    /\ focus \in Elements(answer, expanded) \union {Nothing}
    /\ overviews \subseteq [range : Ranges, since : 0..MaxClock]
    /\ visible \in BOOLEAN

-----------------------------------------------------------------------------
\* What the page marks is what the next click, chart and reload go by: the
\* metric of the URL if it is on the page, else the first pin; and its history
\* has been asked for.
SelectionShown ==
    (page = "overview" /\ answer # Nothing) =>
        /\ highlighted = SelectedOf(answer)
        /\ highlighted \in KeysOf(answer) =>
              asked # Nothing /\ asked.key = highlighted

\* The folds are open as the user left them, through refreshes and reloads.
FoldsShown ==
    \A p \in Folds(answer) : (p \in expanded) = wanted.folds[p]

\* What the user chose is what the page shows: the selection across every refresh
\* and change of range, and, where storage is not blocked, the folds and the theme
\* across reloads and visits of a detail page as well.
UserChoicesKept ==
    /\ SelectionShown
    /\ ~local.blocked => FoldsShown /\ theme = wanted.theme

\* Histories arrive in any order, but on the overview only the last one asked
\* for is drawn, with the figures of the overview it was asked for: a slow
\* answer for an earlier selection never replaces a later one.
ChartFollowsSelection ==
    [][(page = "overview" /\ drawn' # drawn /\ drawn' # Nothing) =>
          /\ asked # Nothing
          /\ <<drawn'.key, drawn'.range, drawn'.from>>
                = <<asked.key, asked.range, asked.from>>]_vars

\* A refresh rebuilds the page but leaves the keyboard focus where it was,
\* unless the element is gone from the new page.
FocusKept ==
    [][(page = "overview" /\ acts' = acts /\ focus' # focus) =>
          focus \notin Elements(answer', expanded')]_vars

\* The points, the stale flag and the line of the chart that is drawn.
DrawnPoints == Histories[drawn.key][drawn.range][drawn.at]
DrawnSince  == StaleSince(drawn.key, drawn.from.at, drawn.from.polls)
DrawnLine   == Line(DrawnPoints, DrawnSince, drawn.now)

\* The solid and the dashed part of a line make up the whole of it and meet in
\* one point; the line of a stale series whose last good poll is known reaches
\* "now" with a dashed tail, even when no sample followed that poll; nothing after
\* it is solid.  Every other line, that of a stale series without a good poll
\* included, is solid and ends at the last sample.
TailDrawn ==
    drawn # Nothing =>
        LET line == DrawnLine
        IN /\ line.solid \union line.dashed = DOMAIN line.xs
           /\ line.dashed # {} => Cardinality(line.solid \intersect line.dashed) = 1
           /\ DrawnSince = Healthy =>
                 line.filled /\ Last(line.xs) = Last(DrawnPoints)
           /\ DrawnSince # Healthy =>
                 /\ Last(line.xs).ts >= drawn.now
                 /\ Len(line.xs) \in line.dashed
                 /\ Last(DrawnPoints).ts < drawn.now =>
                       Cardinality(line.dashed) > 1 /\ ~line.filled
                 /\ \A i \in line.solid \ line.dashed : line.xs[i].ts < DrawnSince

\* The bars of the strip under the chart that is drawn.
DrawnBars == Strips[drawn.key][drawn.range][drawn.at]

\* Every bar of the strip stands under the part of the line it is about: the
\* strip spans the times the line spans, made-up tail included.
BarsUnderLine ==
    drawn # Nothing =>
        LET xs    == DrawnLine.xs
            rects == RenderBars(DrawnBars, BarsDomain(DrawnPoints, DrawnSince, drawn.now))
        IN \A i \in DOMAIN rects :
              /\ rects[i].centre = Across(DrawnBars[i].ts, Head(xs).ts, Last(xs).ts)
              /\ rects[i].centre \in 0..StripWidth
              /\ rects[i].height <= HalfHeight /\ rects[i].top >= 0

Total(bars) ==
    LET upTo[n \in 0..Len(bars)] ==
            IF n = 0 THEN 0 ELSE upTo[n - 1] + bars[n].change
    IN upTo[Len(bars)]

\* The bars add up to the change of the line above them.
BarsAddUp ==
    (drawn # Nothing /\ Len(DrawnPoints) > 1) =>
        Total(DrawnBars) = Last(DrawnPoints).value - Head(DrawnPoints).value

\* The latest changes are the newest ones there were of active series when the
\* server read them, at any second after the rest of the overview and up to now,
\* whichever window found them.  (Their series need not be among the rows.)
LatestAreNewest ==
    answer # Nothing =>
        \A read \in answer.polls..ServerNow :
            LET all    == UNION {Changes(k, Stored(k, read)) : k \in ToSet(Active(read))}
                listed == ToSet(Recent[answer.at][read])
            IN /\ listed \subseteq all
               /\ Cardinality(listed) = Min({RecentLimit, Cardinality(all)})
               /\ \A c \in listed, d \in all \ listed : c.ts >= d.ts

\* A sparkline that is drawn rises or falls by the change beside it, in steps,
\* although the value may be newer than all its points.
SparksAgree ==
    \A x \in ToSet(MetricsOf(answer)) :
        LET path == Sparkline(x.spark)
        IN path # <<>> =>
              /\ Last(path).value - Head(path).value = x.change
              /\ \A i \in 2..Len(path) :
                    path[i].ts = path[i - 1].ts \/ path[i].value = path[i - 1].value

\* The figures that are computed apart tell the same story: the bars and the
\* line of the chart, the latest changes and the samples, the sparklines and the
\* changes beside them.
FiguresAgree == BarsUnderLine /\ BarsAddUp /\ LatestAreNewest /\ SparksAgree

\* In the demo, every request and every link of the pages leads to a file that
\* the export wrote.
DemoServes ==
    demo =>
        /\ \A req \in overviews : JsonFile(OverviewUrl(req.range)) \in Exported
        /\ \A h \in histories : JsonFile(HistoryUrl(h.key, h.range)) \in Exported
        /\ \A k \in KeysOf(answer) :
              RewriteInternalHref(DetailLink(k, linkRange)) \in Exported
        /\ RewriteInternalHref(OverviewLink(range)) \in Exported

\* The whole overview tells one story: the metrics of the moment, over the range
\* the user chose, and the chart of the selected one in today's colours.
Agrees ==
    /\ answer = AnsweredAt(range, clock)
    /\ linkRange = range
    /\ SelectedOf(answer) # Nothing =>
          drawn = [key |-> SelectedOf(answer), range |-> range, from |-> answer,
                   at |-> clock, now |-> clock, theme |-> theme]

\* The last history asked for has not been answered yet.
Awaiting == asked # Nothing /\ \E h \in histories : h.id = asked.id

\* On the live service the overview ends up in agreement, whatever order the
\* answers arrived in and whichever were lost, if the tab stays visible and the
\* histories it asks for are not always overtaken by the next refresh.
Settles ==
    (~demo /\ <>[](page = "overview" /\ visible) /\ []<>~Awaiting) => <>[]Agrees

\* The docstring of _bucket_spark: "Always starts at ``open_value`` and ends at
\* ``value``, even when the open (or latest) sample shares a bucket with another
\* point and would otherwise be overwritten."
SparkStartsAtOpen ==
    \A x \in ToSet(MetricsOf(answer)) :
        Head(x.spark).value = x.open /\ Last(x.spark).value = x.value
=============================================================================
