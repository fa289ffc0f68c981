------------------------------ MODULE Overview ------------------------------
(***************************************************************************)
(* The overview page: static/js/dashboard.js.  A refresh every minute, a   *)
(* change of range and a return to the tab each fetch an overview; each    *)
(* overview that arrives rebuilds the page and asks for the history of the *)
(* selected metric; so does a selection.  What is on the page follows from *)
(* the overview it was built from, but for the folds, the focus, the       *)
(* highlight, the chart and the range in its links.                        *)
(***************************************************************************)
EXTENDS Tab

CONSTANTS
    MoversShown,    \* how many of the biggest moves are listed
    MaxOverviews    \* bound: overview requests in flight

ASSUME ListAssumption == MoversShown \in Nat

VARIABLES
    answer,         \* the overview the page shows: state.metricsByKey
    linkRange,      \* state.range when the page was last rebuilt
    m,              \* the URL's ?m=
    highlighted,    \* the key whose tile and row are marked
    asked,          \* the last history asked for; its key is chartedKey
    expanded,       \* the plugins whose pattern rows are unfolded
    focus,          \* the element that has keyboard focus
    overviews,      \* overview requests in flight
    visible         \* document.visibilityState

overviewVars == <<answer, linkRange, m, highlighted, asked, expanded, focus,
                  overviews, visible>>

-----------------------------------------------------------------------------
\* What the server can answer: the metrics, the pins among the rows it read, and
\* the recent changes, which it reads after all this.
Overviews ==
    [r \in Ranges |-> [at \in 0..MaxClock |->
        [rows \in 0..MaxClock |-> [polls \in 0..MaxClock |->
            [metrics |-> MetricsServed(r, at, rows, polls), pinned |-> Pinned(rows)]]]]]

Recent == [at \in 0..MaxClock |-> [read \in 0..MaxClock |-> RecentChanges(at, read)]]

KeysIn(metrics) == {k \in Keys : \E x \in ToSet(metrics) : x.key = k}

\* groupMetrics and renderWatchlist: a plugin's pattern rows fold away only
\* beside rows of its own that are not from a pattern.
GroupIn(metrics, p, pattern) ==
    {k \in Keys : \E x \in ToSet(metrics) :
                     x.key = k /\ x.plugin = p /\ x.pattern = pattern}

FoldsIn(metrics) ==
    {p \in Plugins : GroupIn(metrics, p, TRUE) # {} /\ GroupIn(metrics, p, FALSE) # {}}

\* renderMovers: a stable sort by the size of the change, the first few.
Moved(x) == x.percent # Nothing /\ x.percent # 0

Ahead(metrics, i, j) ==
    \/ Magnitude(metrics[i].percent) > Magnitude(metrics[j].percent)
    \/ /\ Magnitude(metrics[i].percent) = Magnitude(metrics[j].percent)
       /\ i < j

MoversIn(metrics) ==
    LET moved == {i \in DOMAIN metrics : Moved(metrics[i])}
        first == {j \in moved :
                     Cardinality({i \in moved : Ahead(metrics, i, j)}) < MoversShown}
    IN {k \in KeysIn(metrics) : \E i \in first : metrics[i].key = k}

\* The tiles, a row for each metric, the fold toggles and the movers.
Element(kind, of) == [kind |-> kind, of |-> of]

\* renderIndexStrip: a tile for each pin that has a metric.
TilesIn(overview) == ToSet(overview.pinned) \intersect KeysIn(overview.metrics)

NodesIn(overview) ==
    {Element("tile", k)  : k \in TilesIn(overview)}
    \union {Element("row", k)   : k \in KeysIn(overview.metrics)}
    \union {Element("fold", p)  : p \in FoldsIn(overview.metrics)}
    \union {Element("mover", k) : k \in MoversIn(overview.metrics)}

\* What the page is built from each overview, before the first one from none.
Built(overview) ==
    LET metrics == overview.metrics
    IN [metrics |-> metrics,
        pinned  |-> overview.pinned,
        keys    |-> KeysIn(metrics),
        folds   |-> FoldsIn(metrics),
        folding |-> [p \in Plugins |-> GroupIn(metrics, p, TRUE)],
        nodes   |-> NodesIn(overview)]

Pages ==
    [r \in Ranges |-> [at \in 0..MaxClock |->
        [rows \in 0..MaxClock |-> [polls \in 0..MaxClock |->
            Built(Overviews[r][at][rows][polls])]]]]
NoPage  == Built([metrics |-> <<>>, pinned |-> <<>>])
Page(a) == IF a = Nothing THEN NoPage ELSE Pages[a.range][a.at][a.rows][a.polls]

MetricsOf(a) == Page(a).metrics
PinnedOf(a)  == Page(a).pinned
KeysOf(a)    == Page(a).keys
Folds(a)     == Page(a).folds
Nodes(a)     == Page(a).nodes

RowsVisible(a, open) ==
    KeysOf(a) \ UNION {Page(a).folding[p] : p \in Folds(a) \ open}

\* What can be seen, clicked and focused: no row inside a folded group.
Elements(a, open) == {e \in Nodes(a) : e.kind = "row" => e.of \in RowsVisible(a, open)}

-----------------------------------------------------------------------------
(***************************************************************************)
(* The focus across a rebuild.  focusedSelector describes the element that *)
(* has it by a class and a data attribute; querySelector takes the first   *)
(* element of the new page that fits, in the order of the document.  A row *)
(* is found inside a folded group too, but cannot be focused there.        *)
(***************************************************************************)
ClassOf(kind) == CASE kind = "tile"  -> "tile"
                   [] kind = "row"   -> "watchlist-row"
                   [] kind = "fold"  -> "fold-toggle"
                   [] kind = "mover" -> Nothing

ASSUME ClassAssumption == \A kind \in {"tile", "row", "fold"} : ClassOf(kind) # Nothing

DataOf(kind) == CASE kind \in {"tile", "row"} -> "key"
                  [] kind = "fold"  -> "fold"
                  [] kind = "mover" -> "mover"

\* The tiles stand above the movers, and these above the watchlist.
Place(kind) == CASE kind = "tile"  -> 1
                 [] kind = "mover" -> 2
                 [] kind \in {"row", "fold"} -> 3

\* Mutant: the data attribute alone.
SelectorByData(e) == [class |-> Nothing, data |-> DataOf(e.kind), value |-> e.of]

FocusedSelector(e) == [class |-> ClassOf(e.kind), data |-> DataOf(e.kind), value |-> e.of]

Matches(selector, e) ==
    /\ selector.class # Nothing => ClassOf(e.kind) = selector.class
    /\ DataOf(e.kind) = selector.data
    /\ e.of = selector.value

QuerySelector(selector, nodes) ==
    LET found == {e \in nodes : Matches(selector, e)}
    IN IF found = {} THEN Nothing
       ELSE CHOOSE e \in found : \A f \in found : Place(e.kind) <= Place(f.kind)

\* What has the focus on the page built from an overview, if an element had it
\* on the page before.
Refocused(e, a, open) ==
    IF e = Nothing THEN Nothing
    ELSE LET target == QuerySelector(FocusedSelector(e), Nodes(a))
         IN IF target \in Elements(a, open) THEN target ELSE Nothing

-----------------------------------------------------------------------------
SelectedOf(a) ==
    CASE m \in KeysOf(a) -> m
      [] m \notin KeysOf(a) /\ PinnedOf(a) # <<>> -> Head(PinnedOf(a))
      [] OTHER -> Nothing

ChartRequestId == IF asked = Nothing THEN 0 ELSE asked.id

\* loadChartFor: the request takes the metric of the moment along, and makes
\* every earlier one void.
LoadChartFor(key, a) ==
    IF key \in KeysOf(a)
      THEN LET h == HistoryOf(FreshId(ChartRequestId), key, a)
           IN /\ Cardinality(histories) < MaxPending
              /\ asked' = h
              /\ histories' = histories \union {h}
      ELSE UNCHANGED <<asked, histories>>

FetchOverview(r) == overviews \union {[range |-> r, since |-> ServerNow]}

OverviewLoaded(r, key) ==
    /\ answer' = Nothing
    /\ linkRange' = r
    /\ m' = key
    /\ highlighted' = Nothing
    /\ asked' = Nothing
    /\ expanded' = {}
    /\ focus' = Nothing
    /\ overviews' = {[range |-> r, since |-> ServerNow]}

\* The page is left for another.
OverviewLeft ==
    /\ answer' = Nothing
    /\ linkRange' = DefaultRange
    /\ m' = Nothing
    /\ highlighted' = Nothing
    /\ asked' = Nothing
    /\ expanded' = {}
    /\ focus' = Nothing
    /\ overviews' = {}

-----------------------------------------------------------------------------
(***************************************************************************)
(* render: the page is rebuilt from an overview that arrives, whichever    *)
(* range it was asked for.  The folds come from localStorage, the focus    *)
(* returns to the element's replacement, the selection from the URL.       *)
(***************************************************************************)
\* Mutant: a fold that was ever toggled is open.
OpenOnceToggled(a) ==
    {p \in Folds(a) : ~local.blocked /\ local.folds[p] # Nothing}

OpenAtRender(a) == {p \in Folds(a) : ~local.blocked /\ local.folds[p] = "1"}

Arrives(a) ==
    LET open == OpenAtRender(a)
    IN /\ answer' = a
       /\ linkRange' = range
       /\ expanded' = open
       /\ focus' = Refocused(focus, a, open)
       /\ highlighted' = SelectedOf(a)
       /\ IF SelectedOf(a) = Nothing THEN UNCHANGED <<asked, histories>>
          ELSE LoadChartFor(SelectedOf(a), a)

\* build_overview reads "now" first, then the rows, then the last good polls.
OverviewArrives(req) ==
    /\ page = "overview"
    /\ req \in overviews
    /\ overviews' = overviews \ {req}
    /\ \/ /\ \E at \in req.since..ServerNow :
             \E rows \in at..ServerNow :
             \E polls \in rows..ServerNow :
                Arrives([range |-> req.range, at |-> at, rows |-> rows, polls |-> polls])
          /\ UNCHANGED acts
       \/ /\ Failing
          /\ UNCHANGED <<answer, linkRange, expanded, focus, highlighted, asked,
                         histories>>
    /\ UNCHANGED <<clock, demo, page, range, theme, local, wanted, drawn,
                   m, visible>>

\* Mutant: the key is compared, not the request.
IsOfLastKey(h) == asked # Nothing /\ h.key = asked.key

\* The answer to a history request: drawn only if it is the last one asked.
IsLast(h) == h.id = ChartRequestId

ChartArrives(h) ==
    /\ page = "overview"
    /\ h \in histories
    /\ histories' = histories \ {h}
    /\ \/ /\ \E at \in h.since..ServerNow :
                drawn' = IF IsLast(h) THEN Rendered(h, at) ELSE drawn
          /\ UNCHANGED acts
       \/ Failing /\ UNCHANGED drawn
    /\ UNCHANGED <<clock, demo, page, range, theme, local, wanted,
                   overviewVars>>

-----------------------------------------------------------------------------
\* Mutant: the live service's timer is refused as well.
RefreshRefused == FALSE

\* The minute's timer, which the demo's shim refuses to set.
RefreshScheduled == ~demo

Refresh ==
    /\ page = "overview"
    /\ RefreshScheduled
    /\ visible
    /\ Cardinality(overviews) < MaxOverviews
    /\ overviews' = FetchOverview(range)
    /\ UNCHANGED <<tabVars, answer, linkRange, m, highlighted, asked, expanded,
                   focus, visible>>

\* visibilitychange; on the detail page nothing listens to it.
ChangeVisibility ==
    /\ ByUser
    /\ visible' = ~visible
    /\ IF visible' /\ page = "overview"
         THEN /\ Cardinality(overviews) < MaxOverviews
              /\ overviews' = FetchOverview(range)
         ELSE UNCHANGED overviews
    /\ UNCHANGED <<clock, demo, page, range, theme, local, wanted, drawn,
                   histories, answer, linkRange, m, highlighted,
                   asked, expanded, focus>>

\* setRange, by a button or the "More" menu.
SetRange(r) ==
    /\ page = "overview"
    /\ ByUser
    /\ r \in Selectable
    /\ Cardinality(overviews) < MaxOverviews
    /\ range' = r
    /\ overviews' = FetchOverview(r)
    /\ focus' = Nothing
    /\ UNCHANGED <<clock, demo, page, theme, local, wanted, drawn, histories,
                   answer, linkRange, m, highlighted, asked, expanded,
                   visible>>

\* setSelectedKey, by a tile, a row (which takes no focus) or a mover.
Select(e) ==
    /\ page = "overview"
    /\ ByUser
    /\ e \in Elements(answer, expanded)
    /\ e.kind # "fold"
    /\ m' = e.of
    /\ highlighted' = e.of
    /\ focus' = IF e.kind = "row" THEN Nothing ELSE e
    /\ LoadChartFor(e.of, answer)
    /\ UNCHANGED <<clock, demo, page, range, theme, local, wanted, drawn,
                   answer, linkRange, expanded, overviews, visible>>

\* The fold toggle's handler.
ToggleFold(p) ==
    LET open == p \notin expanded
    IN /\ page = "overview"
       /\ ByUser
       /\ p \in Folds(answer)
       /\ expanded' = IF open THEN expanded \union {p} ELSE expanded \ {p}
       /\ local' = IF local.blocked THEN local
                   ELSE [local EXCEPT !.folds[p] = IF open THEN "1" ELSE "0"]
       /\ wanted' = [wanted EXCEPT !.folds[p] = open]
       /\ focus' = Element("fold", p)
       /\ UNCHANGED <<clock, demo, page, range, theme, drawn, histories,
                      answer, linkRange, m, highlighted, asked,
                      overviews, visible>>

\* The Tab key.
MoveFocus(e) ==
    /\ page = "overview"
    /\ ByUser
    /\ e \in Elements(answer, expanded)
    /\ focus' = e
    /\ UNCHANGED <<clock, demo, page, range, theme, local, wanted, drawn,
                   histories, answer, linkRange, m, highlighted,
                   asked, expanded, overviews, visible>>

\* The theme toggle draws the chart again, in the new colours.
ToggleOverviewTheme ==
    /\ page = "overview"
    /\ ByUser
    /\ ToggleTheme
    /\ IF asked = Nothing THEN UNCHANGED <<asked, histories>>
       ELSE LoadChartFor(asked.key, answer)
    /\ focus' = Nothing
    /\ UNCHANGED <<clock, demo, page, range, drawn, answer, linkRange,
                   m, highlighted, expanded, overviews, visible>>
=============================================================================
