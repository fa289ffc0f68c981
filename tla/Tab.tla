-------------------------------- MODULE Tab --------------------------------
(***************************************************************************)
(* A browser tab that shows one of the two pages: what both pages' scripts *)
(* keep and share.  A request for a metric's history is answered with what *)
(* the server knew at some second between the request and the arrival of   *)
(* the answer; answers arrive in any order.                                *)
(***************************************************************************)
EXTENDS Served

CONSTANTS
    RangeButtons,   \* the ranges with a button
    MoreRanges,     \* the ranges in the "More" menu
    DefaultRange,   \* the range of a page whose URL names none
    ExportTime,     \* when the static demo was exported
    StartTime,      \* when the tab is opened
    Settings,       \* which of demo or live, storage blocked or not, occur
    MaxClock,       \* bound: the last second
    MaxPending,     \* bound: history requests in flight
    MaxActs         \* bound: what the user does and the requests that fail

ASSUME TabAssumption ==
    /\ RangeButtons \union MoreRanges = Ranges
    /\ RangeButtons \intersect MoreRanges = {}
    /\ DefaultRange \in Ranges
    /\ Settings \subseteq [demo : BOOLEAN, blocked : BOOLEAN]
    /\ ExportTime <= StartTime /\ StartTime <= MaxClock
    /\ StartTime \in Nat /\ ExportTime \in Nat /\ MaxClock \in Nat
    /\ MaxPending \in Nat \ {0}
    /\ MaxActs \in Nat

VARIABLES
    clock,          \* the wall clock, one for browser and server
    demo,           \* the pages are the static export, under demo-shim.js
    page,           \* "overview" or "detail"
    range,          \* state.range
    theme,          \* data-theme of the document
    local,          \* localStorage: the theme and the folds; or blocked
    wanted,         \* history: the theme and the folds the user chose last
    drawn,          \* the big chart
    histories,      \* requests for a history in flight
    acts            \* how often the user acted or a request failed

tabVars == <<clock, demo, page, range, theme, local, wanted, drawn, histories,
             acts>>

Themes == {"dark", "light"}

\* An overview: its range, its "now", and the seconds in which its rows and the
\* last good polls were read.
Answer  == [range : Ranges, at : 0..MaxClock, rows : 0..MaxClock, polls : 0..MaxClock]

\* What is drawn or asked for: a key's history over a range, along with the
\* overview that the metric's other figures come from.
Request == [id : 0..MaxPending, key : Keys, range : Ranges, from : Answer,
            since : 0..MaxClock]
Drawing == [key : Keys, range : Ranges, from : Answer, at : 0..MaxClock,
            now : 0..MaxClock, theme : Themes]

ASSUME NothingAssumption ==
    /\ Nothing \notin Request \union Answer \union Drawing
    /\ Nothing \notin Keys \union {"dark", "light", "0", "1", "ok"}

\* What the server answers about each metric's history at each second.
Histories == [k \in Keys |-> [r \in Ranges |-> [t \in 0..MaxClock |-> PointsServed(k, r, t)]]]
Strips    == [k \in Keys |-> [r \in Ranges |-> [t \in 0..MaxClock |-> BarsServed(k, r, t)]]]

ServerNow == IF demo THEN ExportTime ELSE clock

\* An id that no request in flight has: what counting up gives.
FreshId(current) ==
    Min((0..MaxPending) \ ({h.id : h \in histories} \union {current}))

\* All of an answer from one second: a server that nothing held up.
AnsweredAt(r, t) == [range |-> r, at |-> t, rows |-> t, polls |-> t]

HistoryOf(id, key, from) ==
    [id |-> id, key |-> key, range |-> range, from |-> from, since |-> ServerNow]

\* chart.render and renderChangeBars, with the answer the server gave at a
\* second: colours are looked up and "now" is read at this moment.  A history
\* without points draws nothing.
Rendered(h, at) ==
    IF Histories[h.key][h.range][at] = <<>> THEN Nothing
    ELSE [key |-> h.key, range |-> h.range, from |-> h.from, at |-> at,
          now |-> clock, theme |-> theme]

\* What nobody makes happen: the user acts, a request fails.
Unforced == acts < MaxActs /\ acts' = acts + 1
ByUser   == Unforced
Failing  == Unforced

-----------------------------------------------------------------------------
(***************************************************************************)
(* The theme toggle of common.js, and the script in base.html's head that  *)
(* applies a stored theme before the first paint.                          *)
(***************************************************************************)
Opposite(t) == IF t = "dark" THEN "light" ELSE "dark"

ToggleTheme ==
    /\ theme' = Opposite(theme)
    /\ local' = IF local.blocked THEN local
                ELSE [local EXCEPT !.theme = Opposite(theme)]
    /\ wanted' = [wanted EXCEPT !.theme = Opposite(theme)]

\* Mutant: whatever localStorage holds is applied.
ThemeStored == local.theme

ThemeAtLoad == IF local.theme \in Themes THEN local.theme ELSE "dark"

\* What a page load does to the tab, whichever page it is.
LoadPage(p, r) ==
    /\ page' = p
    /\ range' = r
    /\ theme' = ThemeAtLoad
    /\ drawn' = Nothing

-----------------------------------------------------------------------------
(***************************************************************************)
(* The range switcher, a row of buttons (links on the detail page) and the *)
(* "More" menu.  A menu fires no event for the option it already shows.    *)
(***************************************************************************)
Marked(r) == [pressed |-> {b \in RangeButtons : b = r},
              more    |-> IF r \in MoreRanges THEN r ELSE Nothing]

Selectable == RangeButtons \union (MoreRanges \ {Marked(range).more})

-----------------------------------------------------------------------------
TabTypeOK ==
    /\ clock \in 0..MaxClock
    /\ demo \in BOOLEAN
    /\ page \in {"overview", "detail"}
    /\ range \in Ranges
    /\ theme \in Themes
    /\ local \in [blocked : BOOLEAN, theme : Themes \union {Nothing},
                  folds : [Plugins -> {Nothing, "0", "1"}]]
    /\ wanted \in [theme : Themes, folds : [Plugins -> BOOLEAN]]
    /\ drawn = Nothing \/ drawn \in Drawing
    /\ histories \subseteq Request
    /\ Cardinality(histories) <= MaxPending
    /\ acts \in 0..MaxActs

TabInit ==
    /\ clock = StartTime
    /\ page = "overview"
    /\ range = DefaultRange
    /\ theme = "dark"
    /\ \E s \in Settings :
          /\ demo = s.demo
          /\ local = [blocked |-> s.blocked, theme |-> Nothing,
                      folds |-> [p \in Plugins |-> Nothing]]
    /\ wanted = [theme |-> "dark", folds |-> [p \in Plugins |-> FALSE]]
    /\ drawn = Nothing
    /\ histories = {}
    /\ acts = 0
=============================================================================
