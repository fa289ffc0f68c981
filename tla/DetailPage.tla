----------------------------- MODULE DetailPage -----------------------------
(***************************************************************************)
(* The page of one metric: static/js/detail.js, and the parts of           *)
(* dashboard.metric_detail it depends on.  The server renders the figures, *)
(* the table of changes and the stale flag for one range; the script draws *)
(* the chart and rewrites the value and its change from a history it asks  *)
(* for, without telling older requests from newer ones.                    *)
(***************************************************************************)
EXTENDS Tab

VARIABLES
    detail,         \* the key, and when the server rendered its page
    pill            \* the value and the change the script wrote last

detailVars == <<detail, pill>>

NoDetail == [key |-> Nothing, at |-> 0]

\* What the script takes from the page: its range, and the stale flag as it
\* was when the server rendered it, which takes less than a second here.
PageAnswer(r) == AnsweredAt(r, detail.at)

LoadOf(key, r, at) ==
    [id |-> 1, key |-> key, range |-> r, from |-> AnsweredAt(r, at),
     since |-> ServerNow]

\* The static export has one page per metric, of the default range.
RangeOfPage(r) == IF demo THEN DefaultRange ELSE r

DetailLoaded(key, r) ==
    /\ LoadPage("detail", RangeOfPage(r))
    /\ detail' = [key |-> key, at |-> ServerNow]
    /\ pill' = Nothing
    /\ histories' = {LoadOf(key, RangeOfPage(r), ServerNow)}

DetailLeft == detail' = NoDetail /\ pill' = Nothing

\* renderChangePill, and the percentage render() computes for it.
Pill(points) ==
    LET open  == Head(points).value
        value == Last(points).value
    IN [value  |-> value,
        change |-> FormatChange(value - open,
                                IF open = 0 THEN Nothing
                                ELSE Rounded(100 * (value - open), open))]

\* render: an empty history leaves the page as the server made it.
RenderDetail(h, at) ==
    LET points == Histories[h.key][h.range][at]
    IN IF points = <<>> THEN UNCHANGED <<drawn, pill>>
       ELSE /\ drawn' = Rendered(h, at)
            /\ pill' = Pill(points)

HistoryArrives(h) ==
    /\ page = "detail"
    /\ h \in histories
    /\ histories' = histories \ {h}
    /\ \/ /\ \E at \in h.since..ServerNow : RenderDetail(h, at)
          /\ UNCHANGED acts
       \/ Failing /\ UNCHANGED <<drawn, pill>>
    /\ UNCHANGED <<clock, demo, page, range, theme, local, wanted, detail>>

\* load, by the theme toggle.
ToggleDetailTheme ==
    /\ page = "detail"
    /\ ByUser
    /\ ToggleTheme
    /\ Cardinality(histories) < MaxPending
    /\ histories' = histories \union {HistoryOf(FreshId(0), detail.key,
                                                PageAnswer(range))}
    /\ UNCHANGED <<clock, demo, page, range, drawn, detail, pill>>

DetailTypeOK ==
    /\ detail \in [key : Keys \union {Nothing}, at : 0..MaxClock]
    /\ pill = Nothing \/ pill.change.direction \in {"up", "down", "flat"}
=============================================================================
