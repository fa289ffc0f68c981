--------------------------- MODULE Browser_proofs ---------------------------
(***************************************************************************)
(* Proofs about Browser, for any catalogue, any samples and polls, any     *)
(* ranges, and any number of requests in flight: the types; that what the  *)
(* user chose is kept, that only the last history asked for is drawn, and  *)
(* that a refresh takes the focus from no element that is still there;     *)
(* that the demo asks for exported files only, that the line of a stale    *)
(* series has its dashed tail, and that the figures on the page agree.     *)
(*                                                                         *)
(* The first part leaves what the server computes closed: rows, tiles and  *)
(* movers are those of an overview's metrics, whatever these are.  The     *)
(* later parts open it, function by function.                              *)
(***************************************************************************)
EXTENDS Browser, Charts_proofs

USE TabAssumption, NothingAssumption

-----------------------------------------------------------------------------
\* The parts of the inductive invariant.

\* What the actions rely on, and the ranges of the variables they use.
Kinds ==
    /\ clock \in 0..MaxClock
    /\ page \in {"overview", "detail"}
    /\ {range, linkRange} \subseteq Ranges
    /\ theme \in Themes
    /\ local \in [blocked : BOOLEAN, theme : Themes \union {Nothing},
                  folds : [Plugins -> {Nothing, "0", "1"}]]
    /\ wanted \in [theme : Themes, folds : [Plugins -> BOOLEAN]]
    /\ answer \in Answer \union {Nothing}
    /\ asked \in Request \union {Nothing}
    /\ histories \subseteq Request /\ IsFiniteSet(histories)
    /\ overviews \subseteq [range : Ranges, since : 0..MaxClock]
    /\ acts \in Nat
    /\ page = "detail" =>
          /\ detail.key \in Keys /\ detail.at \in 0..MaxClock
          /\ answer = Nothing /\ asked = Nothing

\* Of the requests in flight on the overview, one at most has the id of the
\* last one asked, and it is that one.
LastAsked ==
    page = "overview" =>
        /\ asked = Nothing => histories = {}
        /\ asked # Nothing => \A h \in histories : h.id = asked.id => h = asked

\* localStorage, where it works, holds what the user chose.
Remembered ==
    ~local.blocked =>
        /\ \A p \in Plugins : (local.folds[p] = "1") = wanted.folds[p]
        /\ ThemeAtLoad = wanted.theme
        /\ theme = wanted.theme
        /\ FoldsShown

IInv == Kinds /\ LastAsked /\ SelectionShown /\ Remembered

-----------------------------------------------------------------------------
LEMMA ServerNowKind == Kinds => ServerNow \in 0..MaxClock
    BY DEF Kinds, ServerNow

\* What is on a page has to do with the metrics of its overview.
LEMMA PageParts ==
    ASSUME NEW a \in Answer \union {Nothing}
    PROVE  /\ KeysOf(a) \subseteq Keys /\ Folds(a) \subseteq Plugins
           /\ \A e \in Nodes(a) :
                 /\ \E kind \in {"tile", "row", "fold", "mover"} : \E of : e = Element(kind, of)
                 /\ e.kind = "fold" => e.of \in Folds(a)
                 /\ e.kind # "fold" => e.of \in KeysOf(a)
           /\ \A k \in KeysOf(a) : Element("row", k) \in Nodes(a)
           /\ \A p \in Folds(a) : Element("fold", p) \in Nodes(a)
<1>1. PICK overview : Page(a) = Built(overview)
    <2>1. CASE a = Nothing
        BY <2>1 DEF Page, NoPage
    <2>2. CASE a \in Answer
        <3>1. /\ a.range \in Ranges /\ a.at \in 0..MaxClock
              /\ a.rows \in 0..MaxClock /\ a.polls \in 0..MaxClock
            BY <2>2 DEF Answer
        <3> QED BY <2>2, <3>1, NothingAssumption DEF Page, Pages
    <2> QED BY <2>1, <2>2
<1>2. /\ KeysOf(a) = KeysIn(overview.metrics)
      /\ Folds(a) = FoldsIn(overview.metrics)
      /\ Nodes(a) = NodesIn(overview)
    BY <1>1 DEF KeysOf, Folds, Nodes, Built
<1>3. KeysOf(a) \subseteq Keys /\ Folds(a) \subseteq Plugins
    BY <1>2 DEF KeysIn, FoldsIn
<1>4. /\ TilesIn(overview) \subseteq KeysOf(a)
      /\ MoversIn(overview.metrics) \subseteq KeysOf(a)
    BY <1>2 DEF TilesIn, MoversIn
<1>5. Nodes(a) = {Element("tile", k) : k \in TilesIn(overview)}
                 \union {Element("row", k) : k \in KeysOf(a)}
                 \union {Element("fold", p) : p \in Folds(a)}
                 \union {Element("mover", k) : k \in MoversIn(overview.metrics)}
    BY <1>2 DEF NodesIn
<1>6. ASSUME NEW e \in Nodes(a)
      PROVE  /\ \E kind \in {"tile", "row", "fold", "mover"} : \E of : e = Element(kind, of)
             /\ e.kind = "fold" => e.of \in Folds(a)
             /\ e.kind # "fold" => e.of \in KeysOf(a)
    <2>1. \/ \E k \in KeysOf(a) : e = Element("tile", k)
          \/ \E k \in KeysOf(a) : e = Element("row", k)
          \/ \E p \in Folds(a) : e = Element("fold", p)
          \/ \E k \in KeysOf(a) : e = Element("mover", k)
        BY <1>4, <1>5, <1>6
    <2>2. \A kind, of : Element(kind, of).kind = kind /\ Element(kind, of).of = of
        BY DEF Element
    <2> QED BY <2>1, <2>2
<1> QED BY <1>3, <1>5, <1>6

\* An empty page has no rows and nothing to unfold or to select.
LEMMA EmptyPage ==
    /\ KeysOf(Nothing) = {}
    /\ Folds(Nothing) = {}
    /\ \A e, open : e \in Elements(Nothing, open) => FALSE
<1>1. ToSet(<<>>) = {}
    BY DEF ToSet
<1>2. KeysOf(Nothing) = {} /\ Folds(Nothing) = {}
    BY <1>1 DEF KeysOf, Folds, Page, NoPage, Built, KeysIn, FoldsIn, GroupIn
<1>3. \A e \in Nodes(Nothing) : FALSE
    BY <1>2, PageParts
<1> QED BY <1>2, <1>3 DEF Elements

\* Whatever is selected has a row.
LEMMA ElementHasRow ==
    ASSUME NEW a \in Answer \union {Nothing}, NEW open,
           NEW e \in Elements(a, open), e.kind # "fold"
    PROVE  e.of \in KeysOf(a)
    BY PageParts DEF Elements

\* While there is room for a request there is an id that none in flight has.
LEMMA FreshIdIsFresh ==
    ASSUME IsFiniteSet(histories), Cardinality(histories) < MaxPending, NEW current
    PROVE  /\ FreshId(current) \in 0..MaxPending
           /\ FreshId(current) # current
           /\ \A h \in histories : h.id # FreshId(current)
<1> DEFINE ids  == {h.id : h \in histories}
           f    == [h \in histories |-> h.id]
           free == (0..MaxPending) \ (ids \union {current})
<1>1. f \in Surjection(histories, ids)
    BY DEF Surjection
<1>2. IsFiniteSet(ids) /\ Cardinality(ids) <= Cardinality(histories)
    BY <1>1, FS_Surjection
<1>3. /\ IsFiniteSet(ids \union {current})
      /\ Cardinality(ids \union {current}) <= Cardinality(ids) + 1
    <2> HIDE DEF ids
    <2>1. Cardinality(ids \union {current}) = IF current \in ids THEN Cardinality(ids)
                                               ELSE Cardinality(ids) + 1
        BY <1>2, FS_AddElement
    <2>2. IsFiniteSet(ids \union {current})
        BY <1>2, FS_AddElement
    <2>3. Cardinality(ids) \in Nat
        BY <1>2, FS_CardinalityType
    <2> QED BY <2>1, <2>2, <2>3
<1>4. /\ Cardinality(0..MaxPending) = MaxPending + 1
      /\ Cardinality(histories) \in Nat
      /\ Cardinality(ids) \in Nat
      /\ Cardinality(ids \union {current}) \in Nat
    BY <1>2, <1>3, FS_Interval, FS_CardinalityType
<1>5. Cardinality(ids \union {current}) < Cardinality(0..MaxPending)
    BY <1>2, <1>3, <1>4
<1>6. ~(0..MaxPending \subseteq ids \union {current})
    BY <1>3, <1>4, <1>5, FS_Subset
<1>7. free \in SUBSET Nat /\ free # {}
    BY <1>6
<1>8. Min(free) \in free
    BY <1>7, LeastElement
<1> QED BY <1>8 DEF FreshId

\* loadChartFor: nothing happens for a key without a row; else the new request
\* is the last one asked, under an id of its own.
LEMMA Loads ==
    ASSUME Kinds, NEW key, NEW a \in Answer \union {Nothing}, LoadChartFor(key, a)
    PROVE  \/ key \notin KeysOf(a) /\ UNCHANGED <<asked, histories>>
           \/ /\ key \in KeysOf(a)
              /\ asked' \in Request
              /\ asked'.key = key
              /\ histories' = histories \union {asked'}
              /\ \A h \in histories : h.id # asked'.id
<1>1. CASE key \notin KeysOf(a)
    BY <1>1 DEF LoadChartFor
<1>2. CASE key \in KeysOf(a)
    <2> DEFINE id == FreshId(ChartRequestId)
               h  == HistoryOf(id, key, a)
    <2>1. Cardinality(histories) < MaxPending /\ asked' = h
          /\ histories' = histories \union {h}
        BY <1>2 DEF LoadChartFor
    <2>2. id \in 0..MaxPending /\ \A g \in histories : g.id # id
        BY <2>1, FreshIdIsFresh DEF Kinds
    <2>3. key \in Keys /\ a \in Answer
        BY <1>2, EmptyPage, PageParts
    <2>4. h \in Request /\ h.key = key /\ h.id = id
        BY <2>2, <2>3, ServerNowKind DEF HistoryOf, Request, Kinds
    <2> QED BY <1>2, <2>1, <2>2, <2>4
<1> QED BY <1>1, <1>2

-----------------------------------------------------------------------------
\* What an action that leaves the variables of a part alone leaves true.

LEMMA LastAskedStays ==
    ASSUME LastAsked, UNCHANGED <<page, asked, histories>>
    PROVE  LastAsked'
    BY DEF LastAsked

LEMMA SelectionStays ==
    ASSUME SelectionShown, UNCHANGED <<page, answer, highlighted, m, asked>>
    PROVE  SelectionShown'
    BY DEF SelectionShown, SelectedOf

LEMMA RememberedStays ==
    ASSUME Remembered, UNCHANGED <<local, wanted, theme, answer, expanded>>
    PROVE  Remembered'
    BY DEF Remembered, FoldsShown, ThemeAtLoad

\* A page without an overview shows no selection and no folds.
LEMMA EmptyPageKeeps ==
    ASSUME Remembered, UNCHANGED <<local, wanted>>, theme' = ThemeAtLoad,
           answer' = Nothing
    PROVE  SelectionShown' /\ Remembered'
    BY EmptyPage DEF SelectionShown, Remembered, FoldsShown, ThemeAtLoad

\* The requests in flight after one was sent, and after one was answered.
LEMMA SentRequest ==
    ASSUME Kinds, asked' \in Request, histories' = histories \union {asked'},
           \A h \in histories : h.id # asked'.id
    PROVE  /\ histories' \subseteq Request /\ IsFiniteSet(histories')
           /\ LastAsked'
<1>1. IsFiniteSet(histories')
    BY FS_AddElement DEF Kinds
<1>2. histories' \subseteq Request
    BY DEF Kinds
<1>3. asked' # Nothing
    OBVIOUS
<1> QED BY <1>1, <1>2, <1>3 DEF LastAsked

LEMMA AnsweredRequest ==
    ASSUME Kinds, LastAsked, NEW h \in histories, histories' = histories \ {h},
           UNCHANGED <<page, asked>>
    PROVE  /\ histories' \subseteq Request /\ IsFiniteSet(histories')
           /\ LastAsked'
<1>1. IsFiniteSet(histories')
    BY FS_Subset DEF Kinds
<1> QED BY <1>1 DEF Kinds, LastAsked

-----------------------------------------------------------------------------
\* The invariant holds in the initial states and is kept by every step.

LEMMA InitIInv == Init => IInv
<1> SUFFICES ASSUME Init PROVE IInv
    OBVIOUS
<1> USE DEF Init, TabInit
<1>1. ServerNow \in 0..MaxClock /\ clock \in 0..MaxClock
    BY DEF ServerNow
<1>2. Kinds
    <2>1. histories \subseteq Request /\ IsFiniteSet(histories)
        BY FS_EmptySet
    <2>2. local \in [blocked : BOOLEAN, theme : Themes \union {Nothing},
                     folds : [Plugins -> {Nothing, "0", "1"}]]
        OBVIOUS
    <2>3. wanted \in [theme : Themes, folds : [Plugins -> BOOLEAN]]
        BY DEF Themes
    <2> QED BY <1>1, <2>1, <2>2, <2>3 DEF Kinds, Themes
<1>3. LastAsked
    BY DEF LastAsked
<1>4. SelectionShown
    BY DEF SelectionShown
<1>5. Remembered
    <2>1. \A p \in Plugins : local.folds[p] = Nothing /\ wanted.folds[p] = FALSE
        OBVIOUS
    <2>2. ThemeAtLoad = "dark"
        BY DEF ThemeAtLoad, Themes
    <2>3. FoldsShown
        BY EmptyPage DEF FoldsShown
    <2> QED BY <2>1, <2>2, <2>3 DEF Remembered
<1> QED BY <1>2, <1>3, <1>4, <1>5 DEF IInv

LEMMA TickKeeps ==
    ASSUME IInv, Tick
    PROVE  IInv'
<1>1. Kinds'
    BY DEF IInv, Kinds, Tick, overviewVars, detailVars
<1> QED
    BY <1>1, LastAskedStays, SelectionStays, RememberedStays
    DEF IInv, Tick, overviewVars

\* What an answer to a request can be.
LEMMA AnswerKind ==
    ASSUME Kinds, NEW req \in overviews, OverviewArrives(req)
    PROVE  \/ /\ UNCHANGED acts
              /\ \E a \in Answer :
                    /\ req.since <= a.rows /\ a.rows <= ServerNow
                    /\ Arrives(a)
           \/ /\ Failing
              /\ UNCHANGED <<answer, linkRange, expanded, focus, highlighted, asked,
                             histories>>
<1>1. req.range \in Ranges /\ req.since \in 0..MaxClock /\ ServerNow \in 0..MaxClock
    BY ServerNowKind DEF Kinds
<1>2. ASSUME NEW at \in req.since..ServerNow, NEW rows \in at..ServerNow,
             NEW polls \in rows..ServerNow,
             Arrives([range |-> req.range, at |-> at, rows |-> rows, polls |-> polls])
      PROVE  \E a \in Answer : req.since <= a.rows /\ a.rows <= ServerNow /\ Arrives(a)
    <2> DEFINE a == [range |-> req.range, at |-> at, rows |-> rows, polls |-> polls]
    <2>1. a \in Answer /\ req.since <= a.rows /\ a.rows <= ServerNow
        BY <1>1 DEF Answer
    <2> QED BY <1>2, <2>1
<1> QED BY <1>2 DEF OverviewArrives

\* render: the overview that arrives.
LEMMA ArrivesKeeps ==
    ASSUME IInv, NEW req \in overviews, NEW a \in Answer,
           Arrives(a), page = "overview", overviews' = overviews \ {req},
           UNCHANGED <<clock, demo, page, range, theme, local, wanted, drawn,
                       m, visible, acts>>
    PROVE  IInv'
<1> DEFINE k == SelectedOf(a)
<1>2. /\ answer' = a
      /\ linkRange' = range
      /\ expanded' = OpenAtRender(a)
      /\ highlighted' = k
      /\ IF k = Nothing THEN UNCHANGED <<asked, histories>> ELSE LoadChartFor(k, a)
    BY DEF Arrives
<1> HIDE DEF k
<1>3. \/ k \notin KeysOf(a) /\ UNCHANGED <<asked, histories>>
      \/ /\ k \in KeysOf(a)
         /\ asked' \in Request
         /\ asked'.key = k
         /\ histories' = histories \union {asked'}
         /\ \A h \in histories : h.id # asked'.id
    <2>1. Nothing \notin KeysOf(a)
        BY PageParts
    <2> QED BY <1>2, <2>1, Loads DEF IInv
<1>4. /\ asked' \in Request \union {Nothing}
      /\ histories' \subseteq Request /\ IsFiniteSet(histories')
      /\ LastAsked'
    BY <1>3, SentRequest, LastAskedStays DEF IInv, Kinds
<1>5. Kinds'
    BY <1>2, <1>4 DEF IInv, Kinds
<1>6. SelectionShown'
    <2>1. SelectedOf(answer)' = k
        BY <1>2 DEF SelectedOf, k
    <2>2. k \in KeysOf(a) => asked' # Nothing /\ asked'.key = k
        BY <1>3
    <2> QED BY <1>2, <2>1, <2>2 DEF SelectionShown
<1>7. Remembered'
    <2> SUFFICES ASSUME ~local.blocked
                 PROVE  FoldsShown'
        BY DEF IInv, Remembered, ThemeAtLoad
    <2> SUFFICES ASSUME NEW p \in Folds(a)
                 PROVE  (p \in expanded') = wanted.folds[p]
        BY <1>2 DEF FoldsShown
    <2>1. p \in expanded' <=> local.folds[p] = "1"
        BY <1>2 DEF OpenAtRender
    <2>2. p \in Plugins
        BY PageParts
    <2>3. (local.folds[p] = "1") = wanted.folds[p]
        BY <2>2 DEF IInv, Remembered
    <2> QED BY <2>1, <2>3
<1> QED BY <1>4, <1>5, <1>6, <1>7 DEF IInv

LEMMA OverviewArrivesKeeps ==
    ASSUME IInv, NEW req \in overviews, OverviewArrives(req)
    PROVE  IInv'
<1>1. CASE UNCHANGED acts /\ \E a \in Answer : Arrives(a)
    BY <1>1, ArrivesKeeps DEF OverviewArrives
<1>2. CASE /\ Failing
           /\ UNCHANGED <<answer, linkRange, expanded, focus, highlighted, asked,
                          histories>>
    <2>1. Kinds'
        BY <1>2 DEF IInv, Kinds, OverviewArrives, Failing, Unforced
    <2> QED
        BY <1>2, <2>1, LastAskedStays, SelectionStays, RememberedStays
        DEF IInv, OverviewArrives
<1> QED BY <1>1, <1>2, AnswerKind DEF IInv

LEMMA ChartArrivesKeeps ==
    ASSUME IInv, NEW h \in histories, ChartArrives(h)
    PROVE  IInv'
<1>1. histories' \subseteq Request /\ IsFiniteSet(histories') /\ LastAsked'
    BY AnsweredRequest DEF IInv, ChartArrives, overviewVars
<1>2. acts' \in Nat
    BY DEF IInv, Kinds, ChartArrives, Failing, Unforced
<1>3. Kinds'
    BY <1>1, <1>2 DEF IInv, Kinds, ChartArrives, overviewVars
<1> QED
    BY <1>1, <1>3, SelectionStays, RememberedStays
    DEF IInv, ChartArrives, overviewVars

LEMMA RefreshKeeps ==
    ASSUME IInv, Refresh
    PROVE  IInv'
<1>1. Kinds'
    BY ServerNowKind DEF IInv, Kinds, Refresh, FetchOverview, tabVars
<1> QED
    BY <1>1, LastAskedStays, SelectionStays, RememberedStays
    DEF IInv, Refresh, tabVars

LEMMA SetRangeKeeps ==
    ASSUME IInv, NEW r \in Ranges, SetRange(r)
    PROVE  IInv'
<1>1. Kinds'
    BY ServerNowKind DEF IInv, Kinds, SetRange, FetchOverview, ByUser, Unforced
<1> QED
    BY <1>1, LastAskedStays, SelectionStays, RememberedStays DEF IInv, SetRange

LEMMA ChangeVisibilityKeeps ==
    ASSUME IInv, ChangeVisibility, UNCHANGED detailVars
    PROVE  IInv'
<1>1. overviews' \subseteq [range : Ranges, since : 0..MaxClock]
    BY ServerNowKind DEF IInv, Kinds, ChangeVisibility, FetchOverview
<1>2. Kinds'
    BY <1>1 DEF IInv, Kinds, ChangeVisibility, ByUser, Unforced, detailVars
<1> QED
    BY <1>2, LastAskedStays, SelectionStays, RememberedStays
    DEF IInv, ChangeVisibility

\* setSelectedKey asks for the history of the key it marks.
LEMMA SelectKeeps ==
    ASSUME IInv, NEW e \in Elements(answer, expanded), Select(e)
    PROVE  IInv'
<1>1. /\ e.of \in KeysOf(answer)
      /\ m' = e.of /\ highlighted' = e.of
      /\ LoadChartFor(e.of, answer)
      /\ UNCHANGED <<clock, page, range, theme, local, wanted, answer, linkRange,
                     expanded, overviews>>
    BY ElementHasRow DEF Select, IInv, Kinds
<1>2. /\ asked' \in Request
      /\ asked'.key = e.of
      /\ histories' = histories \union {asked'}
      /\ \A h \in histories : h.id # asked'.id
    BY <1>1, Loads DEF IInv, Kinds
<1>3. histories' \subseteq Request /\ IsFiniteSet(histories') /\ LastAsked'
    BY <1>2, SentRequest DEF IInv
<1>4. Kinds'
    <2>1. acts' \in Nat
        BY DEF IInv, Kinds, Select, ByUser, Unforced
    <2>2. page' = "overview"
        BY <1>1 DEF Select
    <2> QED BY <1>1, <1>2, <1>3, <2>1, <2>2 DEF IInv, Kinds
<1>5. SelectionShown'
    <2>1. SelectedOf(answer)' = e.of
        BY <1>1 DEF SelectedOf
    <2> QED BY <1>1, <1>2, <2>1 DEF SelectionShown
<1> QED BY <1>1, <1>3, <1>4, <1>5, RememberedStays DEF IInv

LEMMA ToggleFoldKeeps ==
    ASSUME IInv, NEW p \in Plugins, ToggleFold(p)
    PROVE  IInv'
<1> DEFINE open == p \notin expanded
<1>1. /\ p \in Folds(answer)
      /\ expanded' = IF open THEN expanded \union {p} ELSE expanded \ {p}
      /\ local' = IF local.blocked THEN local
                  ELSE [local EXCEPT !.folds[p] = IF open THEN "1" ELSE "0"]
      /\ wanted' = [wanted EXCEPT !.folds[p] = open]
      /\ acts' = acts + 1
      /\ UNCHANGED <<clock, page, range, theme, histories, answer, linkRange, m,
                     highlighted, asked, overviews>>
      /\ page = "overview"
    BY DEF ToggleFold, ByUser, Unforced
<1>2. /\ local \in [blocked : BOOLEAN, theme : Themes \union {Nothing},
                    folds : [Plugins -> {Nothing, "0", "1"}]]
      /\ wanted \in [theme : Themes, folds : [Plugins -> BOOLEAN]]
    BY DEF IInv, Kinds
<1>3. /\ local' \in [blocked : BOOLEAN, theme : Themes \union {Nothing},
                     folds : [Plugins -> {Nothing, "0", "1"}]]
      /\ wanted' \in [theme : Themes, folds : [Plugins -> BOOLEAN]]
    BY <1>1, <1>2
<1>4. Kinds'
    BY <1>1, <1>3 DEF IInv, Kinds
<1>5. Remembered'
    <2> SUFFICES ASSUME ~local'.blocked
                 PROVE  Remembered'
        BY DEF Remembered
    <2>1. /\ ~local.blocked
          /\ local' = [local EXCEPT !.folds[p] = IF open THEN "1" ELSE "0"]
        BY <1>1, <1>2
    <2>2. /\ \A q \in Plugins : (local.folds[q] = "1") = wanted.folds[q]
          /\ \A q \in Folds(answer) : (q \in expanded) = wanted.folds[q]
          /\ ThemeAtLoad = wanted.theme
          /\ theme = wanted.theme
        BY <2>1 DEF IInv, Remembered, FoldsShown
    <2>3. /\ wanted'.folds = [wanted.folds EXCEPT ![p] = open]
          /\ local'.folds = [local.folds EXCEPT ![p] = IF open THEN "1" ELSE "0"]
          /\ wanted'.theme = wanted.theme /\ local'.theme = local.theme
        BY <1>1, <1>2, <2>1
    <2>4. \A q \in Plugins : (local'.folds[q] = "1") = wanted'.folds[q]
        <3> SUFFICES ASSUME NEW q \in Plugins
                     PROVE  (local'.folds[q] = "1") = wanted'.folds[q]
            OBVIOUS
        <3>1. CASE q = p
            BY <1>2, <2>3, <3>1
        <3>2. CASE q # p
            BY <1>2, <2>2, <2>3, <3>2
        <3> QED BY <3>1, <3>2
    <2>5. \A q \in Folds(answer) : (q \in expanded') = wanted'.folds[q]
        <3> SUFFICES ASSUME NEW q \in Folds(answer)
                     PROVE  (q \in expanded') = wanted'.folds[q]
            OBVIOUS
        <3>1. q \in Plugins
            BY PageParts DEF IInv, Kinds
        <3>2. CASE q = p
            BY <1>1, <1>2, <2>3, <3>2
        <3>3. CASE q # p
            BY <1>1, <1>2, <2>2, <2>3, <3>1, <3>3
        <3> QED BY <3>2, <3>3
    <2>6. ThemeAtLoad' = wanted'.theme /\ theme' = wanted'.theme
        BY <1>1, <2>2, <2>3 DEF ThemeAtLoad
    <2> QED BY <1>1, <2>4, <2>5, <2>6 DEF Remembered, FoldsShown
<1> QED BY <1>1, <1>4, <1>5, LastAskedStays, SelectionStays DEF IInv

LEMMA MoveFocusKeeps ==
    ASSUME IInv, NEW e \in Elements(answer, expanded), MoveFocus(e)
    PROVE  IInv'
<1>1. Kinds'
    BY DEF IInv, Kinds, MoveFocus, ByUser, Unforced
<1> QED
    BY <1>1, LastAskedStays, SelectionStays, RememberedStays DEF IInv, MoveFocus

\* The theme toggle of common.js, on either page.
LEMMA ToggleThemeKeeps ==
    ASSUME IInv, ToggleTheme, UNCHANGED <<answer, expanded>>
    PROVE  /\ theme' \in Themes
           /\ local' \in [blocked : BOOLEAN, theme : Themes \union {Nothing},
                          folds : [Plugins -> {Nothing, "0", "1"}]]
           /\ wanted' \in [theme : Themes, folds : [Plugins -> BOOLEAN]]
           /\ Remembered'
<1> DEFINE other == Opposite(theme)
<1>1. other \in Themes
    BY DEF Opposite, Themes
<1> HIDE DEF other
<1>2. /\ theme' = other
      /\ local' = IF local.blocked THEN local ELSE [local EXCEPT !.theme = other]
      /\ wanted' = [wanted EXCEPT !.theme = other]
    BY DEF ToggleTheme, other
<1>3. /\ local \in [blocked : BOOLEAN, theme : Themes \union {Nothing},
                    folds : [Plugins -> {Nothing, "0", "1"}]]
      /\ wanted \in [theme : Themes, folds : [Plugins -> BOOLEAN]]
    BY DEF IInv, Kinds
<1>4. /\ local' \in [blocked : BOOLEAN, theme : Themes \union {Nothing},
                     folds : [Plugins -> {Nothing, "0", "1"}]]
      /\ wanted' \in [theme : Themes, folds : [Plugins -> BOOLEAN]]
    BY <1>1, <1>2, <1>3
<1>5. ASSUME ~local'.blocked
      PROVE  /\ \A p \in Plugins : (local'.folds[p] = "1") = wanted'.folds[p]
             /\ ThemeAtLoad' = wanted'.theme
             /\ theme' = wanted'.theme
             /\ FoldsShown'
    <2>1. ~local.blocked
        BY <1>2, <1>5
    <2>2. /\ local'.folds = local.folds /\ local'.theme = other
          /\ wanted'.folds = wanted.folds /\ wanted'.theme = other
        BY <1>2, <1>3, <2>1
    <2> QED BY <1>1, <1>2, <2>1, <2>2 DEF IInv, Remembered, FoldsShown, ThemeAtLoad
<1> QED BY <1>1, <1>2, <1>4, <1>5 DEF Remembered

LEMMA ToggleOverviewThemeKeeps ==
    ASSUME IInv, ToggleOverviewTheme
    PROVE  IInv'
<1>1. /\ page = "overview"
      /\ IF asked = Nothing THEN UNCHANGED <<asked, histories>>
         ELSE LoadChartFor(asked.key, answer)
      /\ UNCHANGED <<clock, page, range, answer, linkRange, m, highlighted, expanded,
                     overviews>>
    BY DEF ToggleOverviewTheme
<1>2. /\ theme' \in Themes
      /\ local' \in [blocked : BOOLEAN, theme : Themes \union {Nothing},
                     folds : [Plugins -> {Nothing, "0", "1"}]]
      /\ wanted' \in [theme : Themes, folds : [Plugins -> BOOLEAN]]
      /\ Remembered'
    BY ToggleThemeKeeps DEF ToggleOverviewTheme
<1>3. \/ UNCHANGED <<asked, histories>>
      \/ /\ asked # Nothing
         /\ asked' \in Request
         /\ asked'.key = asked.key
         /\ histories' = histories \union {asked'}
         /\ \A h \in histories : h.id # asked'.id
    BY <1>1, Loads DEF IInv, Kinds
<1>4. /\ asked' \in Request \union {Nothing}
      /\ histories' \subseteq Request /\ IsFiniteSet(histories')
      /\ LastAsked'
    BY <1>1, <1>3, SentRequest, LastAskedStays DEF IInv, Kinds
<1>5. acts' \in Nat
    BY DEF IInv, Kinds, ToggleOverviewTheme, ByUser, Unforced
<1>6. Kinds'
    BY <1>1, <1>2, <1>4, <1>5 DEF IInv, Kinds
<1>7. SelectionShown'
    <2>1. SelectedOf(answer)' = SelectedOf(answer)
        BY <1>1 DEF SelectedOf
    <2>2. asked # Nothing => asked' # Nothing /\ asked'.key = asked.key
        BY <1>3
    <2> QED BY <1>1, <2>1, <2>2 DEF IInv, SelectionShown
<1> QED BY <1>2, <1>4, <1>6, <1>7 DEF IInv

LEMMA HistoryArrivesKeeps ==
    ASSUME IInv, NEW h \in histories, HistoryArrives(h), UNCHANGED overviewVars
    PROVE  IInv'
<1>1. histories' \subseteq Request /\ IsFiniteSet(histories') /\ LastAsked'
    BY AnsweredRequest DEF IInv, HistoryArrives, overviewVars
<1>2. acts' \in Nat
    BY DEF IInv, Kinds, HistoryArrives, Failing, Unforced
<1>3. Kinds'
    BY <1>1, <1>2 DEF IInv, Kinds, HistoryArrives, overviewVars
<1> QED
    BY <1>1, <1>3, SelectionStays, RememberedStays
    DEF IInv, HistoryArrives, overviewVars

LEMMA ToggleDetailThemeKeeps ==
    ASSUME IInv, ToggleDetailTheme, UNCHANGED overviewVars
    PROVE  IInv'
<1> DEFINE id == FreshId(0)
           h  == HistoryOf(id, detail.key, PageAnswer(range))
<1>1. /\ page = "detail" /\ page' = page
      /\ Cardinality(histories) < MaxPending
      /\ histories' = histories \union {h}
      /\ acts' = acts + 1
      /\ UNCHANGED <<clock, range, detail>>
      /\ UNCHANGED <<answer, linkRange, m, highlighted, asked, expanded, overviews>>
    BY DEF ToggleDetailTheme, ByUser, Unforced, overviewVars
<1>2. id \in 0..MaxPending
    BY <1>1, FreshIdIsFresh DEF IInv, Kinds
<1>3. h \in Request
    <2>1. ServerNow \in 0..MaxClock
        BY ServerNowKind DEF IInv
    <2>2. detail.key \in Keys /\ detail.at \in 0..MaxClock /\ range \in Ranges
        BY <1>1 DEF IInv, Kinds
    <2>3. PageAnswer(range) \in Answer
        BY <2>2 DEF PageAnswer, AnsweredAt, Answer
    <2> HIDE DEF id
    <2> QED BY <1>2, <2>1, <2>2, <2>3 DEF HistoryOf, Request
<1>4. histories' \subseteq Request /\ IsFiniteSet(histories')
    <2> HIDE DEF h
    <2> QED BY <1>1, <1>3, FS_AddElement DEF IInv, Kinds
<1>5. /\ theme' \in Themes
      /\ local' \in [blocked : BOOLEAN, theme : Themes \union {Nothing},
                     folds : [Plugins -> {Nothing, "0", "1"}]]
      /\ wanted' \in [theme : Themes, folds : [Plugins -> BOOLEAN]]
      /\ Remembered'
    BY <1>1, ToggleThemeKeeps DEF ToggleDetailTheme
<1> HIDE DEF id, h
<1>6. Kinds'
    BY <1>1, <1>4, <1>5 DEF IInv, Kinds
<1>7. LastAsked'
    BY <1>1 DEF LastAsked
<1> QED BY <1>1, <1>5, <1>6, <1>7, SelectionStays DEF IInv

-----------------------------------------------------------------------------
\* Page loads.

LEMMA RangeOfPageKind ==
    ASSUME NEW r \in Ranges
    PROVE  RangeOfPage(r) \in Ranges
    BY DEF RangeOfPage

LEMMA OverviewLoadedKeeps ==
    ASSUME IInv, NEW r \in Ranges, NEW key, LoadPage("overview", r),
           OverviewLoaded(r, key), histories' = {}, acts' = acts + 1,
           UNCHANGED <<clock, local, wanted>>
    PROVE  IInv'
<1>1. ThemeAtLoad \in Themes
    BY DEF ThemeAtLoad, Themes
<1>2. Kinds'
    BY <1>1, ServerNowKind, FS_EmptySet
    DEF IInv, Kinds, LoadPage, OverviewLoaded
<1>3. LastAsked'
    BY DEF LastAsked, OverviewLoaded
<1>4. SelectionShown' /\ Remembered'
    BY EmptyPageKeeps DEF IInv, LoadPage, OverviewLoaded
<1> QED BY <1>2, <1>3, <1>4 DEF IInv

\* A page of a metric: an overview that was left is empty.
LEMMA DetailLoadedKeeps ==
    ASSUME IInv, NEW r \in Ranges, NEW key \in Keys, DetailLoaded(key, r),
           answer' = Nothing, asked' = Nothing, linkRange' \in Ranges,
           overviews' \in {overviews, {}}, acts' = acts + 1,
           UNCHANGED <<clock, local, wanted>>
    PROVE  IInv'
<1> DEFINE h == LoadOf(key, RangeOfPage(r), ServerNow)
<1>1. ThemeAtLoad \in Themes
    BY DEF ThemeAtLoad, Themes
<1>2. ServerNow \in 0..MaxClock /\ RangeOfPage(r) \in Ranges
    BY ServerNowKind, RangeOfPageKind DEF IInv
<1>3. h \in Request
    BY <1>2 DEF LoadOf, AnsweredAt, Request, Answer
<1>4. histories' = {h}
    BY DEF DetailLoaded
<1>5. histories' \subseteq Request /\ IsFiniteSet(histories')
    <2> HIDE DEF h
    <2> QED BY <1>3, <1>4, FS_Singleton
<1> HIDE DEF h
<1>6. Kinds'
    BY <1>1, <1>2, <1>5 DEF IInv, Kinds, DetailLoaded, LoadPage
<1>7. LastAsked'
    BY DEF LastAsked, DetailLoaded, LoadPage
<1>8. SelectionShown' /\ Remembered'
    BY EmptyPageKeeps DEF IInv, DetailLoaded, LoadPage
<1> QED BY <1>6, <1>7, <1>8 DEF IInv

LEMMA ReloadOverviewKeeps ==
    ASSUME IInv, ReloadOverview
    PROVE  IInv'
<1>1. RangeOfPage(range) \in Ranges
    BY RangeOfPageKind DEF IInv, Kinds
<1> QED BY <1>1, OverviewLoadedKeeps DEF ReloadOverview, ByUser, Unforced

LEMMA BackToOverviewKeeps ==
    ASSUME IInv, BackToOverview
    PROVE  IInv'
<1>1. RangeOfPage(range) \in Ranges
    BY RangeOfPageKind DEF IInv, Kinds
<1> QED BY <1>1, OverviewLoadedKeeps DEF BackToOverview, ByUser, Unforced

LEMMA OpenDetailKeeps ==
    ASSUME IInv, NEW k \in Keys, OpenDetail(k)
    PROVE  IInv'
<1>1. linkRange \in Ranges
    BY DEF IInv, Kinds
<1> QED
    BY <1>1, DetailLoadedKeeps DEF OpenDetail, OverviewLeft, ByUser, Unforced

LEMMA ReloadDetailKeeps ==
    ASSUME IInv, NEW r \in Ranges, ReloadDetail(r)
    PROVE  IInv'
<1>1. /\ page = "detail"
      /\ detail.key \in Keys /\ answer = Nothing /\ asked = Nothing
      /\ linkRange \in Ranges
    BY DEF IInv, Kinds, ReloadDetail
<1> QED
    BY <1>1, DetailLoadedKeeps DEF ReloadDetail, overviewVars, ByUser, Unforced

LEMMA StepIInv ==
    ASSUME IInv, [Next]_vars
    PROVE  IInv'
<1>1. CASE Tick
    BY <1>1, TickKeeps
<1>2. CASE OnOverview /\ UNCHANGED detailVars
    <2>1. ASSUME NEW req \in overviews, OverviewArrives(req) PROVE IInv'
        BY <2>1, OverviewArrivesKeeps
    <2>2. ASSUME NEW h \in histories, ChartArrives(h) PROVE IInv'
        BY <2>2, ChartArrivesKeeps
    <2>3. CASE Refresh
        BY <2>3, RefreshKeeps
    <2>4. ASSUME NEW r \in Ranges, SetRange(r) PROVE IInv'
        BY <2>4, SetRangeKeeps
    <2>5. ASSUME NEW e \in Elements(answer, expanded), Select(e) \/ MoveFocus(e)
          PROVE  IInv'
        BY <2>5, SelectKeeps, MoveFocusKeeps
    <2>6. ASSUME NEW p \in Plugins, ToggleFold(p) PROVE IInv'
        BY <2>6, ToggleFoldKeeps
    <2>7. CASE ToggleOverviewTheme
        BY <2>7, ToggleOverviewThemeKeeps
    <2> QED
        BY <1>2, <2>1, <2>2, <2>3, <2>4, <2>5, <2>6, <2>7 DEF OnOverview
<1>3. CASE ChangeVisibility /\ UNCHANGED detailVars
    BY <1>3, ChangeVisibilityKeeps
<1>4. CASE OnDetail /\ UNCHANGED overviewVars
    <2>1. ASSUME NEW h \in histories, HistoryArrives(h) PROVE IInv'
        BY <1>4, <2>1, HistoryArrivesKeeps
    <2>2. CASE ToggleDetailTheme
        BY <1>4, <2>2, ToggleDetailThemeKeeps
    <2> QED BY <1>4, <2>1, <2>2 DEF OnDetail
<1>5. CASE ReloadOverview
    BY <1>5, ReloadOverviewKeeps
<1>6. CASE \E k \in Keys : OpenDetail(k)
    BY <1>6, OpenDetailKeeps
<1>7. CASE \E r \in Ranges : ReloadDetail(r)
    BY <1>7, ReloadDetailKeeps
<1>8. CASE BackToOverview
    BY <1>8, BackToOverviewKeeps
<1>9. CASE UNCHANGED vars
    <2>1. Kinds'
        BY <1>9 DEF IInv, Kinds, vars, tabVars, overviewVars, detailVars
    <2> QED
        BY <1>9, <2>1, LastAskedStays, SelectionStays, RememberedStays
        DEF IInv, vars, tabVars, overviewVars
<1> QED BY <1>1, <1>2, <1>3, <1>4, <1>5, <1>6, <1>7, <1>8, <1>9 DEF Next

\* What the page holds, what it asked for and what the browser stores agree in
\* every reachable state of the two pages' scripts.
THEOREM InvariantHolds == Spec => []IInv
<1>1. Init => IInv
    BY InitIInv
<1>2. IInv /\ [Next]_vars => IInv'
    BY StepIInv
<1> QED BY <1>1, <1>2, PTL DEF Spec

-----------------------------------------------------------------------------
\* The selection that the page marks is the one that its next chart, click and
\* reload go by, and what the user chose is what the page shows, after any
\* number of refreshes, reloads and visits of detail pages (dashboard.js,
\* common.js and the script in base.html).
THEOREM ChoicesKept == Spec => []UserChoicesKept
<1>1. IInv => UserChoicesKept
    BY DEF IInv, Remembered, UserChoicesKept
<1> QED BY <1>1, InvariantHolds, PTL

\* The steps that draw on the overview are the answers to the last history
\* asked for; every other answer is dropped (loadChartFor in dashboard.js).
LEMMA DrawsTheLastAsked ==
    ASSUME IInv, [Next]_vars, page = "overview", drawn' # drawn, drawn' # Nothing
    PROVE  /\ asked # Nothing
           /\ <<drawn'.key, drawn'.range, drawn'.from>>
                 = <<asked.key, asked.range, asked.from>>
<1>1. PICK h \in histories : ChartArrives(h)
    <2>1. ~Tick /\ ~Refresh /\ ~ChangeVisibility /\ ~OnDetail
        BY DEF Tick, Refresh, ChangeVisibility, OnDetail, HistoryArrives,
               ToggleDetailTheme, tabVars
    <2>2. /\ \A req \in overviews : ~OverviewArrives(req)
          /\ \A r \in Ranges : ~SetRange(r)
          /\ \A e \in Elements(answer, expanded) : ~Select(e) /\ ~MoveFocus(e)
          /\ \A p \in Plugins : ~ToggleFold(p)
          /\ ~ToggleOverviewTheme
        BY DEF OverviewArrives, SetRange, Select, MoveFocus, ToggleFold,
               ToggleOverviewTheme
    <2>3. /\ ~ReloadOverview /\ ~BackToOverview
          /\ \A k \in Keys : ~OpenDetail(k)
          /\ \A r \in Ranges : ~ReloadDetail(r)
        BY DEF ReloadOverview, BackToOverview, OpenDetail, ReloadDetail,
               DetailLoaded, LoadPage
    <2>4. ~UNCHANGED vars
        BY DEF vars, tabVars
    <2> QED BY <2>1, <2>2, <2>3, <2>4 DEF Next, OnOverview
<1>2. PICK at \in h.since..ServerNow :
            drawn' = IF IsLast(h) THEN Rendered(h, at) ELSE drawn
    BY <1>1 DEF ChartArrives
<1>3. IsLast(h) /\ drawn' = Rendered(h, at)
    BY <1>2
<1>4. drawn'.key = h.key /\ drawn'.range = h.range /\ drawn'.from = h.from
    BY <1>3 DEF Rendered
<1>5. asked # Nothing
    BY DEF IInv, LastAsked
<1>6. h = asked
    BY <1>3, <1>5 DEF IInv, LastAsked, IsLast, ChartRequestId
<1> QED BY <1>4, <1>5, <1>6

\* Whatever order the answers arrive in, and however often the page was rebuilt
\* in between, the chart of the overview is that of the last selection: a slow
\* answer for an earlier one is never drawn over it.
THEOREM ChartIsOfSelection == Spec => ChartFollowsSelection
<1>1. IInv /\ [Next]_vars =>
        [(page = "overview" /\ drawn' # drawn /\ drawn' # Nothing) =>
            /\ asked # Nothing
            /\ <<drawn'.key, drawn'.range, drawn'.from>>
                  = <<asked.key, asked.range, asked.from>>]_vars
    BY DrawsTheLastAsked
<1> QED BY <1>1, InvariantHolds, PTL DEF Spec, ChartFollowsSelection

\* The selector that describes an element fits no other element of a page:
\* the tile and the row of a metric share their data attribute, not the class.
LEMMA SelectorIsUnique ==
    ASSUME NEW a \in Answer, NEW e \in Nodes(a), NEW f \in Nodes(a)
    PROVE  Matches(FocusedSelector(e), f) <=> f = e
<1>1. PICK kind \in {"tile", "row", "fold", "mover"} : \E of : e = Element(kind, of)
    BY PageParts
<1>2. PICK kind2 \in {"tile", "row", "fold", "mover"} : \E of : f = Element(kind2, of)
    BY PageParts
<1>3. e.kind = kind /\ f.kind = kind2 /\ (f = e <=> kind = kind2 /\ e.of = f.of)
    BY <1>1, <1>2 DEF Element
<1>4. Matches(FocusedSelector(e), f) <=>
          /\ ClassOf(kind) # Nothing => ClassOf(kind2) = ClassOf(kind)
          /\ DataOf(kind2) = DataOf(kind)
          /\ f.of = e.of
    BY <1>3 DEF Matches, FocusedSelector
<1>5. ASSUME ClassOf(kind) # Nothing => ClassOf(kind2) = ClassOf(kind),
             DataOf(kind2) = DataOf(kind)
      PROVE  kind = kind2
    <2>1. CASE kind = "mover"
        <3>1. DataOf(kind2) = "mover"
            BY <1>5, <2>1 DEF DataOf
        <3> QED BY <2>1, <3>1 DEF DataOf
    <2>2. CASE kind = "fold"
        <3>1. DataOf(kind2) = "fold"
            BY <1>5, <2>2 DEF DataOf
        <3> QED BY <2>2, <3>1 DEF DataOf
    <2>3. CASE kind \in {"tile", "row"}
        <3>1. DataOf(kind2) = "key"
            BY <1>5, <2>3 DEF DataOf
        <3>2. kind2 \in {"tile", "row"}
            BY <3>1 DEF DataOf
        <3>3. ClassOf("tile") = "tile" /\ ClassOf("row") = "watchlist-row"
            BY DEF ClassOf
        <3>4. ClassOf("tile") # Nothing /\ ClassOf("row") # Nothing
            BY ClassAssumption
        <3> QED BY <1>5, <2>3, <3>2, <3>3, <3>4
    <2> QED BY <2>1, <2>2, <2>3
<1> QED BY <1>3, <1>4, <1>5

\* An element that a rebuilt page still shows is what its selector finds there.
LEMMA RefocusedIsSame ==
    ASSUME NEW a \in Answer, NEW open, NEW e \in Elements(a, open)
    PROVE  Refocused(e, a, open) = e
<1> DEFINE found == {f \in Nodes(a) : Matches(FocusedSelector(e), f)}
<1>1. e \in Nodes(a)
    BY DEF Elements
<1>2. found = {e}
    BY <1>1, SelectorIsUnique
<1>3. QuerySelector(FocusedSelector(e), Nodes(a)) =
          CHOOSE f \in found : \A g \in found : Place(f.kind) <= Place(g.kind)
    BY <1>2 DEF QuerySelector
<1>4. Place(e.kind) <= Place(e.kind)
    <2>1. e.kind \in {"tile", "row", "fold", "mover"}
        BY <1>1, PageParts DEF Element
    <2> QED BY <2>1 DEF Place
<1>5. QuerySelector(FocusedSelector(e), Nodes(a)) = e
    <2> HIDE DEF found
    <2> QED BY <1>2, <1>3, <1>4
<1> QED BY <1>5 DEF Refocused

\* What is not the user's doing moves the focus only off an element that the
\* rebuilt page no longer has (focusedSelector in dashboard.js).
LEMMA RebuildKeepsFocus ==
    ASSUME Kinds, [Next]_vars, page = "overview", acts' = acts, focus' # focus
    PROVE  focus \notin Elements(answer', expanded')
<1>1. ~Unforced
    BY DEF Kinds, Unforced
<1>2. PICK req \in overviews : OverviewArrives(req)
    <2>1. ~Tick /\ ~Refresh /\ ~ChangeVisibility /\ ~OnDetail
        BY <1>1 DEF Tick, Refresh, ChangeVisibility, ByUser, OnDetail,
                    HistoryArrives, ToggleDetailTheme, overviewVars
    <2>2. /\ \A h \in histories : ~ChartArrives(h)
          /\ \A r \in Ranges : ~SetRange(r)
          /\ \A e \in Elements(answer, expanded) : ~Select(e) /\ ~MoveFocus(e)
          /\ \A p \in Plugins : ~ToggleFold(p)
          /\ ~ToggleOverviewTheme
        BY <1>1 DEF ChartArrives, SetRange, Select, MoveFocus, ToggleFold,
                    ToggleOverviewTheme, ByUser, overviewVars
    <2>3. /\ ~ReloadOverview /\ ~BackToOverview
          /\ \A k \in Keys : ~OpenDetail(k)
          /\ \A r \in Ranges : ~ReloadDetail(r)
        BY <1>1 DEF ReloadOverview, BackToOverview, OpenDetail, ReloadDetail, ByUser
    <2>4. ~UNCHANGED vars
        BY DEF vars, overviewVars
    <2> QED BY <2>1, <2>2, <2>3, <2>4 DEF Next, OnOverview
<1>3. PICK a \in Answer : Arrives(a)
    BY <1>1, <1>2, AnswerKind DEF Failing
<1>4. focus' = Refocused(focus, a, expanded') /\ answer' = a
    BY <1>3 DEF Arrives
<1>5. focus \in Elements(a, expanded') => Refocused(focus, a, expanded') = focus
    BY RefocusedIsSame
<1> QED BY <1>4, <1>5

\* A refresh that rebuilds the page leaves the keyboard focus on the element it
\* was on, unless the new page has it no longer (focusedSelector in dashboard.js).
THEOREM FocusStays == Spec => FocusKept
<1>1. IInv /\ [Next]_vars =>
        [(page = "overview" /\ acts' = acts /\ focus' # focus) =>
            focus \notin Elements(answer', expanded')]_vars
    BY RebuildKeepsFocus DEF IInv
<1> QED BY <1>1, InvariantHolds, PTL DEF Spec, FocusKept

-----------------------------------------------------------------------------
\* What the server answers: sequences that it filters

\* The elements kept are those at the indexes, in the order of the indexes.
LEMMA KeptFacts ==
    ASSUME NEW T, NEW s \in Seq(T), NEW K \in SUBSET DOMAIN s
    PROVE  /\ Kept(s, K) \in Seq(T)
           /\ Len(Kept(s, K)) \in Nat /\ (Len(Kept(s, K)) = 0 <=> K = {})
           /\ \A n \in 1..Len(Kept(s, K)) : \E i \in K : Rank(K, i) = n /\ Kept(s, K)[n] = s[i]
           /\ \A i \in K : /\ Rank(K, i) \in 1..Len(Kept(s, K))
                           /\ Kept(s, K)[Rank(K, i)] = s[i]
<1>1. Len(s) \in Nat /\ DOMAIN s = 1..Len(s) /\ \A i \in 1..Len(s) : s[i] \in T
    OBVIOUS
<1>2. K \in SUBSET Nat /\ IsFiniteSet(K)
    <2>1. IsFiniteSet(1..Len(s))
        BY <1>1, FS_Interval
    <2> QED BY <1>1, <2>1, FS_Subset
<1>3. /\ Cardinality(K) \in Nat
      /\ \A i \in K : Rank(K, i) \in 1..Cardinality(K)
      /\ \A i, j \in K : i < j => Rank(K, i) < Rank(K, j)
      /\ \A n \in 1..Cardinality(K) : \E i \in K : Rank(K, i) = n
    BY <1>2, RankFacts
<1>4. \A i, j \in K : Rank(K, i) = Rank(K, j) => i = j
    <2> SUFFICES ASSUME NEW i \in K, NEW j \in K, Rank(K, i) = Rank(K, j)
                 PROVE  i = j
        OBVIOUS
    <2>1. i \in Nat /\ j \in Nat /\ Rank(K, i) \in Nat /\ Rank(K, j) \in Nat
        BY <1>2, <1>3
    <2>2. ~(i < j) /\ ~(j < i)
        BY <1>3, <2>1
    <2> QED BY <2>1, <2>2
<1>5. Kept(s, K) = [n \in 1..Cardinality(K) |-> s[CHOOSE i \in K : Rank(K, i) = n]]
    BY DEF Kept, Rank
<1>6. ASSUME NEW i \in K
      PROVE  Kept(s, K)[Rank(K, i)] = s[i]
    <2>1. (CHOOSE j \in K : Rank(K, j) = Rank(K, i)) = i
        BY <1>4
    <2> QED BY <1>3, <1>5, <2>1
<1>7. \A n \in 1..Cardinality(K) : \E i \in K : Rank(K, i) = n /\ Kept(s, K)[n] = s[i]
    BY <1>3, <1>6
<1>8. Kept(s, K) \in Seq(T) /\ Len(Kept(s, K)) = Cardinality(K)
    <2>1. \A n \in 1..Cardinality(K) : Kept(s, K)[n] \in T
        BY <1>1, <1>7
    <2>2. Kept(s, K) \in [1..Cardinality(K) -> T]
        BY <1>5, <2>1
    <2> QED BY <1>3, <2>2
<1>9. Cardinality(K) = 0 <=> K = {}
    BY <1>2, FS_EmptySet
<1> QED BY <1>3, <1>6, <1>7, <1>8, <1>9

\* A filter keeps the elements that pass, and the last one if that passes.
LEMMA KeptLast ==
    ASSUME NEW T, NEW s \in Seq(T), NEW K \in SUBSET DOMAIN s, Len(s) \in K
    PROVE  Kept(s, K) # <<>> /\ Last(Kept(s, K)) = s[Len(s)]
<1>1. Len(s) \in Nat /\ DOMAIN s = 1..Len(s)
    OBVIOUS
<1>2. {j \in K : j <= Len(s)} = K
    BY <1>1
<1>3. Rank(K, Len(s)) = Cardinality(K)
    BY <1>2 DEF Rank
<1>4. /\ Kept(s, K) \in Seq(T) /\ Len(Kept(s, K)) \in Nat /\ Len(Kept(s, K)) # 0
      /\ Kept(s, K)[Rank(K, Len(s))] = s[Len(s)]
    BY KeptFacts
<1>5. Len(Kept(s, K)) = Cardinality(K)
    <2>1. Kept(s, K) = [n \in 1..Cardinality(K) |-> s[CHOOSE i \in K : Rank(K, i) = n]]
        BY DEF Kept, Rank
    <2>2. Cardinality(K) \in Nat
        <3>1. IsFiniteSet(1..Len(s))
            BY <1>1, FS_Interval
        <3> QED BY <1>1, <3>1, FS_Subset, FS_CardinalityType
    <2>3. Kept(s, K) \in [1..Cardinality(K) -> {Kept(s, K)[n] : n \in 1..Cardinality(K)}]
        BY <2>1
    <2> QED BY <2>2, <2>3
<1>6. Kept(s, K) # <<>>
    BY <1>4
<1> QED BY <1>3, <1>4, <1>5, <1>6 DEF Last

\* storage.history of a metric: points in time, none of before the epoch.
LEMMA PointsAreServed ==
    ASSUME NEW k \in Keys, NEW r \in Ranges, NEW t \in 0..MaxClock
    PROVE  Histories[k][r][t] \in Points
<1> DEFINE all   == Samples[k]
           start == RangeStart(r, t, 0)
           early == {i \in DOMAIN all : all[i].ts <= start}
           later == {i \in DOMAIN all : all[i].ts > start /\ all[i].ts <= t}
<1>1. all \in Points /\ all \in Seq(Point)
    BY ScriptAssumption DEF Points, Point
<1>2. start \in Int
    BY ScriptAssumption DEF RangeStart
<1> HIDE DEF start, all
<1>3. Kept(all, later) \in Seq(Point)
    BY <1>1, KeptFacts
<1>4. Kept(all, early) \in Seq(Point) /\ (Kept(all, early) = <<>> <=> early = {})
    <2>1. Kept(all, early) \in Seq(Point) /\ (Len(Kept(all, early)) = 0 <=> early = {})
        BY <1>1, KeptFacts
    <2> QED BY <2>1, EmptySeq, LenProperties
<1>5. Histories[k][r][t] =
        (IF Kept(all, early) = <<>> THEN <<>>
         ELSE <<[ts |-> start, value |-> Last(Kept(all, early)).value]>>)
        \o Kept(all, later)
    <2>1. Histories[k][r][t] = History(k, start, t)
        BY DEF Histories, PointsServed, start
    <2> QED BY <2>1 DEF History, Between, Filter, all
<1>6. CASE early = {}
    BY <1>3, <1>4, <1>5, <1>6 DEF Points
<1>7. CASE early # {}
    <2>1. PICK i \in DOMAIN all : all[i].ts <= start
        BY <1>7
    <2>2. all[i].ts \in Nat
        <3>1. all[i] \in Point
            BY <1>1, <2>1
        <3> QED BY <3>1 DEF Point
    <2>3. start \in Nat
        BY <1>2, <2>1, <2>2
    <2>4. Last(Kept(all, early)).value \in Int
        BY <1>4, <1>7, PointFacts DEF Points, Point
    <2>5. [ts |-> start, value |-> Last(Kept(all, early)).value] \in Point
        BY <2>3, <2>4 DEF Point
    <2>6. <<[ts |-> start, value |-> Last(Kept(all, early)).value]>> \in Seq(Point)
        BY <2>5
    <2> QED BY <1>3, <1>4, <1>5, <1>7, <2>6 DEF Points
<1> QED BY <1>6, <1>7

\* The catalogue's active metrics have been sampled.
LEMMA ActiveKeys ==
    ASSUME NEW t \in Int
    PROVE  /\ Active(t) \in Seq(Keys)
           /\ \A i \in 1..Len(Active(t)) : Stored(Active(t)[i], t) # <<>>
<1> DEFINE kept == {i \in DOMAIN Catalogue : Stored(Catalogue[i], t) # <<>> /\ t < RetiredAt[Catalogue[i]]}
<1>1. Catalogue \in Seq(Keys)
    BY ScriptAssumption
<1>2. Active(t) = Kept(Catalogue, kept)
    BY DEF Active, Filter
<1>3. kept \in SUBSET DOMAIN Catalogue /\ \A i \in kept : Stored(Catalogue[i], t) # <<>>
    OBVIOUS
<1> HIDE DEF kept
<1>4. Kept(Catalogue, kept) \in Seq(Keys)
    BY <1>1, <1>3, KeptFacts
<1>5. \A n \in 1..Len(Kept(Catalogue, kept)) :
          \E i \in kept : Kept(Catalogue, kept)[n] = Catalogue[i]
    BY <1>1, <1>3, KeptFacts
<1> QED BY <1>2, <1>3, <1>4, <1>5

\* The pins are keys, whether they are configured or the first cumulative ones.
LEMMA PinnedKeys ==
    ASSUME NEW t \in Int
    PROVE  Pinned(t) # <<>> => Head(Pinned(t)) \in Keys
<1> DEFINE K == {i \in DOMAIN Configured : Contains(Active(t), Configured[i])}
           C == {i \in DOMAIN Active(t) : Active(t)[i] \in Cumulative}
           known  == Kept(Configured, K)
           counts == Kept(Active(t), C)
           n == Min({Len(counts), DefaultPinned})
<1>1. Active(t) \in Seq(Keys)
    BY ActiveKeys
<1>2. /\ known \in Seq(ToSet(Configured))
      /\ \A i \in 1..Len(known) : \E j \in K : known[i] = Configured[j]
    <2>1. Configured \in Seq(ToSet(Configured)) /\ K \in SUBSET DOMAIN Configured
        BY ScriptAssumption
    <2> HIDE DEF K
    <2> QED BY <2>1, KeptFacts
<1>3. counts \in Seq(Keys)
    BY <1>1, KeptFacts
<1>4. Pinned(t) = IF known # <<>> THEN known ELSE SubSeq(counts, 1, n)
    BY DEF Pinned, Filter
<1>5. \A j \in K : Configured[j] \in Keys
    BY <1>1 DEF Contains
<1> HIDE DEF known, counts, n, K
<1>6. CASE known # <<>>
    <2>1. Head(known) = known[1] /\ 1 \in 1..Len(known)
        BY <1>2, <1>6
    <2> QED BY <1>2, <1>4, <1>5, <1>6, <2>1
<1>7. CASE known = <<>>
    <2>1. n \in Nat /\ n <= Len(counts)
        <3>1. Len(counts) \in Nat
            BY <1>3
        <3> QED BY <3>1, ScriptAssumption, LesserOfTwo DEF n
    <2>2. SubSeq(counts, 1, n) \in Seq(Keys)
        BY <1>3, <2>1
    <2> QED BY <1>4, <1>7, <2>2
<1> QED BY <1>6, <1>7

\* The metrics of an overview are active ones.
LEMMA ServedKeys ==
    ASSUME NEW r \in Ranges, NEW t \in Int, NEW rows \in Int, NEW polls \in Int
    PROVE  \A x \in ToSet(MetricsServed(r, t, rows, polls)) :
               \E k \in Keys : x = Metric(k, r, t, rows, polls) /\ Stored(k, rows) # <<>>
<1>1. /\ Active(rows) \in Seq(Keys)
      /\ \A i \in 1..Len(Active(rows)) : Stored(Active(rows)[i], rows) # <<>>
    BY ActiveKeys
<1>2. MetricsServed(r, t, rows, polls) =
          [i \in DOMAIN Active(rows) |-> Metric(Active(rows)[i], r, t, rows, polls)]
    BY DEF MetricsServed
<1>3. /\ DOMAIN Active(rows) = 1..Len(Active(rows))
      /\ \A i \in 1..Len(Active(rows)) : Active(rows)[i] \in Keys
    BY <1>1
<1> QED BY <1>1, <1>2, <1>3 DEF ToSet

\* What a page is built from is the answer of its range and its seconds.
LEMMA PageOfAnswer ==
    ASSUME NEW a \in Answer
    PROVE  /\ MetricsOf(a) = MetricsServed(a.range, a.at, a.rows, a.polls)
           /\ PinnedOf(a) = Pinned(a.rows)
           /\ KeysOf(a) = KeysIn(MetricsServed(a.range, a.at, a.rows, a.polls))
           /\ a.range \in Ranges
           /\ a.at \in 0..MaxClock /\ a.rows \in 0..MaxClock /\ a.polls \in 0..MaxClock
           /\ a.at \in Int /\ a.rows \in Int /\ a.polls \in Int
<1>1. /\ a # Nothing /\ a.range \in Ranges
      /\ a.at \in 0..MaxClock /\ a.rows \in 0..MaxClock /\ a.polls \in 0..MaxClock
      /\ a.at \in Int /\ a.rows \in Int /\ a.polls \in Int
    BY DEF Answer
<1>2. Page(a) = Built(Overviews[a.range][a.at][a.rows][a.polls])
    BY <1>1 DEF Page, Pages
<1>3. Overviews[a.range][a.at][a.rows][a.polls] =
          [metrics |-> MetricsServed(a.range, a.at, a.rows, a.polls), pinned |-> Pinned(a.rows)]
    BY <1>1 DEF Overviews
<1> QED BY <1>1, <1>2, <1>3 DEF Built, MetricsOf, PinnedOf, KeysOf

-----------------------------------------------------------------------------
\* The types of all variables

LEMMA Moves ==
    ASSUME [Next]_vars
    PROVE  \/ Tick \/ ReloadOverview \/ BackToOverview
           \/ (ChangeVisibility \/ Refresh \/ ToggleOverviewTheme) /\ UNCHANGED detailVars
           \/ \E req \in overviews : OverviewArrives(req) /\ UNCHANGED detailVars
           \/ \E h \in histories : ChartArrives(h) /\ UNCHANGED detailVars
           \/ \E h \in histories : HistoryArrives(h) /\ UNCHANGED overviewVars
           \/ ToggleDetailTheme /\ UNCHANGED overviewVars
           \/ \E r \in Ranges : SetRange(r) /\ UNCHANGED detailVars
           \/ \E e \in Elements(answer, expanded) :
                 (Select(e) \/ MoveFocus(e)) /\ UNCHANGED detailVars
           \/ \E p \in Plugins : ToggleFold(p) /\ UNCHANGED detailVars
           \/ \E k \in Keys : OpenDetail(k)
           \/ \E r \in Ranges : ReloadDetail(r)
           \/ UNCHANGED vars
    BY DEF Next, OnOverview, OnDetail

\* A chart that is drawn has points.
DrawnInv ==
    drawn # Nothing => drawn \in Drawing /\ Histories[drawn.key][drawn.range][drawn.at] # <<>>

\* There is room for the requests in flight, and for what nobody makes happen.
RoomInv ==
    /\ Cardinality(histories) <= MaxPending
    /\ acts \in 0..MaxActs /\ demo \in BOOLEAN /\ visible \in BOOLEAN

\* What is marked, unfolded or focused is on the page.
MarkInv ==
    /\ {m, highlighted} \subseteq Keys \union {Nothing}
    /\ expanded \subseteq Plugins
    /\ focus \in Elements(answer, expanded) \union {Nothing}

TypesInv == Kinds /\ DrawnInv /\ RoomInv /\ MarkInv /\ DetailTypeOK

LEMMA RenderedKind ==
    ASSUME Kinds, NEW h \in histories, NEW at \in h.since..ServerNow
    PROVE  LET new == Rendered(h, at)
           IN  new # Nothing => new \in Drawing /\ Histories[new.key][new.range][new.at] # <<>>
<1>1. h \in Request /\ clock \in 0..MaxClock /\ theme \in Themes
    BY DEF Kinds
<1>2. at \in 0..MaxClock
    BY <1>1, ServerNowKind DEF Request
<1>3. h.key \in Keys /\ h.range \in Ranges /\ h.from \in Answer
    BY <1>1 DEF Request
<1> QED BY <1>1, <1>2, <1>3 DEF Rendered, Drawing

LEMMA StepDrawn ==
    ASSUME Kinds, DrawnInv, [Next]_vars
    PROVE  DrawnInv'
<1>1. ASSUME NEW h \in histories, ChartArrives(h)
      PROVE  DrawnInv'
    <2>1. \/ drawn' = drawn
          \/ \E at \in h.since..ServerNow : drawn' = Rendered(h, at)
        BY <1>1 DEF ChartArrives
    <2> QED BY <2>1, RenderedKind DEF DrawnInv
<1>2. ASSUME NEW h \in histories, HistoryArrives(h)
      PROVE  DrawnInv'
    <2>1. \/ drawn' = drawn
          \/ \E at \in h.since..ServerNow : drawn' = Rendered(h, at)
        BY <1>2 DEF HistoryArrives, RenderDetail
    <2> QED BY <2>1, RenderedKind DEF DrawnInv
<1>3. CASE drawn' \in {drawn, Nothing}
    BY <1>3 DEF DrawnInv
<1>4. \/ drawn' \in {drawn, Nothing}
      \/ \E h \in histories : ChartArrives(h) \/ HistoryArrives(h)
    BY Moves DEF Tick, ReloadOverview, BackToOverview, ChangeVisibility, Refresh,
                 ToggleOverviewTheme, OverviewArrives, ToggleDetailTheme, SetRange, Select,
                 MoveFocus, ToggleFold, OpenDetail, ReloadDetail, DetailLoaded, LoadPage,
                 vars, tabVars
<1> QED BY <1>1, <1>2, <1>3, <1>4

\* What the actions do to the requests in flight.
LEMMA HistoryMoves ==
    ASSUME [Next]_vars
    PROVE  \/ histories' \in {histories, {}} \/ \E h : histories' = {h}
           \/ \E h \in histories : histories' = histories \ {h}
           \/ Cardinality(histories) < MaxPending /\ \E h : histories' = histories \union {h}
<1>1. CASE Tick \/ ReloadOverview \/ BackToOverview \/ ChangeVisibility \/ Refresh
           \/ (\E r \in Ranges : SetRange(r)) \/ (\E p \in Plugins : ToggleFold(p))
           \/ (\E e \in Elements(answer, expanded) : MoveFocus(e)) \/ UNCHANGED vars
    BY <1>1 DEF Tick, ReloadOverview, BackToOverview, ChangeVisibility, Refresh, SetRange,
                ToggleFold, MoveFocus, vars, tabVars
<1>2. CASE \E h \in histories : ChartArrives(h) \/ HistoryArrives(h)
    BY <1>2 DEF ChartArrives, HistoryArrives
<1>3. CASE (\E k \in Keys : OpenDetail(k)) \/ (\E r \in Ranges : ReloadDetail(r))
    BY <1>3 DEF OpenDetail, ReloadDetail, DetailLoaded
<1>4. CASE ToggleDetailTheme
    BY <1>4 DEF ToggleDetailTheme
<1>5. ASSUME NEW key, NEW a, LoadChartFor(key, a) \/ UNCHANGED <<asked, histories>>
      PROVE  \/ histories' = histories
             \/ Cardinality(histories) < MaxPending /\ \E h : histories' = histories \union {h}
    BY <1>5 DEF LoadChartFor
<1>6. CASE ToggleOverviewTheme \/ (\E e \in Elements(answer, expanded) : Select(e))
    BY <1>5, <1>6 DEF ToggleOverviewTheme, Select
<1>7. CASE \E req \in overviews : OverviewArrives(req)
    <2>1. PICK req \in overviews : OverviewArrives(req)
        BY <1>7
    <2>2. CASE \E a : Arrives(a)
        BY <1>5, <2>2 DEF Arrives
    <2>3. CASE histories' = histories
        BY <2>3
    <2> QED BY <2>1, <2>2, <2>3 DEF OverviewArrives
<1> QED BY <1>1, <1>2, <1>3, <1>4, <1>6, <1>7, Moves

LEMMA StepRoom ==
    ASSUME Kinds, RoomInv, [Next]_vars
    PROVE  RoomInv'
<1>1. IsFiniteSet(histories) /\ Cardinality(histories) \in Nat
      /\ Cardinality(histories) <= MaxPending /\ MaxPending \in Nat \ {0}
    BY FS_CardinalityType DEF Kinds, RoomInv
<1>2. Cardinality(histories') <= MaxPending
    <2>1. CASE histories' \in {histories, {}}
        BY <1>1, <2>1, FS_EmptySet
    <2>2. ASSUME NEW h, histories' = {h}
          PROVE  Cardinality(histories') <= MaxPending
        <3>1. Cardinality({h}) = 1
            BY FS_Singleton
        <3> QED BY <1>1, <2>2, <3>1
    <2>3. ASSUME NEW h \in histories, histories' = histories \ {h}
          PROVE  Cardinality(histories') <= MaxPending
        <3>1. /\ IsFiniteSet(histories \ {h})
              /\ Cardinality(histories \ {h}) = Cardinality(histories) - 1
            BY <1>1, <2>3, FS_RemoveElement
        <3> QED BY <1>1, <2>3, <3>1
    <2>4. ASSUME NEW h, histories' = histories \union {h}, Cardinality(histories) < MaxPending
          PROVE  Cardinality(histories') <= MaxPending
        <3>1. CASE h \in histories
            <4>1. histories' = histories
                BY <2>4, <3>1
            <4> QED BY <1>1, <4>1
        <3>2. CASE h \notin histories
            <4>1. Cardinality(histories \union {h}) = Cardinality(histories) + 1
                BY <1>1, <3>2, FS_AddElement
            <4> QED BY <1>1, <2>4, <4>1
        <3> QED BY <3>1, <3>2
    <2> QED BY <2>1, <2>2, <2>3, <2>4, HistoryMoves
<1>3. acts' = acts \/ Unforced
    BY Moves DEF Tick, ReloadOverview, BackToOverview, ChangeVisibility, Refresh,
                 ToggleOverviewTheme, OverviewArrives, ToggleDetailTheme, SetRange, Select,
                 MoveFocus, ToggleFold, OpenDetail, ReloadDetail, ChartArrives, HistoryArrives,
                 ByUser, Failing, vars, tabVars
<1>4. acts' \in 0..MaxActs
    BY <1>3 DEF RoomInv, Unforced
<1>5. demo' = demo
    BY Moves DEF Tick, ReloadOverview, BackToOverview, ChangeVisibility, Refresh,
                 ToggleOverviewTheme, OverviewArrives, ToggleDetailTheme, SetRange, Select,
                 MoveFocus, ToggleFold, OpenDetail, ReloadDetail, ChartArrives, HistoryArrives,
                 vars, tabVars
<1>6. visible' \in {visible, ~visible}
    BY Moves DEF Tick, ReloadOverview, BackToOverview, ChangeVisibility, Refresh,
                 ToggleOverviewTheme, OverviewArrives, ToggleDetailTheme, SetRange, Select,
                 MoveFocus, ToggleFold, OpenDetail, ReloadDetail, ChartArrives, HistoryArrives,
                 vars, tabVars, overviewVars
<1> QED BY <1>2, <1>4, <1>5, <1>6 DEF RoomInv

LEMMA SelectedKind ==
    ASSUME NEW a \in Answer
    PROVE  SelectedOf(a) \in Keys \union {Nothing}
<1>1. KeysOf(a) \subseteq Keys
    BY PageParts
<1>2. PinnedOf(a) # <<>> => Head(PinnedOf(a)) \in Keys
    BY PageOfAnswer, PinnedKeys
<1> QED BY <1>1, <1>2 DEF SelectedOf

LEMMA StepMarks ==
    ASSUME Kinds, MarkInv, [Next]_vars
    PROVE  MarkInv'
<1>1. CASE UNCHANGED <<m, highlighted, expanded, focus, answer>>
    BY <1>1 DEF MarkInv
<1>2. CASE /\ m' \in {m, Nothing} /\ highlighted' = Nothing
           /\ expanded' = {} /\ focus' = Nothing
    BY <1>2 DEF MarkInv
<1>3. CASE UNCHANGED <<m, highlighted, expanded, answer>> /\ focus' = Nothing
    BY <1>3 DEF MarkInv
<1>4. ASSUME NEW e \in Elements(answer, expanded), Select(e)
      PROVE  MarkInv'
    <2>1. e.of \in Keys
        <3>1. answer \in Answer \union {Nothing}
            BY DEF Kinds
        <3>2. e.of \in KeysOf(answer)
            BY <1>4, <3>1, ElementHasRow DEF Select
        <3> QED BY <3>1, <3>2, PageParts
    <2> QED BY <1>4, <2>1 DEF Select, MarkInv
<1>5. ASSUME NEW e \in Elements(answer, expanded), MoveFocus(e)
      PROVE  MarkInv'
    BY <1>5 DEF MoveFocus, MarkInv
<1>6. ASSUME NEW p \in Plugins, ToggleFold(p)
      PROVE  MarkInv'
    <2>1. answer \in Answer \union {Nothing} /\ p \in Folds(answer)
        BY <1>6 DEF Kinds, ToggleFold
    <2>2. Element("fold", p) \in Nodes(answer)
        BY <2>1, PageParts
    <2>3. \A open : Element("fold", p) \in Elements(answer, open)
        BY <2>2 DEF Elements, Element
    <2>4. focus' = Element("fold", p) /\ answer' = answer
        BY <1>6 DEF ToggleFold
    <2>5. focus' \in Elements(answer', expanded')
        BY <2>3, <2>4
    <2>6. expanded' \subseteq Plugins /\ UNCHANGED <<m, highlighted>>
        BY <1>6 DEF ToggleFold, MarkInv
    <2> QED BY <2>5, <2>6 DEF MarkInv
<1>7. ASSUME NEW req \in overviews, OverviewArrives(req)
      PROVE  MarkInv'
    <2>1. CASE UNCHANGED <<highlighted, expanded, focus, answer>>
        BY <1>1, <1>7, <2>1 DEF OverviewArrives
    <2>2. ASSUME NEW a \in Answer, Arrives(a)
          PROVE  MarkInv'
        <3>1. /\ answer' = a /\ expanded' = OpenAtRender(a) /\ highlighted' = SelectedOf(a)
              /\ focus' = Refocused(focus, a, expanded')
              /\ m' = m
            BY <1>7, <2>2 DEF Arrives, OverviewArrives
        <3>2. focus' \in Elements(a, expanded') \union {Nothing}
            BY <3>1 DEF Refocused
        <3>3. highlighted' \in Keys \union {Nothing}
            BY <3>1, SelectedKind
        <3>4. expanded' \subseteq Plugins
            BY <3>1, PageParts DEF OpenAtRender
        <3> QED BY <3>1, <3>2, <3>3, <3>4 DEF MarkInv
    <2> QED BY <1>7, <2>1, <2>2, AnswerKind
<1>8. CASE Tick \/ ChangeVisibility \/ Refresh \/ (\E h \in histories : ChartArrives(h))
           \/ UNCHANGED overviewVars \/ UNCHANGED vars
    BY <1>1, <1>8 DEF Tick, ChangeVisibility, Refresh, ChartArrives, overviewVars, vars
<1>9. CASE ReloadOverview \/ BackToOverview \/ (\E k \in Keys : OpenDetail(k))
    BY <1>2, <1>9 DEF ReloadOverview, BackToOverview, OpenDetail, OverviewLoaded, OverviewLeft
<1>10. CASE ToggleOverviewTheme \/ (\E r \in Ranges : SetRange(r))
    BY <1>3, <1>10 DEF ToggleOverviewTheme, SetRange
<1>11. CASE \E r \in Ranges : ReloadDetail(r)
    BY <1>8, <1>11 DEF ReloadDetail
<1> QED BY <1>4, <1>5, <1>6, <1>7, <1>8, <1>9, <1>10, <1>11, Moves

LEMMA StepDetail ==
    ASSUME Kinds, DetailTypeOK, [Next]_vars
    PROVE  DetailTypeOK'
<1>1. CASE UNCHANGED detailVars
    BY <1>1 DEF detailVars, DetailTypeOK
<1>2. ASSUME NEW h \in histories, HistoryArrives(h)
      PROVE  DetailTypeOK'
    <2>1. pill' = pill \/ \E points : pill' = Pill(points)
        BY <1>2 DEF HistoryArrives, RenderDetail
    <2>2. \A points : Pill(points).change.direction \in {"up", "down", "flat"}
        BY DEF Pill, FormatChange, DirectionOf
    <2>3. pill' = Nothing \/ pill'.change.direction \in {"up", "down", "flat"}
        BY <2>1, <2>2 DEF DetailTypeOK
    <2> QED BY <1>2, <2>3 DEF HistoryArrives, DetailTypeOK
<1>3. ASSUME NEW k \in Keys, NEW r, DetailLoaded(k, r)
      PROVE  DetailTypeOK'
    BY <1>3, ServerNowKind DEF DetailLoaded, DetailTypeOK
<1>4. CASE DetailLeft
    BY <1>4 DEF DetailLeft, NoDetail, DetailTypeOK
<1>5. CASE ToggleDetailTheme
    BY <1>5 DEF ToggleDetailTheme, DetailTypeOK
<1>6. CASE Tick \/ ReloadOverview \/ UNCHANGED vars
    BY <1>1, <1>6 DEF Tick, ReloadOverview, vars
<1>7. CASE \E r \in Ranges : ReloadDetail(r)
    BY <1>3, <1>7 DEF ReloadDetail, Kinds
<1>8. CASE BackToOverview
    BY <1>4, <1>8 DEF BackToOverview
<1>9. CASE \E k \in Keys : OpenDetail(k)
    BY <1>3, <1>9 DEF OpenDetail
<1> QED BY <1>1, <1>2, <1>5, <1>6, <1>7, <1>8, <1>9, Moves

LEMMA TypesHold == Spec => [](IInv /\ TypesInv)
<1> DEFINE I == IInv /\ TypesInv
<1>1. Init => I
    <2> SUFFICES ASSUME Init PROVE I
        OBVIOUS
    <2>1. IInv
        BY InitIInv
    <2>2. RoomInv
        BY FS_EmptySet DEF Init, TabInit, RoomInv
    <2>3. DrawnInv /\ MarkInv /\ DetailTypeOK
        BY DEF Init, TabInit, DrawnInv, MarkInv, DetailTypeOK, NoDetail
    <2> QED BY <2>1, <2>2, <2>3 DEF TypesInv, IInv
<1>2. I /\ [Next]_vars => I'
    BY StepIInv, StepDrawn, StepRoom, StepMarks, StepDetail DEF TypesInv, IInv
<1> QED BY <1>1, <1>2, PTL DEF Spec

\* The tab's variables keep their types through every refresh, answer, click and
\* page load: what is focused is an element of the page, what is marked is a key
\* of the catalogue, and the requests in flight find room.
THEOREM TypeCorrect == Spec => []TypeOK
<1>1. TypesInv => TypeOK
    BY DEF TypesInv, Kinds, DrawnInv, RoomInv, MarkInv, TypeOK, TabTypeOK
<1> QED BY <1>1, TypesHold, PTL DEF TypesInv


-----------------------------------------------------------------------------
\* What the server is asked and for which keys

\* The export is older than the tab; in the demo, whatever is asked for or shown
\* is of its second.
Moments ==
    /\ clock >= ExportTime
    /\ demo =>
        /\ \A req \in overviews : req.since = ExportTime
        /\ answer # Nothing => answer.rows = ExportTime

\* In the demo, only keys that were exported are asked for or shown.
Linked ==
    demo =>
        /\ \A h \in histories : h.key \in KeysExported
        /\ page = "detail" => detail.key \in KeysExported

\* The rows of an overview that the export wrote lead to pages it wrote.
LEMMA ExportedRows ==
    ASSUME NEW a \in Answer \union {Nothing}, a # Nothing => a.rows = ExportTime
    PROVE  KeysOf(a) \subseteq KeysExported
<1>1. CASE a = Nothing
    BY <1>1, EmptyPage
<1>2. CASE a # Nothing
    <2>1. a \in Answer /\ a.rows = ExportTime
        BY <1>2
    <2>2. /\ KeysOf(a) = KeysIn(MetricsServed(a.range, a.at, ExportTime, a.polls))
          /\ a.range \in Ranges /\ a.at \in Int /\ ExportTime \in Int /\ a.polls \in Int
        BY <2>1, PageOfAnswer
    <2>3. \A x \in ToSet(MetricsServed(a.range, a.at, ExportTime, a.polls)) :
              \E k \in Keys : /\ x = Metric(k, a.range, a.at, ExportTime, a.polls)
                             /\ Stored(k, ExportTime) # <<>>
        BY <2>2, ServedKeys
    <2>4. \A k : Metric(k, a.range, a.at, ExportTime, a.polls).key = k
        BY DEF Metric
    <2> QED BY <2>2, <2>3, <2>4 DEF KeysIn, KeysExported
<1> QED BY <1>1, <1>2

LEMMA MomentMoves ==
    ASSUME Kinds, [Next]_vars
    PROVE  /\ demo' = demo /\ clock' \in {clock, clock + 1}
           /\ \A req \in overviews' : req \in overviews \/ req.since = ServerNow
           /\ \/ answer' \in {answer, Nothing}
              \/ \E req \in overviews : req.since <= answer'.rows /\ answer'.rows <= ServerNow
<1>1. demo' = demo /\ clock' \in {clock, clock + 1}
    BY Moves DEF Tick, ReloadOverview, BackToOverview, ChangeVisibility, Refresh,
                 ToggleOverviewTheme, OverviewArrives, ToggleDetailTheme, SetRange, Select,
                 MoveFocus, ToggleFold, OpenDetail, ReloadDetail, ChartArrives, HistoryArrives,
                 vars, tabVars
<1>2. \A req \in overviews' : req \in overviews \/ req.since = ServerNow
    BY Moves DEF Tick, ReloadOverview, BackToOverview, ChangeVisibility, Refresh,
                 ToggleOverviewTheme, OverviewArrives, ToggleDetailTheme, SetRange, Select,
                 MoveFocus, ToggleFold, OpenDetail, ReloadDetail, ChartArrives, HistoryArrives,
                 OverviewLoaded, OverviewLeft, FetchOverview, vars, overviewVars
<1>3. ASSUME NEW req \in overviews, OverviewArrives(req)
      PROVE  \/ answer' = answer
             \/ req.since <= answer'.rows /\ answer'.rows <= ServerNow
    BY <1>3, AnswerKind DEF Arrives
<1>4. answer' \in {answer, Nothing} \/ \E req \in overviews : OverviewArrives(req)
    BY Moves DEF Tick, ReloadOverview, BackToOverview, ChangeVisibility, Refresh,
                 ToggleOverviewTheme, ToggleDetailTheme, SetRange, Select,
                 MoveFocus, ToggleFold, OpenDetail, ReloadDetail, ChartArrives, HistoryArrives,
                 OverviewLoaded, OverviewLeft, vars, overviewVars
<1> QED BY <1>1, <1>2, <1>3, <1>4

LEMMA StepMoments ==
    ASSUME IInv, IInv', Moments, [Next]_vars
    PROVE  Moments'
<1>0. clock' >= ExportTime
    BY MomentMoves DEF IInv, Kinds, Moments
<1> SUFFICES ASSUME demo'
             PROVE  /\ \A req \in overviews' : req.since = ExportTime
                    /\ answer' # Nothing => answer'.rows = ExportTime
    BY <1>0 DEF Moments
<1>1. demo /\ ServerNow = ExportTime /\ ExportTime \in Nat
    BY MomentMoves DEF IInv, ServerNow
<1>2. \A req \in overviews' : req.since = ExportTime
    BY <1>1, MomentMoves DEF IInv, Moments
<1>3. answer' # Nothing => answer'.rows = ExportTime
    <2> SUFFICES ASSUME answer' # Nothing PROVE answer'.rows = ExportTime
        OBVIOUS
    <2>1. answer'.rows \in Nat
        BY DEF IInv, Kinds, Answer
    <2>2. \/ answer' = answer
          \/ ExportTime <= answer'.rows /\ answer'.rows <= ExportTime
        BY <1>1, MomentMoves DEF IInv, Moments
    <2> QED BY <1>1, <2>1, <2>2 DEF Moments
<1> QED BY <1>2, <1>3

\* The keys that are asked for and shown come from the rows of the page.
LEMMA KeyMoves ==
    ASSUME IInv, [Next]_vars
    PROVE  /\ \A h \in histories' :
                 \/ h \in histories
                 \/ h.key \in KeysOf(answer) \union KeysOf(answer')
                 \/ page = "detail" /\ h.key = detail.key
           /\ page' = "detail" => \/ detail'.key \in KeysOf(answer)
                                  \/ page = "detail" /\ detail'.key = detail.key
<1>1. \/ page' = page /\ detail' = detail
      \/ page' = "overview"
      \/ \E k \in Keys : OpenDetail(k)
      \/ \E r \in Ranges : ReloadDetail(r)
    BY Moves DEF Tick, ReloadOverview, BackToOverview, ChangeVisibility, Refresh,
                 ToggleOverviewTheme, OverviewArrives, ToggleDetailTheme, SetRange, Select,
                 MoveFocus, ToggleFold, ChartArrives, HistoryArrives, LoadPage,
                 vars, tabVars, detailVars
<1>2. ASSUME NEW k, NEW r, DetailLoaded(k, r)
      PROVE  detail'.key = k /\ \A h \in histories' : h.key = k
    BY <1>2 DEF DetailLoaded, LoadOf
<1>3. ASSUME NEW k \in Keys, OpenDetail(k)
      PROVE  k \in KeysOf(answer) /\ detail'.key = k /\ \A h \in histories' : h.key = k
    BY <1>2, <1>3 DEF OpenDetail, RowsVisible
<1>4. ASSUME NEW r \in Ranges, ReloadDetail(r)
      PROVE  /\ page = "detail" /\ detail'.key = detail.key
             /\ \A h \in histories' : h.key = detail.key
    BY <1>2, <1>4 DEF ReloadDetail
<1>5. page' = "detail" => \/ detail'.key \in KeysOf(answer)
                          \/ page = "detail" /\ detail'.key = detail.key
    BY <1>1, <1>3, <1>4
<1>6. ASSUME NEW key, NEW a, LoadChartFor(key, a)
      PROVE  \A h \in histories' : h \in histories \/ h.key \in KeysOf(a)
    <2>1. CASE key \in KeysOf(a)
        <3>1. histories' = histories \union {HistoryOf(FreshId(ChartRequestId), key, a)}
            BY <1>6, <2>1 DEF LoadChartFor
        <3> QED BY <2>1, <3>1 DEF HistoryOf
    <2>2. CASE key \notin KeysOf(a)
        BY <1>6, <2>2 DEF LoadChartFor
    <2> QED BY <2>1, <2>2
<1>7. ASSUME NEW req \in overviews, OverviewArrives(req)
      PROVE  \A h \in histories' : h \in histories \/ h.key \in KeysOf(answer')
    <2>1. CASE histories' = histories
        BY <2>1
    <2>2. ASSUME NEW a \in Answer, Arrives(a)
          PROVE  \A h \in histories' : h \in histories \/ h.key \in KeysOf(answer')
        <3>1. answer' = a /\ (histories' = histories \/ LoadChartFor(SelectedOf(a), a))
            BY <2>2 DEF Arrives
        <3> QED BY <1>6, <3>1
    <2> QED BY <1>7, <2>1, <2>2, AnswerKind DEF IInv
<1>8. CASE ToggleOverviewTheme \/ \E e \in Elements(answer, expanded) : Select(e)
    <2>1. histories' = histories \/ \E key : LoadChartFor(key, answer)
        BY <1>8 DEF ToggleOverviewTheme, Select
    <2>2. \A h \in histories' : h \in histories \/ h.key \in KeysOf(answer)
        BY <1>6, <2>1
    <2> QED BY <1>5, <2>2
<1>9. CASE ToggleDetailTheme
    <2>1. PICK id, from : histories' = histories \union {HistoryOf(id, detail.key, from)}
                         /\ page = "detail"
        BY <1>9 DEF ToggleDetailTheme
    <2>2. \A h \in histories' : h \in histories \/ h.key = detail.key
        BY <2>1 DEF HistoryOf
    <2> QED BY <1>5, <2>1, <2>2
<1>10. CASE histories' \subseteq histories
    BY <1>5, <1>10
<1>11. \/ histories' \subseteq histories
       \/ ToggleDetailTheme \/ ToggleOverviewTheme
       \/ (\E e \in Elements(answer, expanded) : Select(e))
       \/ (\E req \in overviews : OverviewArrives(req))
       \/ (\E k \in Keys : OpenDetail(k)) \/ (\E r \in Ranges : ReloadDetail(r))
    BY Moves DEF Tick, ReloadOverview, BackToOverview, ChangeVisibility, Refresh, SetRange,
                 MoveFocus, ToggleFold, ChartArrives, HistoryArrives, vars, tabVars
<1> QED BY <1>3, <1>4, <1>5, <1>7, <1>8, <1>9, <1>10, <1>11

LEMMA StepLinked ==
    ASSUME IInv, IInv', Moments, Moments', Linked, [Next]_vars
    PROVE  Linked'
<1> SUFFICES ASSUME demo'
             PROVE  /\ \A h \in histories' : h.key \in KeysExported
                    /\ page' = "detail" => detail'.key \in KeysExported
    BY DEF Linked
<1>1. demo
    BY MomentMoves DEF IInv
<1>2. KeysOf(answer) \subseteq KeysExported /\ KeysOf(answer') \subseteq KeysExported
    <2>1. /\ answer \in Answer \union {Nothing} /\ (answer # Nothing => answer.rows = ExportTime)
          /\ answer' \in Answer \union {Nothing} /\ (answer' # Nothing => answer'.rows = ExportTime)
        BY <1>1 DEF IInv, Kinds, Moments
    <2> QED BY <2>1, ExportedRows
<1> QED BY <1>1, <1>2, KeyMoves DEF Linked

LEMMA LinksHold == Spec => [](IInv /\ TypesInv /\ Moments /\ Linked)
<1> DEFINE J == Moments /\ Linked
<1>1. Init => J
    BY DEF Init, TabInit, Moments, Linked, ServerNow
<1>2. IInv /\ IInv' /\ J /\ [Next]_vars => J'
    BY StepMoments, StepLinked
<1> QED BY <1>1, <1>2, TypesHold, PTL DEF Spec

\* In the static demo every overview and every history that the pages ask for,
\* whatever was clicked, and the links between the pages lead to files that the
\* export wrote (shim.js, export.py).
THEOREM DemoIsClosed == Spec => []DemoServes
<1>1. IInv /\ Moments /\ Linked => DemoServes
    <2> SUFFICES ASSUME IInv, Moments, Linked, demo
                 PROVE  /\ \A req \in overviews : JsonFile(OverviewUrl(req.range)) \in Exported
                        /\ \A h \in histories : JsonFile(HistoryUrl(h.key, h.range)) \in Exported
                        /\ \A k \in KeysOf(answer) :
                              RewriteInternalHref(DetailLink(k, linkRange)) \in Exported
                        /\ RewriteInternalHref(OverviewLink(range)) \in Exported
        BY DEF DemoServes
    <2>1. /\ [file |-> "index"] \in Exported
          /\ \A r \in Ranges : [file |-> "overview", range |-> r] \in Exported
          /\ \A k \in KeysExported : [file |-> "m", key |-> k] \in Exported
          /\ \A k \in KeysExported, r \in Ranges :
                [file |-> "history", key |-> k, range |-> r] \in Exported
        <3> DEFINE O == {[file |-> "overview", range |-> r] : r \in Ranges}
                   M == {[file |-> "m", key |-> k] : k \in KeysExported}
        <3>1. Exported = {[file |-> "index"]} \union O \union M \union HistoriesExported
            BY DEF Exported
        <3>2. \A r \in Ranges : [file |-> "overview", range |-> r] \in O
            OBVIOUS
        <3>3. \A k \in KeysExported, r \in Ranges :
                  [file |-> "history", key |-> k, range |-> r] \in HistoriesExported
            BY DEF HistoriesExported
        <3>4. \A k \in KeysExported : [file |-> "m", key |-> k] \in M
            OBVIOUS
        <3> HIDE DEF O, M
        <3> QED BY <3>1, <3>2, <3>3, <3>4
    <2>2. \A req \in overviews : JsonFile(OverviewUrl(req.range)) \in Exported
        <3>1. \A r : JsonFile(OverviewUrl(r)) = [file |-> "overview", range |-> r]
            BY DEF JsonFile, OverviewUrl
        <3>2. \A req \in overviews : req.range \in Ranges
            BY DEF IInv, Kinds
        <3> QED BY <2>1, <3>1, <3>2
    <2>3. ASSUME NEW k \in KeysExported, NEW r \in Ranges
          PROVE  JsonFile(HistoryUrl(k, r)) \in Exported
        <3>1. JsonFile(HistoryUrl(k, r)) = [file |-> "history", key |-> k, range |-> r]
            BY DEF JsonFile, HistoryUrl
        <3> QED BY <2>1, <3>1
    <2>4. ASSUME NEW k \in KeysExported, NEW r
          PROVE  RewriteInternalHref(DetailLink(k, r)) \in Exported
        <3>1. RewriteInternalHref(DetailLink(k, r)) = [file |-> "m", key |-> k]
            BY DEF RewriteInternalHref, DetailLink
        <3> QED BY <2>1, <3>1
    <2>5. \A h \in histories : h.key \in KeysExported /\ h.range \in Ranges
        BY DEF IInv, Kinds, Request, Linked
    <2>6. KeysOf(answer) \subseteq KeysExported
        <3>1. answer \in Answer \union {Nothing} /\ (answer # Nothing => answer.rows = ExportTime)
            BY DEF IInv, Kinds, Moments
        <3> QED BY <3>1, ExportedRows
    <2>7. RewriteInternalHref(OverviewLink(range)) \in Exported
        BY <2>1 DEF RewriteInternalHref, OverviewLink
    <2> QED BY <2>2, <2>3, <2>4, <2>5, <2>6, <2>7
<1> QED BY <1>1, LinksHold, PTL


-----------------------------------------------------------------------------
\* The line of a stale series

\* The newest good poll is a moment, if there is one.
LEMMA LastOkKind ==
    ASSUME NEW p \in Plugins, NEW t
    PROVE  LastOk(p, t) \in Nat \union {Healthy}
<1> DEFINE Run  == [ts : Nat, outcome : Outcomes]
           good == {i \in DOMAIN Polls[p] : Polls[p][i].ts <= t /\ IsOk(Polls[p][i])}
           ok   == Kept(Polls[p], good)
<1>1. Polls[p] \in Seq(Run) /\ good \in SUBSET DOMAIN Polls[p]
    BY ScriptAssumption
<1>2. ok \in Seq(Run)
    <2> HIDE DEF good, Run
    <2> QED BY <1>1, KeptFacts
<1>3. LastOk(p, t) = IF ok = <<>> THEN Healthy ELSE Last(ok).ts
    BY DEF LastOk, Filter
<1>4. ok # <<>> => Last(ok).ts \in Nat
    <2> HIDE DEF ok
    <2> SUFFICES ASSUME ok # <<>> PROVE Last(ok).ts \in Nat
        OBVIOUS
    <2>1. Len(ok) \in 1..Len(ok) /\ Last(ok) = ok[Len(ok)]
        BY <1>2, EmptySeq, LenProperties DEF Last
    <2>2. ok[Len(ok)] \in Run
        <3> HIDE DEF Run
        <3> QED BY <1>2, <2>1, ElementOfSeq
    <2> QED BY <2>1, <2>2
<1> QED BY <1>3, <1>4

\* A set of two numbers or more.
LEMMA AtLeastTwo ==
    ASSUME NEW S, IsFiniteSet(S), NEW a \in S, NEW b \in S, a # b
    PROVE  Cardinality(S) > 1
<1>1. IsFiniteSet({a, b}) /\ Cardinality({a, b}) = 2
    <2>1. IsFiniteSet({a}) /\ Cardinality({a}) = 1
        BY FS_Singleton
    <2>2. IsFiniteSet({a} \union {b}) /\ Cardinality({a} \union {b}) = Cardinality({a}) + 1
        <3>1. b \notin {a}
            OBVIOUS
        <3> QED BY <2>1, <3>1, FS_AddElement
    <2>3. {a} \union {b} = {a, b}
        OBVIOUS
    <2>4. IsFiniteSet({a, b}) /\ Cardinality({a, b}) = Cardinality({a}) + 1
        BY <2>2, <2>3, Zenon
    <2>5. Cardinality({a, b}) = 2
        BY <2>1, <2>4
    <2> QED BY <2>4, <2>5
<1>2. {a, b} \subseteq S
    OBVIOUS
<1>3. Cardinality({a, b}) <= Cardinality(S)
    BY <1>2, FS_Subset
<1>4. Cardinality(S) \in Nat
    BY FS_CardinalityType
<1> QED BY <1>1, <1>3, <1>4

LEMMA TailIsDrawn ==
    ASSUME DrawnInv
    PROVE  TailDrawn
<1> SUFFICES ASSUME drawn # Nothing PROVE TailDrawn
    BY DEF TailDrawn
<1>1. drawn \in Drawing /\ DrawnPoints # <<>>
    BY DEF DrawnInv, DrawnPoints
<1>2. DrawnPoints \in Points
    <2>1. drawn.key \in Keys /\ drawn.range \in Ranges /\ drawn.at \in 0..MaxClock
        BY <1>1 DEF Drawing
    <2> QED BY <2>1, PointsAreServed DEF DrawnPoints
<1>3. DrawnSince \in Nat \union {Healthy} /\ drawn.now \in Nat
    <2>1. drawn.key \in Keys /\ drawn.now \in Nat
        BY <1>1 DEF Drawing
    <2>2. PluginOf[drawn.key] \in Plugins
        BY <2>1 DEF Plugins
    <2>3. LastOk(PluginOf[drawn.key], drawn.from.polls) \in Nat \union {Healthy}
        BY <2>2, LastOkKind
    <2> QED BY <2>1, <2>3 DEF DrawnSince, StaleSince
<1>4. PICK points \in Points, since \in Nat \union {Healthy}, now \in Nat :
        points = DrawnPoints /\ since = DrawnSince /\ now = drawn.now
    BY <1>2, <1>3
<1>5. PICK line : points # <<>> /\ line = DrawnLine /\ line = Line(points, since, now)
    BY <1>1, <1>4 DEF DrawnLine
<1>6. /\ line.solid \union line.dashed = DOMAIN line.xs
      /\ since = Healthy => line.xs = points /\ line.dashed = {} /\ line.filled
      /\ since # Healthy =>
            /\ \E i \in 1..Len(points) : line.solid \intersect line.dashed = {i}
            /\ line.xs[Len(line.xs)].ts >= now
            /\ Len(line.xs) \in line.dashed
            /\ \A i \in line.solid \ line.dashed : line.xs[i].ts < since
            /\ Last(points).ts < now =>
                  /\ {Len(points), Len(line.xs)} \subseteq line.dashed
                  /\ Len(points) # Len(line.xs)
                  /\ ~line.filled
    <2>1. LET l == Line(points, since, now)
          IN  /\ l.solid \union l.dashed = DOMAIN l.xs
              /\ since = Healthy => l.xs = points /\ l.dashed = {} /\ l.filled
              /\ since # Healthy =>
                    /\ \E i \in 1..Len(points) : l.solid \intersect l.dashed = {i}
                    /\ l.xs[Len(l.xs)].ts >= now
                    /\ Len(l.xs) \in l.dashed
                    /\ \A i \in l.solid \ l.dashed : l.xs[i].ts < since
                    /\ Last(points).ts < now =>
                          /\ {Len(points), Len(l.xs)} \subseteq l.dashed
                          /\ Len(points) # Len(l.xs)
                          /\ ~l.filled
        BY <1>5, LineIsWhole
    <2> QED BY <1>5, <2>1
<1>7. since = Healthy => line.xs = points /\ line.dashed = {} /\ line.filled
    BY <1>6
<1>8. since # Healthy => \E i \in 1..Len(points) : line.solid \intersect line.dashed = {i}
    BY <1>6
<1>9. since # Healthy => line.xs[Len(line.xs)].ts >= now /\ Len(line.xs) \in line.dashed
    BY <1>6
<1>10. since # Healthy => \A i \in line.solid \ line.dashed : line.xs[i].ts < since
    BY <1>6
<1>11. since # Healthy /\ Last(points).ts < now =>
          /\ {Len(points), Len(line.xs)} \subseteq line.dashed
          /\ Len(points) # Len(line.xs)
          /\ ~line.filled
    BY <1>6
<1>12. line.dashed # {} => Cardinality(line.solid \intersect line.dashed) = 1
    BY <1>7, <1>8, FS_Singleton
<1>13. Last(line.xs) = line.xs[Len(line.xs)]
    BY DEF Last
<1>14. IsFiniteSet(line.dashed)
    <2>1. line.xs = Extended(points, since, now)
        BY <1>5 DEF Line
    <2>2. line.xs \in Points
        <3>1. Extended(points, since, now) \in Points
            BY <1>5, ExtendedPoints
        <3> QED BY <2>1, <3>1
    <2>3. DOMAIN line.xs = 1..Len(line.xs) /\ Len(line.xs) \in Nat
        BY <2>2, LenProperties DEF Points
    <2>4. IsFiniteSet(DOMAIN line.xs)
        BY <2>3, FS_Interval
    <2> QED BY <1>6, <2>4, FS_Subset
<1>15. since # Healthy /\ Last(points).ts < now => Cardinality(line.dashed) > 1 /\ ~line.filled
    BY <1>11, <1>14, AtLeastTwo
<1> QED BY <1>4, <1>5, <1>6, <1>7, <1>9, <1>10, <1>12, <1>13, <1>15 DEF TailDrawn

\* The line of a series whose last good poll is too long ago reaches "now" in a
\* dashed tail that loses no point of it and leaves no gap, however late that poll
\* was and whichever seconds its figures come from (chart.js); every other line
\* is solid.
THEOREM StaleTailIsDrawn == Spec => []TailDrawn
<1>1. DrawnInv => TailDrawn
    BY TailIsDrawn
<1> QED BY <1>1, TypesHold, PTL DEF TypesInv


-----------------------------------------------------------------------------
\* The strip of bars

\* What is kept stays in its order.
LEMMA KeptOrder ==
    ASSUME NEW T, NEW s \in Seq(T), NEW K \in SUBSET DOMAIN s,
           NEW a \in 1..Len(Kept(s, K)), NEW b \in 1..Len(Kept(s, K)), a < b
    PROVE  \E i, j \in K : i < j /\ Kept(s, K)[a] = s[i] /\ Kept(s, K)[b] = s[j]
<1>1. PICK i \in K : Rank(K, i) = a /\ Kept(s, K)[a] = s[i]
    BY KeptFacts
<1>2. PICK j \in K : Rank(K, j) = b /\ Kept(s, K)[b] = s[j]
    BY KeptFacts
<1>3. DOMAIN s = 1..Len(s) /\ Len(s) \in Nat
    OBVIOUS
<1>4. K \in SUBSET Nat /\ IsFiniteSet(K)
    <2>1. IsFiniteSet(1..Len(s))
        BY <1>3, FS_Interval
    <2> QED BY <1>3, <2>1, FS_Subset
<1>5. j < i => Rank(K, j) < Rank(K, i)
    BY <1>4, RankFacts
<1>6. Len(Kept(s, K)) \in Nat
    BY KeptFacts
<1>7. ~(j < i) /\ i # j
    BY <1>1, <1>2, <1>5, <1>6
<1> QED BY <1>1, <1>2, <1>4, <1>7

Ordered(points) ==
    \A i, j \in 1..Len(points) : i < j => points[i].ts < points[j].ts

\* The points of a history are in order, and none is newer than the answer.
LEMMA ServedInOrder ==
    ASSUME NEW k \in Keys, NEW r \in Ranges, NEW t \in 0..MaxClock
    PROVE  /\ Ordered(Histories[k][r][t])
           /\ \A i \in 1..Len(Histories[k][r][t]) : Histories[k][r][t][i].ts <= t
<1> DEFINE all    == Samples[k]
           start  == RangeStart(r, t, 0)
           early  == {i \in DOMAIN all : all[i].ts <= start}
           later  == {i \in DOMAIN all : all[i].ts > start /\ all[i].ts <= t}
           rest   == Kept(all, later)
           points == Histories[k][r][t]
<1>1. all \in Seq(Point)
    BY ScriptAssumption DEF Point
<1>2. start \in Int /\ start <= t
    BY ScriptAssumption DEF RangeStart
<1>3. \A i, j \in DOMAIN all : i < j => all[i].ts < all[j].ts
    BY ScriptAssumption
<1>4. points = (IF Kept(all, early) = <<>> THEN <<>>
                ELSE <<[ts |-> start, value |-> Last(Kept(all, early)).value]>>) \o rest
    <2>1. points = History(k, start, t)
        BY DEF Histories, PointsServed
    <2> QED BY <2>1 DEF History, Between, Filter
<1>5. points \in Points
    BY PointsAreServed
<1> HIDE DEF all, start, points
<1>6. later \in SUBSET DOMAIN all
    OBVIOUS
<1>7. /\ rest \in Seq(Point) /\ Len(rest) \in Nat
      /\ \A n \in 1..Len(rest) : \E i \in later : rest[n] = all[i]
    <2> HIDE DEF later
    <2> QED BY <1>1, <1>6, KeptFacts
<1>8. \A n \in 1..Len(rest) : start < rest[n].ts /\ rest[n].ts <= t
    BY <1>2, <1>7
<1>9. \A a, b \in 1..Len(rest) : a < b => rest[a].ts < rest[b].ts
    <2> SUFFICES ASSUME NEW a \in 1..Len(rest), NEW b \in 1..Len(rest), a < b
                 PROVE  rest[a].ts < rest[b].ts
        OBVIOUS
    <2>1. \E i, j \in later : i < j /\ rest[a] = all[i] /\ rest[b] = all[j]
        <3> HIDE DEF later
        <3> QED BY <1>1, <1>6, KeptOrder
    <2> QED BY <1>3, <2>1
<1> HIDE DEF rest, early
<1>10. CASE Kept(all, early) = <<>>
    <2>1. points = rest
        BY <1>4, <1>7, <1>10, ConcatEmptySeq
    <2> QED BY <1>8, <1>9, <2>1 DEF Ordered, points
<1>11. CASE Kept(all, early) # <<>>
    <2>1. PICK value : points = <<[ts |-> start, value |-> value]>> \o rest
        BY <1>4, <1>11
    <2>2. /\ Len(points) = Len(rest) + 1 /\ points[1].ts = start
          /\ \A n \in 2..Len(points) : n - 1 \in 1..Len(rest) /\ points[n] = rest[n - 1]
        BY <1>7, <2>1
    <2>3. ASSUME NEW i \in 1..Len(points), NEW j \in 1..Len(points), i < j
          PROVE  points[i].ts < points[j].ts
        <3>1. j \in 2..Len(points) /\ points[j] = rest[j - 1] /\ j - 1 \in 1..Len(rest)
            BY <1>7, <2>2, <2>3
        <3>2. CASE i = 1
            BY <1>8, <2>2, <3>1, <3>2
        <3>3. CASE i # 1
            <4>1. points[i] = rest[i - 1] /\ i - 1 \in 1..Len(rest) /\ i - 1 < j - 1
                BY <1>7, <2>2, <2>3, <3>3
            <4> QED BY <1>9, <3>1, <4>1
        <3> QED BY <3>2, <3>3
    <2>4. \A i \in 1..Len(points) : points[i].ts <= t
        <3> SUFFICES ASSUME NEW i \in 1..Len(points) PROVE points[i].ts <= t
            OBVIOUS
        <3>1. CASE i = 1
            BY <1>2, <2>2, <3>1
        <3>2. CASE i # 1
            <4>1. points[i] = rest[i - 1] /\ i - 1 \in 1..Len(rest)
                BY <1>7, <2>2, <3>2
            <4> QED BY <1>8, <4>1
        <3> QED BY <3>1, <3>2
    <2> QED BY <2>3, <2>4 DEF Ordered, points
<1> QED BY <1>10, <1>11

\* A bar begins no earlier than the first point and no later than the last.
LEMMA BarsAreWithin ==
    ASSUME NEW points \in Points, points # <<>>, Ordered(points), NEW width \in Nat \ {0}
    PROVE  /\ BucketChanges(points, width) \in Bars
           /\ \A i \in DOMAIN BucketChanges(points, width) :
                 /\ points[1].ts <= BucketChanges(points, width)[i].ts
                 /\ BucketChanges(points, width)[i].ts <= Last(points).ts
<1> DEFINE Index(p)  == (p.ts - points[1].ts) \div width
           K == {i \in DOMAIN points :
                    \A q \in ToSet(points) : Index(q) = Index(points[i]) => q.ts <= points[i].ts}
           ends == Kept(points, K)
           Before(i) == IF i = 1 THEN points[1].value ELSE ends[i - 1].value
           bars == BucketChanges(points, width)
<1>1. bars = IF Len(points) < 2 THEN <<>>
             ELSE [i \in DOMAIN ends |->
                      [ts     |-> points[1].ts + Index(ends[i]) * width,
                       change |-> ends[i].value - Before(i)]]
    BY DEF BucketChanges, Filter
<1>2. /\ Len(points) \in Nat \ {0} /\ DOMAIN points = 1..Len(points)
      /\ \A i \in 1..Len(points) : points[i] \in Point /\ points[i].ts \in Nat
      /\ Last(points) = points[Len(points)]
    BY PointFacts
<1>3. \A i \in 1..Len(points) : points[1].ts <= points[i].ts /\ points[i].ts <= Last(points).ts
    <2> SUFFICES ASSUME NEW i \in 1..Len(points)
                 PROVE  points[1].ts <= points[i].ts /\ points[i].ts <= Last(points).ts
        OBVIOUS
    <2>1. PICK n \in Nat \ {0} : n = Len(points)
        BY <1>2
    <2>2. i \in 1..n /\ 1 \in 1..n /\ n \in 1..n
        BY <2>1
    <2>3. \A a, b \in 1..n : a < b => points[a].ts < points[b].ts
        BY <2>1 DEF Ordered
    <2>4. \A a \in 1..n : points[a].ts \in Nat
        BY <1>2, <2>1
    <2>5. points[1].ts <= points[i].ts
        <3>1. i = 1 \/ 1 < i
            BY <2>2
        <3> QED BY <2>2, <2>3, <2>4, <3>1
    <2>6. points[i].ts <= points[n].ts
        <3>1. i = n \/ i < n
            BY <2>2
        <3> QED BY <2>2, <2>3, <2>4, <3>1
    <2> QED BY <1>2, <2>1, <2>5, <2>6
<1>4. /\ ends \in Seq(Point) /\ Len(ends) \in Nat
      /\ \A n \in 1..Len(ends) : \E i \in 1..Len(points) : ends[n] = points[i]
    <2>1. K \in SUBSET DOMAIN points /\ points \in Seq(Point)
        BY DEF Points
    <2> HIDE DEF K
    <2> QED BY <1>2, <2>1, KeptFacts
<1> HIDE DEF ends
<1>5. ASSUME NEW n \in 1..Len(ends)
      PROVE  LET ts == points[1].ts + Index(ends[n]) * width
             IN  ts \in Int /\ points[1].ts <= ts /\ ts <= Last(points).ts
    <2>1. PICK i \in 1..Len(points) : ends[n] = points[i]
        BY <1>4
    <2>2. PICK length \in Nat : length = points[i].ts - points[1].ts
        <3>1. 1 \in 1..Len(points)
            BY <1>2
        <3>2. points[i].ts - points[1].ts \in Nat
            BY <1>2, <1>3, <3>1
        <3> QED BY <3>2
    <2>3. (length \div width) * width \in Nat /\ (length \div width) * width <= length
        OBVIOUS
    <2>4. Index(ends[n]) * width = (length \div width) * width
        BY <2>1, <2>2
    <2>5. points[1].ts \in Nat /\ points[i].ts \in Nat /\ Last(points).ts \in Nat
          /\ points[i].ts <= Last(points).ts
        <3>1. 1 \in 1..Len(points) /\ Len(points) \in 1..Len(points)
            BY <1>2
        <3> QED BY <1>2, <1>3, <3>1
    <2>6. PICK part \in Nat : part = (length \div width) * width /\ part <= length
        BY <2>3
    <2>7. points[1].ts + Index(ends[n]) * width = points[1].ts + part
        BY <2>4, <2>6
    <2>8. LET ts == points[1].ts + part
          IN  ts \in Int /\ points[1].ts <= ts /\ ts <= Last(points).ts
        <3>1. PICK a \in Nat, b \in Nat, c \in Nat :
                a = points[1].ts /\ b = points[i].ts /\ c = Last(points).ts
            BY <2>5
        <3>2. length = b - a /\ part <= length /\ b <= c
            BY <2>2, <2>5, <2>6, <3>1
        <3>3. a + part \in Int /\ a <= a + part /\ a + part <= c
            BY <3>2
        <3> QED BY <3>1, <3>3
    <2> HIDE DEF Index
    <2> QED BY <2>7, <2>8
<1>6. ASSUME NEW n \in 1..Len(ends)
      PROVE  ends[n].value - Before(n) \in Int
    <2>1. ends[n] \in Point /\ points[1] \in Point
        BY <1>2, <1>4
    <2>2. CASE n = 1
        BY <2>1, <2>2 DEF Point
    <2>3. CASE n # 1
        <3>1. n - 1 \in 1..Len(ends)
            BY <1>4, <2>3
        <3>2. ends[n - 1] \in Point
            BY <1>4, <3>1
        <3> QED BY <2>1, <2>3, <3>2 DEF Point
    <2> QED BY <2>2, <2>3
<1> HIDE DEF Index, Before, bars
<1>7. CASE Len(points) < 2
    BY <1>1, <1>7 DEF Bars, bars
<1>8. CASE ~(Len(points) < 2)
    <2>1. bars = [i \in 1..Len(ends) |->
                     [ts     |-> points[1].ts + Index(ends[i]) * width,
                      change |-> ends[i].value - Before(i)]]
        BY <1>1, <1>4, <1>8
    <2>2. \A i \in 1..Len(ends) : bars[i] \in Bar
        BY <1>5, <1>6, <2>1 DEF Bar
    <2>3. bars \in [1..Len(ends) -> Bar]
        BY <2>1, <2>2
    <2>4. bars \in Bars /\ DOMAIN bars = 1..Len(ends)
        BY <1>4, <2>3 DEF Bars
    <2>5. \A i \in 1..Len(ends) : bars[i].ts = points[1].ts + Index(ends[i]) * width
        BY <2>1
    <2> QED BY <1>5, <2>4, <2>5 DEF bars
<1> QED BY <1>7, <1>8

\* Nothing is drawn that the server had not answered yet.
DrawnInTime == drawn # Nothing => drawn.at <= drawn.now

LEMMA StepDrawnInTime ==
    ASSUME Kinds, Moments, DrawnInTime, [Next]_vars
    PROVE  DrawnInTime'
<1>1. ServerNow \in Int /\ clock \in Int /\ ServerNow <= clock
    BY DEF Kinds, Moments, ServerNow
<1>2. ASSUME NEW h \in histories, NEW at \in h.since..ServerNow, drawn' = Rendered(h, at)
      PROVE  DrawnInTime'
    <2>1. at <= clock
        <3>1. h.since \in Int
            BY DEF Kinds, Request
        <3> QED BY <1>1, <3>1
    <2> QED BY <1>2, <2>1 DEF Rendered, DrawnInTime
<1>3. CASE drawn' \in {drawn, Nothing}
    BY <1>3 DEF DrawnInTime
<1>4. \/ drawn' \in {drawn, Nothing}
      \/ \E h \in histories : ChartArrives(h) \/ HistoryArrives(h)
    BY Moves DEF Tick, ReloadOverview, BackToOverview, ChangeVisibility, Refresh,
                 ToggleOverviewTheme, OverviewArrives, ToggleDetailTheme, SetRange, Select,
                 MoveFocus, ToggleFold, OpenDetail, ReloadDetail, DetailLoaded, LoadPage,
                 vars, tabVars
<1>5. ASSUME NEW h \in histories, ChartArrives(h) \/ HistoryArrives(h)
      PROVE  drawn' = drawn \/ \E at \in h.since..ServerNow : drawn' = Rendered(h, at)
    BY <1>5 DEF ChartArrives, HistoryArrives, RenderDetail
<1> QED BY <1>2, <1>3, <1>4, <1>5 DEF DrawnInTime

\* Part of FiguresAgree.  Whatever chart is drawn, of whatever samples, every bar
\* under it stands where the line above it has the bar's time, made-up tail
\* included, and none sticks out of the strip (chart.js, common.js; the buckets
\* are api.py's).
THEOREM BarsAgreeWithLine == Spec => []BarsUnderLine
<1>1. Init => DrawnInTime
    BY DEF Init, TabInit, DrawnInTime
<1>2. IInv /\ Moments /\ DrawnInTime /\ [Next]_vars => DrawnInTime'
    BY StepDrawnInTime DEF IInv
<1>3. DrawnInv /\ DrawnInTime => BarsUnderLine
    <2> SUFFICES ASSUME DrawnInv, DrawnInTime, drawn # Nothing PROVE BarsUnderLine
        BY DEF BarsUnderLine
    <2>1. /\ drawn \in Drawing /\ DrawnPoints # <<>> /\ drawn.at <= drawn.now
          /\ drawn.key \in Keys /\ drawn.range \in Ranges /\ drawn.at \in 0..MaxClock
          /\ drawn.now \in Nat
        BY DEF DrawnInv, DrawnInTime, DrawnPoints, Drawing
    <2>2. /\ DrawnPoints \in Points /\ Ordered(DrawnPoints)
          /\ \A i \in 1..Len(DrawnPoints) : DrawnPoints[i].ts <= drawn.at
        BY <2>1, PointsAreServed, ServedInOrder DEF DrawnPoints
    <2>3. Last(DrawnPoints).ts <= drawn.now
        <3>1. /\ Len(DrawnPoints) \in 1..Len(DrawnPoints)
              /\ Last(DrawnPoints) = DrawnPoints[Len(DrawnPoints)]
              /\ Last(DrawnPoints).ts \in Nat
            BY <2>1, <2>2, PointFacts
        <3> QED BY <2>1, <2>2, <3>1
    <2>4. DrawnSince \in Nat \union {Healthy}
        <3>1. PluginOf[drawn.key] \in Plugins
            BY <2>1 DEF Plugins
        <3>2. LastOk(PluginOf[drawn.key], drawn.from.polls) \in Nat \union {Healthy}
            BY <3>1, LastOkKind
        <3> QED BY <3>2 DEF DrawnSince, StaleSince
    <2>5. DrawnBars = BucketChanges(DrawnPoints, BucketOf[drawn.range])
        BY <2>1 DEF DrawnBars, Strips, BarsServed, DrawnPoints, Histories
    <2>6. BucketOf[drawn.range] \in Nat \ {0}
        BY <2>1, ScriptAssumption
    <2>7. PICK points \in Points, since \in Nat \union {Healthy}, now \in Nat :
             points = DrawnPoints /\ since = DrawnSince /\ now = drawn.now
        BY <2>1, <2>2, <2>4
    <2>8. /\ points # <<>> /\ Last(points).ts <= now
          /\ DrawnBars \in Bars
          /\ \A i \in DOMAIN DrawnBars :
                points[1].ts <= DrawnBars[i].ts /\ DrawnBars[i].ts <= Last(points).ts
        BY <2>1, <2>2, <2>3, <2>5, <2>6, <2>7, BarsAreWithin
    <2>9. PICK bars \in Bars : bars = DrawnBars
        BY <2>8
    <2>10. LET xs    == Line(points, since, now).xs
               rects == RenderBars(bars, BarsDomain(points, since, now))
           IN  \A i \in DOMAIN bars :
                  /\ rects[i].centre = Across(bars[i].ts, Head(xs).ts, Last(xs).ts)
                  /\ rects[i].centre \in 0..StripWidth
                  /\ rects[i].height <= HalfHeight /\ rects[i].top >= 0
        BY <2>8, <2>9, BarsStandUnderLine
    <2>11. DOMAIN RenderBars(bars, BarsDomain(points, since, now)) = DOMAIN bars
        BY DEF RenderBars
    <2> QED BY <2>7, <2>9, <2>10, <2>11 DEF BarsUnderLine, DrawnLine
<1> QED BY <1>1, <1>2, <1>3, LinksHold, PTL DEF Spec, TypesInv


-----------------------------------------------------------------------------
\* The sparklines of the rows

Sample == [ts : Int, value : Int]

\* A spark of two points or more begins with the opening value and ends with the
\* present one.
LEMMA SparkEnds ==
    ASSUME NEW points \in Seq(Sample),
           NEW start, NEW end, NEW open, NEW value
    PROVE  LET spark == BucketSpark(points, start, end, open, value)
           IN  /\ \E S : spark \in Seq(S)
               /\ Len(spark) \in Nat
               /\ Len(spark) >= 2 => /\ spark[1].value = open
                                     /\ spark[Len(spark)].value = value
<1> DEFINE width == Max({Max({end - start, 1}) \div MaxSpark, 1})
           Index(p) == Min({(p.ts - start) \div width, MaxSpark - 1})
           K == {i \in DOMAIN points :
                    \A q \in ToSet(points) : Index(q) = Index(points[i]) => q.ts <= points[i].ts}
           ends == Kept(points, K)
           spark == BucketSpark(points, start, end, open, value)
<1>1. spark = IF points = <<>>
                THEN <<[ts |-> start, value |-> open], [ts |-> end, value |-> value]>>
                ELSE [[ends EXCEPT ![1].value = open] EXCEPT ![Len(ends)].value = value]
    BY DEF BucketSpark, Filter
<1>2. CASE points = <<>>
    <2>1. spark = <<[ts |-> start, value |-> open], [ts |-> end, value |-> value]>>
        BY <1>1, <1>2
    <2> HIDE DEF spark
    <2>2. PICK S : spark \in Seq(S)
        <3>1. spark \in Seq({[ts |-> start, value |-> open], [ts |-> end, value |-> value]})
            BY <2>1
        <3> QED BY <3>1
    <2>3. Len(spark) = 2 /\ spark[1].value = open /\ spark[2].value = value
        BY <2>1
    <2> QED BY <2>2, <2>3 DEF spark
<1>3. CASE points # <<>>
    <2>1. ends \in Seq(Sample)
        <3>1. K \in SUBSET DOMAIN points
            OBVIOUS
        <3> HIDE DEF K
        <3> QED BY <3>1, KeptFacts
    <2>2. PICK n \in Nat : /\ n = Len(ends) /\ DOMAIN ends = 1..n
                           /\ \A i \in 1..n : ends[i] \in Sample
        BY <2>1, LenProperties, ElementOfSeq
    <2> HIDE DEF ends
    <2>3. spark = [[ends EXCEPT ![1].value = open] EXCEPT ![n].value = value]
        BY <1>1, <1>3, <2>2
    <2> HIDE DEF spark
    <2>4. PICK S : spark \in [1..n -> S]
        <3>1. DOMAIN spark = 1..n /\ spark = [i \in DOMAIN spark |-> spark[i]]
            BY <2>2, <2>3
        <3>2. spark \in [1..n -> {spark[i] : i \in 1..n}]
            BY <3>1
        <3> QED BY <3>2
    <2>5. spark \in Seq(S) /\ Len(spark) = n
        BY <2>4
    <2>6. ASSUME n >= 2
          PROVE  spark[1].value = open /\ spark[n].value = value
        <3>1. PICK mid : mid = [ends EXCEPT ![1].value = open]
            OBVIOUS
        <3>2. 1 \in 1..n /\ n \in 1..n /\ 1 # n
            BY <2>6
        <3>3. /\ DOMAIN mid = 1..n
              /\ mid[n] = ends[n] /\ mid[1] = [ends[1] EXCEPT !.value = open]
            BY <2>2, <3>1, <3>2
        <3>4. spark = [mid EXCEPT ![n].value = value]
            BY <2>3, <3>1
        <3>5. spark[1] = mid[1] /\ spark[n] = [ends[n] EXCEPT !.value = value]
            BY <3>2, <3>3, <3>4
        <3>6. ends[1] \in Sample /\ ends[n] \in Sample
            BY <2>2, <3>2
        <3> QED BY <3>3, <3>5, <3>6 DEF Sample
    <2> QED BY <2>5, <2>6 DEF spark
<1> QED BY <1>2, <1>3

\* What a row's spark is made from.
Sparks(x, t) ==
    \E points \in Seq(Sample) : \E start :
        /\ x.spark = BucketSpark(points, start, t, x.open, x.value)
        /\ x.change = x.value - x.open

LEMMA SparkPoints ==
    ASSUME NEW k \in Keys, NEW r \in Ranges, NEW t \in 0..MaxClock,
           NEW rows \in 0..MaxClock, NEW polls \in 0..MaxClock,
           NEW x, x = Metric(k, r, t, rows, polls)
    PROVE  Sparks(x, t)
<1> DEFINE all   == Samples[k]
           first == all[1]
           start == RangeStart(r, t, first.ts)
           early == {i \in DOMAIN all : all[i].ts <= start}
           Later(after) == {i \in DOMAIN all : all[i].ts > after /\ all[i].ts <= t}
           carry  == IF Kept(all, early) = <<>> THEN <<>>
                     ELSE <<[ts |-> start, value |-> Last(Kept(all, early)).value]>>
           points == IF start < first.ts THEN <<first>> \o Kept(all, Later(first.ts))
                     ELSE carry \o Kept(all, Later(start))
<1>1. /\ x.spark = BucketSpark(points, start, t, x.open, x.value)
      /\ x.change = x.value - x.open
    BY DEF Metric, History, Between, Filter
<1>2. all \in Seq(Sample) /\ all # <<>>
    <2>1. all \in Seq(Point) /\ all # <<>>
        BY ScriptAssumption DEF Point
    <2> HIDE DEF all
    <2>2. PICK n \in Nat : all \in [1..n -> Point]
        BY <2>1
    <2>3. Point \subseteq Sample
        BY DEF Point, Sample
    <2>4. all \in [1..n -> Sample]
        BY <2>2, <2>3
    <2> QED BY <2>1, <2>4
<1>3. first \in Sample /\ first.ts \in Int
    <2> HIDE DEF all
    <2>1. first \in Sample
        BY <1>2, EmptySeq, LenProperties, ElementOfSeq
    <2> QED BY <2>1 DEF Sample
<1>4. start \in Int
    BY <1>3, ScriptAssumption DEF RangeStart
<1> HIDE DEF all, start, first
<1>5. \A after : Kept(all, Later(after)) \in Seq(Sample)
    <2> SUFFICES ASSUME NEW after PROVE Kept(all, Later(after)) \in Seq(Sample)
        OBVIOUS
    <2>1. Later(after) \in SUBSET DOMAIN all
        OBVIOUS
    <2> HIDE DEF Later
    <2> QED BY <1>2, <2>1, KeptFacts
<1>6. carry \in Seq(Sample)
    <2>1. Kept(all, early) \in Seq(Sample)
        <3>1. early \in SUBSET DOMAIN all
            OBVIOUS
        <3> HIDE DEF early
        <3> QED BY <1>2, <3>1, KeptFacts
    <2>2. CASE Kept(all, early) = <<>>
        BY <2>2
    <2>3. CASE Kept(all, early) # <<>>
        <3> HIDE DEF early
        <3>1. Last(Kept(all, early)) \in Sample
            BY <2>1, <2>3, EmptySeq, LenProperties, ElementOfSeq DEF Last
        <3>2. [ts |-> start, value |-> Last(Kept(all, early)).value] \in Sample
            BY <1>4, <3>1 DEF Sample
        <3> QED BY <2>3, <3>2
    <2> QED BY <2>2, <2>3
<1>7. points \in Seq(Sample)
    <2>1. <<first>> \in Seq(Sample)
        BY <1>3
    <2> HIDE DEF carry, Later
    <2>2. <<first>> \o Kept(all, Later(first.ts)) \in Seq(Sample)
        BY <1>5, <2>1, ConcatProperties
    <2>3. carry \o Kept(all, Later(start)) \in Seq(Sample)
        BY <1>5, <1>6, ConcatProperties
    <2> QED BY <2>2, <2>3
<1> HIDE DEF points
<1> QED BY <1>1, <1>7 DEF Sparks

LEMMA SparkRises ==
    ASSUME NEW points \in Seq(Sample), NEW start, NEW end, NEW open, NEW value
    PROVE  LET path == Sparkline(BucketSpark(points, start, end, open, value))
           IN path # <<>> =>
                 /\ Last(path).value - Head(path).value = value - open
                 /\ \A i \in 2..Len(path) :
                       path[i].ts = path[i - 1].ts \/ path[i].value = path[i - 1].value
<1>1. PICK spark : spark = BucketSpark(points, start, end, open, value)
    OBVIOUS
<1>2. PICK S : spark \in Seq(S)
    BY <1>1, SparkEnds
<1>3. /\ Len(spark) \in Nat
      /\ Len(spark) >= 2 => spark[1].value = open /\ spark[Len(spark)].value = value
    BY <1>1, SparkEnds
<1>4. CASE Len(spark) < 2
    BY <1>1, <1>4 DEF Sparkline
<1>5. CASE Len(spark) >= 2
    BY <1>1, <1>2, <1>3, <1>5, SparklineSteps
<1> QED BY <1>3, <1>4, <1>5

LEMMA SparksOfAnswer ==
    ASSUME Kinds
    PROVE  answer # Nothing => SparksAgree
<1> SUFFICES ASSUME answer # Nothing, NEW x \in ToSet(MetricsOf(answer))
             PROVE  LET path == Sparkline(x.spark)
                    IN path # <<>> =>
                          /\ Last(path).value - Head(path).value = x.change
                          /\ \A i \in 2..Len(path) :
                                \/ path[i].ts = path[i - 1].ts
                                \/ path[i].value = path[i - 1].value
    BY DEF SparksAgree
<1>1. answer \in Answer
    BY DEF Kinds
<1>2. PICK k \in Keys : x = Metric(k, answer.range, answer.at, answer.rows, answer.polls)
    BY <1>1, PageOfAnswer, ServedKeys
<1>3. /\ answer.range \in Ranges /\ answer.at \in 0..MaxClock
      /\ answer.rows \in 0..MaxClock /\ answer.polls \in 0..MaxClock
    BY <1>1, PageOfAnswer
<1>4. PICK points \in Seq(Sample) : \E start :
         /\ x.spark = BucketSpark(points, start, answer.at, x.open, x.value)
         /\ x.change = x.value - x.open
    <2>1. PICK r \in Ranges, t \in 0..MaxClock : r = answer.range /\ t = answer.at
        BY <1>3
    <2>2. PICK rows \in 0..MaxClock, polls \in 0..MaxClock :
             rows = answer.rows /\ polls = answer.polls
        BY <1>3
    <2>3. x = Metric(k, r, t, rows, polls)
        BY <1>2, <2>1, <2>2
    <2>4. Sparks(x, t)
        BY <2>3, SparkPoints
    <2> QED BY <2>1, <2>4 DEF Sparks
<1> QED BY <1>4, SparkRises


-----------------------------------------------------------------------------
\* The bars add up

\* The differences of neighbours add up to the difference of the ends.
LEMMA TotalTelescopes ==
    ASSUME NEW bars, NEW n \in Nat, NEW v \in [0..n -> Int],
           n = Len(bars),
           \A i \in 1..n : bars[i].change = v[i] - v[i - 1]
    PROVE  Total(bars) = v[n] - v[0]
<1> DEFINE Sums(f) == [c \in 0..n |-> IF c = 0 THEN 0 ELSE f[c - 1] + bars[c].change]
           upTo    == CHOOSE f : f = Sums(f)
           rise    == [c \in 0..n |-> v[c] - v[0]]
<1>1. Total(bars) = upTo[n]
    BY DEF Total
<1>2. \A c \in 0..n : v[c] \in Int
    OBVIOUS
<1>3. rise = Sums(rise)
    <2>1. ASSUME NEW c \in 0..n
          PROVE  rise[c] = Sums(rise)[c]
        <3>1. CASE c = 0
            BY <1>2, <3>1
        <3>2. CASE c # 0
            <4>1. c \in 1..n /\ c - 1 \in 0..n
                BY <3>2
            <4>2. bars[c].change = v[c] - v[c - 1] /\ rise[c - 1] = v[c - 1] - v[0]
                BY <4>1
            <4>3. v[c] - v[0] = (v[c - 1] - v[0]) + (v[c] - v[c - 1])
                BY <1>2, <4>1
            <4> QED BY <3>2, <4>2, <4>3
        <3> QED BY <3>1, <3>2
    <2> QED BY <2>1
<1>4. upTo = Sums(upTo)
    <2> HIDE DEF Sums, rise
    <2> QED BY <1>3
<1>5. \A c \in 0..n : upTo[c] = IF c = 0 THEN 0 ELSE upTo[c - 1] + bars[c].change
    <2> HIDE DEF upTo
    <2> QED BY <1>4
<1>6. \A c \in 0..n : rise[c] = IF c = 0 THEN 0 ELSE rise[c - 1] + bars[c].change
    <2> HIDE DEF rise
    <2> QED BY <1>3
<1>7. upTo[n] = rise[n]
    <2> DEFINE wrong == {c \in 0..n : upTo[c] # rise[c]}
    <2> SUFFICES ASSUME upTo[n] # rise[n] PROVE FALSE
        OBVIOUS
    <2> HIDE DEF upTo, rise
    <2>1. wrong \in SUBSET Nat /\ wrong # {}
        <3>1. n \in wrong
            OBVIOUS
        <3>2. \A c \in wrong : c \in Nat
            OBVIOUS
        <3> HIDE DEF wrong
        <3> QED BY <3>1, <3>2
    <2>2. PICK c \in wrong : \A l \in wrong : c <= l
        <3> HIDE DEF wrong
        <3> QED BY <2>1, LeastElement
    <2>3. c \in 0..n /\ upTo[c] # rise[c]
        BY <2>2
    <2>4. c # 0
        BY <1>5, <1>6, <2>3
    <2>5. c - 1 \in 0..n /\ c - 1 \notin wrong
        BY <2>2, <2>3, <2>4
    <2>6. upTo[c - 1] = rise[c - 1]
        BY <2>5
    <2> QED BY <1>5, <1>6, <2>3, <2>4, <2>6
<1>8. rise[n] = v[n] - v[0]
    OBVIOUS
<1> QED BY <1>1, <1>7, <1>8

\* The last point is kept, being the newest of its bucket.
LEMMA BucketsAddUp ==
    ASSUME NEW points \in Points, Len(points) > 1, Ordered(points), NEW width \in Nat \ {0}
    PROVE  Total(BucketChanges(points, width)) = Last(points).value - Head(points).value
<1> DEFINE Index(p)  == (p.ts - points[1].ts) \div width
           K == {i \in DOMAIN points :
                    \A q \in ToSet(points) : Index(q) = Index(points[i]) => q.ts <= points[i].ts}
           ends == Kept(points, K)
           Before(i) == IF i = 1 THEN points[1].value ELSE ends[i - 1].value
           bars == BucketChanges(points, width)
<1>1. bars = [i \in DOMAIN ends |->
                 [ts     |-> points[1].ts + Index(ends[i]) * width,
                  change |-> ends[i].value - Before(i)]]
    <2>1. bars = IF Len(points) < 2 THEN <<>>
                 ELSE [i \in DOMAIN ends |->
                         [ts     |-> points[1].ts + Index(ends[i]) * width,
                          change |-> ends[i].value - Before(i)]]
        BY DEF BucketChanges, Filter
    <2>2. Len(points) \in Nat
        BY DEF Points
    <2> HIDE DEF bars, ends, Index, Before
    <2> QED BY <2>1, <2>2
<1>2. PICK l \in Nat : /\ l = Len(points) /\ l > 1 /\ DOMAIN points = 1..l
                       /\ \A i \in 1..l : points[i] \in Point /\ points[i].ts \in Nat
                       /\ Head(points) = points[1] /\ Last(points) = points[l]
    <2>1. points # <<>>
        OBVIOUS
    <2> QED BY <2>1, PointFacts
<1>3. points \in Seq(Point)
    BY DEF Points
<1>4. l \in K
    <2> SUFFICES ASSUME NEW q \in ToSet(points) PROVE q.ts <= points[l].ts
        BY <1>2
    <2>1. PICK i \in 1..l : q = points[i]
        BY <1>2 DEF ToSet
    <2>2. i = l \/ i < l
        BY <1>2
    <2> QED BY <1>2, <2>1, <2>2 DEF Ordered
<1>5. K \in SUBSET DOMAIN points
    OBVIOUS
<1> HIDE DEF K, Index
<1>6. /\ ends \in Seq(Point) /\ ends # <<>> /\ Last(ends) = points[l]
    BY <1>2, <1>3, <1>4, <1>5, KeptFacts, KeptLast
<1> HIDE DEF ends
<1>7. PICK n \in Nat : /\ n >= 1 /\ n = Len(ends) /\ DOMAIN ends = 1..n
                       /\ \A i \in 1..n : ends[i] \in Point
                       /\ ends[n] = points[l]
    BY <1>6, EmptySeq, LenProperties, ElementOfSeq DEF Last
<1> DEFINE v == [i \in 0..n |-> IF i = 0 THEN points[1].value ELSE ends[i].value]
<1>8. v \in [0..n -> Int]
    <2>1. \A i \in 0..n : v[i] \in Int
        BY <1>2, <1>7 DEF Point
    <2> QED BY <2>1
<1>9. n = Len(bars)
    <2> HIDE DEF Before
    <2>1. PICK S : bars \in [1..n -> S]
        <3>1. bars \in [1..n -> {bars[i] : i \in 1..n}]
            BY <1>1, <1>7
        <3> QED BY <3>1
    <2> QED BY <2>1
<1>10. \A i \in 1..n : bars[i].change = v[i] - v[i - 1]
    <2> SUFFICES ASSUME NEW i \in 1..n PROVE bars[i].change = v[i] - v[i - 1]
        OBVIOUS
    <2>1. bars[i].change = ends[i].value - Before(i)
        BY <1>1, <1>7
    <2>2. i \in 0..n /\ i - 1 \in 0..n /\ (i - 1 = 0 <=> i = 1)
        OBVIOUS
    <2>3. v[i] = ends[i].value /\ v[i - 1] = Before(i)
        BY <2>2
    <2> QED BY <2>1, <2>3
<1>11. v[n] = points[l].value /\ v[0] = points[1].value
    BY <1>7
<1> HIDE DEF v, bars
<1>12. Total(bars) = v[n] - v[0]
    <2>1. PICK w : w = v
        OBVIOUS
    <2>2. PICK b : b = bars
        OBVIOUS
    <2>3. w \in [0..n -> Int] /\ n = Len(b) /\ \A i \in 1..n : b[i].change = w[i] - w[i - 1]
        BY <1>8, <1>9, <1>10, <2>1, <2>2
    <2>4. Total(b) = w[n] - w[0]
        BY <2>3, TotalTelescopes
    <2> QED BY <2>1, <2>2, <2>4
<1> QED BY <1>2, <1>11, <1>12 DEF bars


\* Part of FiguresAgree.  Whatever chart is drawn of two points or more, the bars
\* that the server computed for the strip add up to the rise of the line, both
\* ends of which are the server's first and last point (api.py, chart.js).
THEOREM BarsSumToLine == Spec => []BarsAddUp
<1>1. DrawnInv => BarsAddUp
    <2> SUFFICES ASSUME DrawnInv, drawn # Nothing, Len(DrawnPoints) > 1
                 PROVE  Total(DrawnBars) = Last(DrawnPoints).value - Head(DrawnPoints).value
        BY DEF BarsAddUp
    <2>1. /\ drawn \in Drawing
          /\ drawn.key \in Keys /\ drawn.range \in Ranges /\ drawn.at \in 0..MaxClock
        BY DEF DrawnInv, Drawing
    <2>2. DrawnPoints \in Points /\ Ordered(DrawnPoints)
        BY <2>1, PointsAreServed, ServedInOrder DEF DrawnPoints
    <2>3. DrawnBars = BucketChanges(DrawnPoints, BucketOf[drawn.range])
        BY <2>1 DEF DrawnBars, Strips, BarsServed, DrawnPoints, Histories
    <2>4. BucketOf[drawn.range] \in Nat \ {0}
        BY <2>1, ScriptAssumption
    <2> QED BY <2>2, <2>3, <2>4, BucketsAddUp
<1> QED BY <1>1, LinksHold, PTL DEF TypesInv


-----------------------------------------------------------------------------
\* The latest changes

\* A list of all elements of a finite set, without repetition, newest first.
Listing(C, list) ==
    /\ list \in [1..Cardinality(C) -> C]
    /\ IsInjective(list)
    /\ \A i, j \in DOMAIN list : i < j => list[i].ts >= list[j].ts

\* There is one: the oldest element follows a list of the others.
LEMMA ListingExists ==
    ASSUME NEW C, IsFiniteSet(C), \A c \in C : c.ts \in Nat
    PROVE  \E list : Listing(C, list)
<1> DEFINE Listed(S) == \E list : Listing(S, list)
           unlisted == {n \in Nat : \E S \in SUBSET C : Cardinality(S) = n /\ ~Listed(S)}
<1>1. \A S \in SUBSET C : IsFiniteSet(S) /\ Cardinality(S) \in Nat
    BY FS_Subset, FS_CardinalityType
<1>2. unlisted = {}
    <2> SUFFICES ASSUME unlisted # {} PROVE FALSE
        OBVIOUS
    <2>1. unlisted \in SUBSET Nat
        OBVIOUS
    <2>2. PICK n \in unlisted : \A y \in unlisted : n <= y
        <3> HIDE DEF unlisted
        <3> QED BY <2>1, LeastElement
    <2>3. n \in Nat
        OBVIOUS
    <2>4. PICK S \in SUBSET C : Cardinality(S) = n /\ ~Listed(S)
        <3> HIDE DEF Listed
        <3> QED OBVIOUS
    <2>5. S # {}
        <3> SUFFICES ASSUME S = {} PROVE FALSE
            OBVIOUS
        <3>1. 1..Cardinality(S) = {}
            BY FS_EmptySet
        <3>2. Listing(S, <<>>)
            BY <3>1 DEF Listing, IsInjective
        <3> QED BY <2>4, <3>2
    <2>6. PICK x \in S : \A c \in S : x.ts <= c.ts
        <3> DEFINE times == {c.ts : c \in S}
        <3>1. times \in SUBSET Nat /\ times # {}
            BY <2>5
        <3> HIDE DEF times
        <3>2. Min(times) \in times /\ \A t \in times : Min(times) <= t
            BY <3>1, LeastElement
        <3>3. PICK x \in S : Min(times) = x.ts
            BY <3>2 DEF times
        <3>4. \A c \in S : c.ts \in times
            BY DEF times
        <3> QED BY <3>2, <3>3, <3>4
    <2>7. /\ S \ {x} \in SUBSET C /\ Cardinality(S \ {x}) = n - 1 /\ n - 1 \in Nat
          /\ n \in 1..n /\ 1..n = 1..(n - 1) \union {n}
        <3>1. Cardinality(S \ {x}) = n - 1 /\ Cardinality(S \ {x}) \in Nat
            BY <1>1, <2>4, FS_RemoveElement
        <3>2. n >= 1
            BY <2>3, <3>1
        <3> QED BY <2>3, <3>1, <3>2
    <2>8. Listed(S \ {x})
        <3>1. n - 1 \notin unlisted
            <4> HIDE DEF unlisted
            <4> QED BY <2>2, <2>3, <2>7
        <3> HIDE DEF Listed
        <3> QED BY <2>7, <3>1
    <2>9. PICK list : Listing(S \ {x}, list)
        BY <2>8
    <2>10. /\ list \in [1..(n - 1) -> S \ {x}]
           /\ \A i, j \in 1..(n - 1) : list[i] = list[j] => i = j
           /\ \A i, j \in 1..(n - 1) : i < j => list[i].ts >= list[j].ts
        BY <2>7, <2>9 DEF Listing, IsInjective
    <2> DEFINE longer == [i \in 1..n |-> IF i = n THEN x ELSE list[i]]
    <2>11. /\ longer[n] = x
           /\ \A i \in 1..(n - 1) : i \in 1..n /\ longer[i] = list[i] /\ longer[i] \in S \ {x}
        BY <2>3, <2>7, <2>10
    <2>12. longer \in [1..n -> S] /\ DOMAIN longer = 1..n
        BY <2>7, <2>10
    <2> HIDE DEF longer
    <2>13. \A i, j \in 1..n : longer[i] = longer[j] => i = j
        BY <2>7, <2>10, <2>11
    <2>14. ASSUME NEW i \in 1..n, NEW j \in 1..n, i < j
           PROVE  longer[i].ts >= longer[j].ts
        <3>1. i \in 1..(n - 1)
            BY <2>3, <2>14
        <3>2. CASE j = n
            <4>1. longer[i] \in S /\ longer[i].ts \in Nat /\ x.ts \in Nat
                BY <2>11, <3>1
            <4> QED BY <2>6, <2>11, <3>2, <4>1
        <3>3. CASE j # n
            <4>1. j \in 1..(n - 1)
                BY <2>3, <3>3
            <4> QED BY <2>10, <2>11, <2>14, <3>1, <4>1
        <3> QED BY <3>2, <3>3
    <2>15. Listing(S, longer)
        BY <2>4, <2>12, <2>13, <2>14 DEF Listing, IsInjective
    <2> QED BY <2>4, <2>15
<1>3. Cardinality(C) \notin unlisted
    BY <1>2
<1> HIDE DEF Listed
<1>4. Listed(C)
    BY <1>1, <1>3
<1> QED BY <1>4 DEF Listed

\* The list leaves nothing out.
LEMMA ListingIsWhole ==
    ASSUME NEW C, IsFiniteSet(C), NEW list, Listing(C, list)
    PROVE  \A c \in C : \E i \in 1..Cardinality(C) : list[i] = c
<1> DEFINE n == Cardinality(C)
<1>1. n \in Nat
    BY FS_CardinalityType
<1>2. IsFiniteSet(1..n) /\ Cardinality(1..n) = n
    BY <1>1, FS_Interval
<1>3. list \in Injection(1..n, C)
    BY DEF Listing, Injection
<1>4. list \in Surjection(1..n, C)
    BY <1>2, <1>3, FS_Injection
<1> QED BY <1>4 DEF Surjection


\* What RecentSelect takes of a listing: as many as it may, and none that is
\* older than one it leaves.
LEMMA TopOfListing ==
    ASSUME NEW C, IsFiniteSet(C), \A c \in C : c.ts \in Nat,
           NEW list, Listing(C, list), NEW limit \in Nat
    PROVE  LET taken == SubSeq(list, 1, Min({limit, Len(list)}))
           IN  /\ taken \in Seq(C) /\ ToSet(taken) \subseteq C
               /\ Len(taken) = Min({limit, Cardinality(C)})
               /\ Cardinality(ToSet(taken)) = Len(taken)
               /\ \A c \in ToSet(taken), d \in C \ ToSet(taken) : c.ts >= d.ts
<1> DEFINE n == Cardinality(C)
           k == Min({limit, n})
           taken == SubSeq(list, 1, k)
<1>1. n \in Nat
    BY FS_CardinalityType
<1>2. /\ list \in [1..n -> C]
      /\ \A i, j \in 1..n : list[i] = list[j] => i = j
      /\ \A i, j \in 1..n : i < j => list[i].ts >= list[j].ts
    BY DEF Listing, IsInjective
<1>3. \A c \in C : \E i \in 1..n : list[i] = c
    BY ListingIsWhole
<1> HIDE DEF n
<1>4. list \in Seq(C) /\ Len(list) = n
    BY <1>1, <1>2
<1>5. k \in Nat /\ k <= n
    BY <1>1, LesserOfTwo
<1> HIDE DEF k
<1>6. /\ taken \in Seq(C) /\ Len(taken) = k /\ DOMAIN taken = 1..k
      /\ \A i \in 1..k : i \in 1..n /\ taken[i] = list[i]
    BY <1>1, <1>2, <1>4, <1>5
<1> HIDE DEF taken
<1>7. ToSet(taken) = {list[i] : i \in 1..k} /\ ToSet(taken) \subseteq C
    BY <1>2, <1>6 DEF ToSet
<1>8. Cardinality(ToSet(taken)) = k
    <2>1. taken \in [1..k -> ToSet(taken)]
        BY <1>6, <1>7
    <2>2. taken \in Injection(1..k, ToSet(taken))
        BY <1>2, <1>6, <2>1 DEF Injection, IsInjective
    <2>3. taken \in Surjection(1..k, ToSet(taken))
        BY <1>6, <2>1 DEF Surjection, ToSet
    <2>4. IsFiniteSet(1..k) /\ Cardinality(1..k) = k
        BY <1>5, FS_Interval
    <2>5. Cardinality(ToSet(taken)) = Cardinality(1..k)
        BY <2>2, <2>3, <2>4, FS_Surjection
    <2> QED BY <2>4, <2>5
<1>9. ASSUME NEW c \in ToSet(taken), NEW d \in C \ ToSet(taken)
      PROVE  c.ts >= d.ts
    <2>1. PICK i \in 1..k : c = list[i]
        BY <1>7
    <2>2. PICK j \in 1..n : d = list[j]
        BY <1>3
    <2>3. j \notin 1..k
        BY <1>7, <2>2
    <2>4. i \in 1..n /\ i < j
        BY <1>1, <1>5, <2>3
    <2> QED BY <1>2, <2>1, <2>2, <2>4
<1>10. taken = SubSeq(list, 1, Min({limit, Len(list)})) /\ k = Min({limit, Cardinality(C)})
    BY <1>4 DEF taken, k, n
<1> QED BY <1>6, <1>7, <1>8, <1>9, <1>10

\* Indexes without a gap: what is kept is a piece of the sequence.
LEMMA KeptPiece ==
    ASSUME NEW T, NEW s \in Seq(T), NEW a \in Nat \ {0}, a <= Len(s) + 1
    PROVE  /\ Kept(s, a..Len(s)) \in Seq(T)
           /\ Len(Kept(s, a..Len(s))) = Len(s) - a + 1
           /\ \A i \in a..Len(s) : Kept(s, a..Len(s))[i - a + 1] = s[i]
<1> DEFINE K == a..Len(s)
<1>1. Len(s) \in Nat /\ K \in SUBSET DOMAIN s /\ a \in Int /\ Len(s) \in Int
    OBVIOUS
<1>2. Cardinality(K) = Len(s) - a + 1 /\ Cardinality(K) \in Nat
    <2>1. Cardinality(a..Len(s)) = IF a > Len(s) THEN 0 ELSE Len(s) - a + 1
        BY <1>1, FS_Interval
    <2> QED BY <1>1, <2>1
<1>3. ASSUME NEW i \in K
      PROVE  Rank(K, i) = i - a + 1
    <2>1. {j \in K : j <= i} = a..i
        BY <1>1
    <2>2. i \in Int /\ i >= a
        BY <1>1
    <2>3. Cardinality(a..i) = i - a + 1
        BY <1>1, <2>2, FS_Interval
    <2> QED BY <2>1, <2>3 DEF Rank
<1>4. Len(Kept(s, K)) = Cardinality(K)
    <2>1. Kept(s, K) = [n \in 1..Cardinality(K) |-> s[CHOOSE i \in K : Rank(K, i) = n]]
        BY DEF Kept, Rank
    <2>2. Kept(s, K) \in [1..Cardinality(K) -> {Kept(s, K)[n] : n \in 1..Cardinality(K)}]
        BY <2>1
    <2> QED BY <1>2, <2>2
<1> HIDE DEF K
<1>5. Kept(s, K) \in Seq(T) /\ \A i \in K : Kept(s, K)[Rank(K, i)] = s[i]
    BY <1>1, KeptFacts
<1> QED BY <1>2, <1>3, <1>4, <1>5 DEF K


\* What is stored by some second is in order.
LEMMA StoredFacts ==
    ASSUME NEW k \in Keys, NEW t \in Int
    PROVE  Stored(k, t) \in Seq(Point) /\ Ordered(Stored(k, t))
<1> DEFINE all == Samples[k]
           K   == {i \in DOMAIN all : all[i].ts > -1 /\ all[i].ts <= t}
<1>1. all \in Seq(Point) /\ \A i, j \in DOMAIN all : i < j => all[i].ts < all[j].ts
    BY ScriptAssumption DEF Point
<1>2. Stored(k, t) = Kept(all, K)
    BY DEF Stored, Between, Filter
<1>3. K \in SUBSET DOMAIN all
    OBVIOUS
<1> HIDE DEF all, K
<1>4. Kept(all, K) \in Seq(Point)
    BY <1>1, <1>3, KeptFacts
<1>5. ASSUME NEW a \in 1..Len(Kept(all, K)), NEW b \in 1..Len(Kept(all, K)), a < b
      PROVE  Kept(all, K)[a].ts < Kept(all, K)[b].ts
    <2>1. \E i, j \in K : i < j /\ Kept(all, K)[a] = all[i] /\ Kept(all, K)[b] = all[j]
        BY <1>1, <1>3, <1>5, KeptOrder
    <2> QED BY <1>1, <1>3, <2>1
<1> QED BY <1>2, <1>4, <1>5 DEF Ordered

\* The changes of a metric are as many as its samples at most, at their times.
LEMMA ChangesFacts ==
    ASSUME NEW k \in Keys, NEW s \in Seq(Point)
    PROVE  /\ IsFiniteSet(Changes(k, s))
           /\ \A c \in Changes(k, s) : c.key = k /\ c.ts \in Nat
<1> DEFINE At(i) == [key |-> k, ts |-> s[i].ts, change |-> s[i].value - s[i - 1].value]
           some == {i \in 2..Len(s) : At(i).change # 0}
           f    == [i \in some |-> At(i)]
<1>1. Len(s) \in Nat /\ \A i \in 1..Len(s) : s[i] \in Point
    OBVIOUS
<1>2. Changes(k, s) = {At(i) : i \in some}
    BY DEF Changes
<1>3. IsFiniteSet(some)
    <2>1. IsFiniteSet(2..Len(s))
        BY <1>1, FS_Interval
    <2>2. some \in SUBSET (2..Len(s))
        OBVIOUS
    <2> HIDE DEF some
    <2> QED BY <2>1, <2>2, FS_Subset
<1>4. ASSUME NEW i \in some
      PROVE  At(i).key = k /\ At(i).ts \in Nat
    <2>1. i \in 1..Len(s)
        BY <1>1
    <2> QED BY <1>1, <2>1 DEF Point
<1> HIDE DEF some, At
<1>5. f \in Surjection(some, Changes(k, s))
    BY <1>2 DEF Surjection
<1> HIDE DEF f
<1>6. IsFiniteSet(Changes(k, s))
    BY <1>3, <1>5, FS_Surjection
<1> QED BY <1>2, <1>4, <1>6

\* A window shows the changes of a metric after its beginning, each of them and
\* no other: the sample before it is there to compare the first one with.
LEMMA ChangesInWindow ==
    ASSUME NEW k \in Keys, NEW t \in Int, NEW since \in Int
    PROVE  Changes(k, InWindow(k, since, t)) = {c \in Changes(k, Stored(k, t)) : c.ts > since}
<1>1. PICK s \in Seq(Point) : s = Stored(k, t) /\ Ordered(s)
    BY StoredFacts
<1>2. PICK n \in Nat : /\ n = Len(s) /\ DOMAIN s = 1..n
                       /\ \A i \in 1..n : s[i].ts \in Nat
    <2>1. Len(s) \in Nat /\ DOMAIN s = 1..Len(s) /\ \A i \in 1..Len(s) : s[i] \in Point
        OBVIOUS
    <2>2. \A p \in Point : p.ts \in Nat
        BY DEF Point
    <2> QED BY <2>1, <2>2
<1>3. \A i, j \in 1..n : i < j => s[i].ts < s[j].ts
    BY <1>1, <1>2 DEF Ordered
<1> DEFINE early  == {i \in 1..n : s[i].ts <= since}
           anchor == Anchor(k, since, t)
           K      == {i \in 1..n : s[i].ts >= anchor}
<1>4. anchor = IF Kept(s, early) = <<>> THEN since ELSE Last(Kept(s, early)).ts
    BY <1>1, <1>2 DEF Anchor, Filter
<1>5. InWindow(k, since, t) = Kept(s, K)
    BY <1>1, <1>2 DEF InWindow, Filter
<1>6. \E a \in 1..(n + 1) :
          /\ K = a..n
          /\ \A i \in 2..n : i > a <=> s[i].ts > since
    <2>1. early \in SUBSET DOMAIN s /\ early \in SUBSET Nat
        BY <1>2
    <2>2. Kept(s, early) \in Seq(Point) /\ (Len(Kept(s, early)) = 0 <=> early = {})
        <3> HIDE DEF early
        <3> QED BY <2>1, KeptFacts
    <2>3. CASE early = {}
        <3>1. anchor = since
            BY <1>4, <2>2, <2>3
        <3>2. K = 1..n
            BY <1>2, <2>3, <3>1
        <3>3. \A i \in 2..n : i > 1 <=> s[i].ts > since
            BY <1>2, <2>3
        <3>4. 1 \in 1..(n + 1)
            OBVIOUS
        <3> QED BY <3>2, <3>3, <3>4
    <2>4. CASE early # {}
        <3>1. IsFiniteSet(early)
            <4>1. IsFiniteSet(1..n)
                BY FS_Interval
            <4>2. early \in SUBSET (1..n)
                OBVIOUS
            <4> HIDE DEF early
            <4> QED BY <4>1, <4>2, FS_Subset
        <3>2. PICK b \in early : \A i \in early : i <= b
            <4> HIDE DEF early
            <4> QED BY <2>1, <2>4, <3>1, GreatestElement
        <3>3. b \in 1..n /\ s[b].ts <= since /\ \A i \in 1..n : s[i].ts <= since => i <= b
            BY <3>2
        <3>4. Kept(s, early) # <<>> /\ Last(Kept(s, early)) = s[b]
            <4> HIDE DEF early
            <4>1. Kept(s, early) # <<>>
                BY <2>2, <2>4
            <4>2. PICK l \in Nat : l = Len(Kept(s, early)) /\ l >= 1 /\ Last(Kept(s, early)) = Kept(s, early)[l]
                BY <2>2, <2>4, LenProperties DEF Last
            <4>3. PICK i \in early : Kept(s, early)[l] = s[i] /\ Rank(early, i) = l
                BY <2>1, <4>2, KeptFacts
            <4>4. Rank(early, b) \in 1..l
                BY <2>1, <3>2, <4>2, KeptFacts
            <4>5. i < b => Rank(early, i) < Rank(early, b)
                BY <2>1, <3>1, <3>2, RankFacts
            <4>6. i \in Nat /\ b \in Nat
                BY <2>1, <3>2
            <4>7. i = b
                BY <3>2, <4>2, <4>3, <4>4, <4>5, <4>6
            <4> QED BY <4>1, <4>2, <4>3, <4>7
        <3>5. anchor = s[b].ts
            BY <1>4, <3>4
        <3> HIDE DEF anchor, early
        <3>6. \A i \in 1..n : s[i].ts >= s[b].ts <=> i >= b
            <4> SUFFICES ASSUME NEW i \in 1..n PROVE s[i].ts >= s[b].ts <=> i >= b
                OBVIOUS
            <4>1. s[i].ts \in Nat /\ s[b].ts \in Nat /\ b \in Nat /\ i \in Nat
                BY <1>2, <3>3
            <4>2. /\ i < b => s[i].ts < s[b].ts
                  /\ b < i => s[b].ts < s[i].ts
                BY <1>3, <3>3
            <4>3. i = b => s[i].ts = s[b].ts
                OBVIOUS
            <4> QED BY <4>1, <4>2, <4>3
        <3>7. K = b..n
            <4>1. \A i \in 1..n : i \in K <=> i >= b
                BY <3>5, <3>6
            <4> QED BY <3>3, <4>1
        <3>8. ASSUME NEW i \in 2..n
              PROVE  i > b <=> s[i].ts > since
            <4>1. s[i].ts \in Nat /\ s[b].ts \in Nat
                BY <1>2, <3>3
            <4>2. i <= b => s[i].ts <= s[b].ts
                <5>1. i < b => s[i].ts < s[b].ts
                    BY <1>3, <3>3
                <5> QED BY <3>3, <4>1, <5>1
            <4> QED BY <3>3, <4>1, <4>2
        <3> QED BY <3>3, <3>7, <3>8
    <2> QED BY <2>3, <2>4
<1> HIDE DEF K, anchor, early
<1>7. PICK a \in 1..(n + 1) : K = a..n /\ \A i \in 2..n : i > a <=> s[i].ts > since
    BY <1>6
<1>8. PICK w : w = InWindow(k, since, t)
    OBVIOUS
<1>9. w \in Seq(Point) /\ Len(w) = n - a + 1 /\ \A i \in a..n : w[i - a + 1] = s[i]
    <2>1. a \in Nat \ {0} /\ a <= Len(s) + 1
        BY <1>2
    <2>2. w = Kept(s, a..Len(s)) /\ a..Len(s) = a..n
        BY <1>2, <1>5, <1>7, <1>8
    <2>3. /\ Kept(s, a..Len(s)) \in Seq(Point)
          /\ Len(Kept(s, a..Len(s))) = Len(s) - a + 1
          /\ \A i \in a..Len(s) : Kept(s, a..Len(s))[i - a + 1] = s[i]
        BY <2>1, KeptPiece
    <2> QED BY <1>2, <2>2, <2>3
<1> DEFINE At(x, i) == [key |-> k, ts |-> x[i].ts, change |-> x[i].value - x[i - 1].value]
<1>10. /\ Changes(k, w) = {At(w, i) : i \in {j \in 2..(n - a + 1) : At(w, j).change # 0}}
       /\ Changes(k, s) = {At(s, i) : i \in {j \in 2..n : At(s, j).change # 0}}
    BY <1>2, <1>9 DEF Changes
<1>11. \A j \in 2..(n - a + 1) : /\ j + a - 1 \in 2..n /\ j + a - 1 > a
                                 /\ At(w, j) = At(s, j + a - 1)
    <2> SUFFICES ASSUME NEW j \in 2..(n - a + 1)
                 PROVE  j + a - 1 \in 2..n /\ j + a - 1 > a /\ At(w, j) = At(s, j + a - 1)
        OBVIOUS
    <2>1. j + a - 1 \in a..n /\ j + a - 2 \in a..n /\ j + a - 1 \in 2..n /\ j + a - 1 > a
        OBVIOUS
    <2>2. /\ (j + a - 1) - a + 1 = j /\ (j + a - 2) - a + 1 = j - 1
          /\ (j + a - 1) - 1 = j + a - 2
        OBVIOUS
    <2>3. w[j] = s[j + a - 1] /\ w[j - 1] = s[j + a - 2]
        BY <1>9, <2>1, <2>2
    <2> QED BY <2>1, <2>2, <2>3
<1>12. \A i \in 2..n : i > a => i - a + 1 \in 2..(n - a + 1) /\ (i - a + 1) + a - 1 = i
    OBVIOUS
<1>13. \A i \in 2..n : At(s, i).ts = s[i].ts
    OBVIOUS
<1> HIDE DEF At
<1>14. ASSUME NEW c \in Changes(k, w)
       PROVE  c \in Changes(k, s) /\ c.ts > since
    <2>1. PICK j \in 2..(n - a + 1) : c = At(w, j) /\ At(w, j).change # 0
        BY <1>10
    <2>2. PICK i \in 2..n : i > a /\ c = At(s, i) /\ At(s, i).change # 0
        BY <1>11, <2>1
    <2> QED BY <1>7, <1>10, <1>13, <2>2
<1>15. ASSUME NEW c \in Changes(k, s), c.ts > since
       PROVE  c \in Changes(k, w)
    <2>1. PICK i \in 2..n : c = At(s, i) /\ At(s, i).change # 0
        BY <1>10
    <2>2. i > a
        BY <1>7, <1>13, <1>15, <2>1
    <2>3. PICK j \in 2..(n - a + 1) : j + a - 1 = i
        BY <1>12, <2>2
    <2>4. At(w, j) = At(s, i)
        BY <1>11, <2>3
    <2> QED BY <1>10, <2>1, <2>3, <2>4
<1> QED BY <1>1, <1>8, <1>14, <1>15


\* The changes of a window are those of all times that are newer than its
\* beginning.
LEMMA WindowOfChanges ==
    ASSUME NEW t \in Int, NEW since \in Int
    PROVE  LET all == UNION {Changes(k, Stored(k, t)) : k \in ToSet(Active(t))}
           IN  /\ ChangesSince(since, t) = {c \in all : c.ts > since}
               /\ IsFiniteSet(all)
               /\ \A c \in all : c.key \in ToSet(Active(t)) /\ c.ts \in Nat
<1> DEFINE A     == ToSet(Active(t))
           Of(k) == Changes(k, Stored(k, t))
           all   == UNION {Of(k) : k \in A}
<1>1. PICK active \in Seq(Keys) : active = Active(t)
    BY ActiveKeys
<1>2. A = {active[i] : i \in 1..Len(active)} /\ Len(active) \in Nat
    BY <1>1 DEF ToSet
<1>3. A \in SUBSET Keys
    BY <1>1, <1>2
<1> HIDE DEF A
<1>4. ASSUME NEW k \in A
      PROVE  IsFiniteSet(Of(k)) /\ \A c \in Of(k) : c.key = k /\ c.ts \in Nat
    <2>1. k \in Keys /\ Stored(k, t) \in Seq(Point)
        BY <1>3, StoredFacts
    <2> QED BY <2>1, ChangesFacts
<1>5. ASSUME NEW k \in A
      PROVE  Changes(k, InWindow(k, since, t)) = {c \in Of(k) : c.ts > since}
    BY <1>3, ChangesInWindow
<1>6. ChangesSince(since, t) = {c \in all : c.ts > since}
    <2>1. ChangesSince(since, t) = UNION {Changes(k, InWindow(k, since, t)) : k \in A}
        BY DEF ChangesSince, A
    <2> HIDE DEF Of
    <2> QED BY <1>5, <2>1
<1>7. IsFiniteSet(all)
    <2> DEFINE f == [i \in 1..Len(active) |-> Of(active[i])]
    <2> HIDE DEF Of
    <2>1. f \in Surjection(1..Len(active), {Of(k) : k \in A})
        BY <1>2 DEF Surjection
    <2>2. IsFiniteSet(1..Len(active))
        BY <1>2, FS_Interval
    <2> HIDE DEF f
    <2>3. IsFiniteSet({Of(k) : k \in A})
        BY <2>1, <2>2, FS_Surjection
    <2>4. \A S \in {Of(k) : k \in A} : IsFiniteSet(S)
        BY <1>4
    <2> QED BY <2>3, <2>4, FS_UNION
<1>8. \A c \in all : c.key \in A /\ c.ts \in Nat
    <2> HIDE DEF Of
    <2> QED BY <1>4
<1> QED BY <1>6, <1>7, <1>8 DEF A

\* What RecentSelect finds in a window.
LEMMA SelectedChanges ==
    ASSUME NEW t \in Int, NEW since \in Int
    PROVE  LET C     == ChangesSince(since, t)
               found == RecentSelect(since, t)
           IN  /\ found \in Seq(C) /\ ToSet(found) \subseteq C
               /\ Len(found) = Min({RecentLimit, Cardinality(C)})
               /\ Cardinality(ToSet(found)) = Len(found)
               /\ \A c \in ToSet(found), d \in C \ ToSet(found) : c.ts >= d.ts
<1>1. PICK C : C = ChangesSince(since, t)
    OBVIOUS
<1>2. IsFiniteSet(C) /\ \A c \in C : c.ts \in Nat
    <2>1. PICK all : /\ C = {c \in all : c.ts > since}
                     /\ IsFiniteSet(all) /\ \A c \in all : c.ts \in Nat
        BY <1>1, WindowOfChanges
    <2>2. C \in SUBSET all
        BY <2>1
    <2> QED BY <2>1, <2>2, FS_Subset
<1>3. PICK list : list = NewestFirst(C)
    OBVIOUS
<1>4. Listing(C, list)
    <2>1. \E l : Listing(C, l)
        BY <1>2, ListingExists
    <2>2. \E l \in [1..Cardinality(C) -> C] :
             /\ IsInjective(l)
             /\ \A i, j \in DOMAIN l : i < j => l[i].ts >= l[j].ts
        BY <2>1 DEF Listing
    <2>3. /\ list \in [1..Cardinality(C) -> C]
          /\ IsInjective(list)
          /\ \A i, j \in DOMAIN list : i < j => list[i].ts >= list[j].ts
        BY <1>3, <2>2 DEF NewestFirst
    <2> QED BY <2>3 DEF Listing
<1>5. PICK found : found = SubSeq(list, 1, Min({RecentLimit, Len(list)}))
    OBVIOUS
<1>6. found = RecentSelect(since, t)
    BY <1>1, <1>3, <1>5 DEF RecentSelect
<1>7. RecentLimit \in Nat
    BY ScriptAssumption
<1>8. /\ found \in Seq(C) /\ ToSet(found) \subseteq C
      /\ Len(found) = Min({RecentLimit, Cardinality(C)})
      /\ Cardinality(ToSet(found)) = Len(found)
      /\ \A c \in ToSet(found), d \in C \ ToSet(found) : c.ts >= d.ts
    <2>1. LET taken == SubSeq(list, 1, Min({RecentLimit, Len(list)}))
          IN  /\ taken \in Seq(C) /\ ToSet(taken) \subseteq C
              /\ Len(taken) = Min({RecentLimit, Cardinality(C)})
              /\ Cardinality(ToSet(taken)) = Len(taken)
              /\ \A c \in ToSet(taken), d \in C \ ToSet(taken) : c.ts >= d.ts
        BY <1>2, <1>4, <1>7, TopOfListing
    <2> QED BY <1>5, <2>1
<1> QED BY <1>1, <1>6, <1>8


\* The latest changes are the newest of all times, in whichever window they were
\* found: a window that does not show all that is asked for is widened, and what
\* lies before a window is older than all that is in it.
LEMMA LatestOfAll ==
    ASSUME NEW now \in Int, NEW t \in Int
    PROVE  LET all    == UNION {Changes(k, Stored(k, t)) : k \in ToSet(Active(t))}
               listed == ToSet(RecentChanges(now, t))
           IN  /\ listed \subseteq all
               /\ Cardinality(listed) = Min({RecentLimit, Cardinality(all)})
               /\ \A c \in listed, d \in all \ listed : c.ts >= d.ts
<1>1. PICK all : all = UNION {Changes(k, Stored(k, t)) : k \in ToSet(Active(t))}
    OBVIOUS
<1>2. /\ \A since \in Int : ChangesSince(since, t) = {c \in all : c.ts > since}
      /\ IsFiniteSet(all)
      /\ \A c \in all : c.ts \in Nat
    <2>1. -1 \in Int
        OBVIOUS
    <2> QED BY <1>1, <2>1, WindowOfChanges
<1>3. PICK enough : enough = {i \in DOMAIN Windows :
                                 Len(RecentSelect(now - Windows[i], t)) >= RecentLimit}
    OBVIOUS
<1>4. PICK since : since = IF enough = {} THEN -1 ELSE now - Windows[Min(enough)]
    OBVIOUS
<1>5. RecentChanges(now, t) = RecentSelect(since, t)
    BY <1>3, <1>4 DEF RecentChanges
<1>6. Windows \in Seq(Nat) /\ RecentLimit \in Nat
    BY ScriptAssumption
<1>7. enough # {} => Min(enough) \in enough /\ Windows[Min(enough)] \in Nat
    <2>1. enough \in SUBSET Nat /\ \A i \in enough : Windows[i] \in Nat
        BY <1>3, <1>6
    <2> QED BY <2>1, LeastElement
<1>8. since \in Int
    BY <1>4, <1>7
<1>9. PICK C : C = ChangesSince(since, t)
    OBVIOUS
<1>10. C = {c \in all : c.ts > since}
    BY <1>2, <1>8, <1>9
<1>11. PICK found : found = RecentSelect(since, t)
    OBVIOUS
<1>12. /\ found \in Seq(C) /\ ToSet(found) \subseteq C
       /\ Len(found) = Min({RecentLimit, Cardinality(C)})
       /\ Cardinality(ToSet(found)) = Len(found)
       /\ \A c \in ToSet(found), d \in C \ ToSet(found) : c.ts >= d.ts
    <2>1. LET W    == ChangesSince(since, t)
              some == RecentSelect(since, t)
          IN  /\ some \in Seq(W) /\ ToSet(some) \subseteq W
              /\ Len(some) = Min({RecentLimit, Cardinality(W)})
              /\ Cardinality(ToSet(some)) = Len(some)
              /\ \A c \in ToSet(some), d \in W \ ToSet(some) : c.ts >= d.ts
        BY <1>8, SelectedChanges
    <2> QED BY <1>9, <1>11, <2>1
<1>13. /\ IsFiniteSet(C) /\ Cardinality(C) \in Nat /\ Cardinality(all) \in Nat
       /\ Cardinality(C) <= Cardinality(all)
    <2>1. C \in SUBSET all
        BY <1>10
    <2>2. IsFiniteSet(C) /\ Cardinality(C) <= Cardinality(all)
        BY <1>2, <2>1, FS_Subset
    <2> QED BY <1>2, <2>2, FS_CardinalityType
<1>14. CASE enough = {}
    <2>1. C = all
        BY <1>2, <1>4, <1>10, <1>14
    <2> QED BY <1>1, <1>5, <1>11, <1>12, <2>1
<1>15. CASE enough # {}
    <2>1. Len(found) >= RecentLimit
        BY <1>3, <1>4, <1>7, <1>11, <1>15
    <2>2. /\ Min({RecentLimit, Cardinality(C)}) \in {RecentLimit, Cardinality(C)}
          /\ Min({RecentLimit, Cardinality(C)}) <= RecentLimit
          /\ Min({RecentLimit, Cardinality(C)}) <= Cardinality(C)
        BY <1>6, <1>13, LesserOfTwo
    <2>3. Len(found) = RecentLimit /\ RecentLimit <= Cardinality(all)
        BY <1>6, <1>12, <1>13, <2>1, <2>2
    <2>4. /\ Min({RecentLimit, Cardinality(all)}) \in {RecentLimit, Cardinality(all)}
          /\ Min({RecentLimit, Cardinality(all)}) <= RecentLimit
        BY <1>6, <1>13, LesserOfTwo
    <2>5. Cardinality(ToSet(found)) = Min({RecentLimit, Cardinality(all)})
        BY <1>6, <1>12, <1>13, <2>3, <2>4
    <2>6. ASSUME NEW c \in ToSet(found), NEW d \in all \ ToSet(found)
          PROVE  c.ts >= d.ts
        <3>1. c \in C /\ c.ts \in Nat /\ c.ts > since /\ d.ts \in Nat
            BY <1>2, <1>10, <1>12
        <3>2. CASE d \in C
            BY <1>12, <3>2
        <3>3. CASE d \notin C
            <4>1. ~(d.ts > since)
                BY <1>10, <3>3
            <4> QED BY <1>8, <3>1, <4>1
        <3> QED BY <3>2, <3>3
    <2>7. ToSet(found) \subseteq all
        BY <1>10, <1>12
    <2> QED BY <1>1, <1>5, <1>11, <1>12, <2>5, <2>6, <2>7
<1> QED BY <1>14, <1>15

LEMMA LatestDoAgree == Kinds => LatestAreNewest
<1> SUFFICES ASSUME Kinds, answer # Nothing, NEW read \in answer.polls..ServerNow
             PROVE  LET all    == UNION {Changes(k, Stored(k, read)) : k \in ToSet(Active(read))}
                        listed == ToSet(Recent[answer.at][read])
                    IN  /\ listed \subseteq all
                        /\ Cardinality(listed) = Min({RecentLimit, Cardinality(all)})
                        /\ \A c \in listed, d \in all \ listed : c.ts >= d.ts
    BY DEF LatestAreNewest
<1>1. answer \in Answer /\ ServerNow \in 0..MaxClock
    BY ServerNowKind DEF Kinds
<1>2. answer.at \in 0..MaxClock /\ answer.polls \in 0..MaxClock
    BY <1>1, PageOfAnswer
<1>3. PICK now \in 0..MaxClock, t \in 0..MaxClock : now = answer.at /\ t = read
    BY <1>1, <1>2
<1>4. Recent[answer.at][read] = RecentChanges(now, t)
    BY <1>3 DEF Recent
<1>5. LET all    == UNION {Changes(k, Stored(k, t)) : k \in ToSet(Active(t))}
          listed == ToSet(RecentChanges(now, t))
      IN  /\ listed \subseteq all
          /\ Cardinality(listed) = Min({RecentLimit, Cardinality(all)})
          /\ \A c \in listed, d \in all \ listed : c.ts >= d.ts
    BY LatestOfAll
<1> QED BY <1>3, <1>4, <1>5


-----------------------------------------------------------------------------
\* All figures

\* Before the first answer there is no row and no sparkline.
LEMMA SparksDoAgree == Kinds => SparksAgree
<1>1. ASSUME answer = Nothing PROVE SparksAgree
    <2>1. MetricsOf(answer) = <<>>
        BY <1>1 DEF MetricsOf, Page, NoPage, Built
    <2>2. ToSet(MetricsOf(answer)) = {}
        BY <2>1 DEF ToSet
    <2> QED BY <2>2 DEF SparksAgree
<1> QED BY <1>1, SparksOfAnswer

\* The figures that are computed apart agree for any samples, catalogue, ranges,
\* windows and limits, although polls write between the reads of an overview: the
\* bars with the line above them (api.py, chart.js), the latest changes with the
\* samples there are when they are read (storage.py), and each sparkline with the
\* change beside it (dashboard.py, common.js).
THEOREM AllFiguresAgree == Spec => []FiguresAgree
<1>1. Kinds => LatestAreNewest /\ SparksAgree
    BY LatestDoAgree, SparksDoAgree
<1> QED BY <1>1, LinksHold, BarsAgreeWithLine, BarsSumToLine, PTL DEF TypesInv, FiguresAgree
=============================================================================
