------------------------------ MODULE DemoShim ------------------------------
(***************************************************************************)
(* scripts/demo/shim.js, which makes the pages run on files that           *)
(* scripts/demo/export.py wrote.  A URL is a record of its path and of the *)
(* parts that the shim's expressions take out of it.  A valid key has no   *)
(* character that encodeURIComponent changes, so keys stand for themselves *)
(* in URLs.  The link to the API reference leads out of the export, to the *)
(* documentation site beside it.                                           *)
(***************************************************************************)
EXTENDS Tab

\* The URLs that the two pages fetch.
OverviewUrl(r)   == [path |-> "/api/stats/overview", range |-> r]
HistoryUrl(k, r) == [path |-> "/api/stats/history", metric |-> k, range |-> r]

\* The links that the pages and their templates make.
DetailLink(k, r)  == [path |-> "/m/", key |-> k, query |-> r]
OverviewLink(r)   == [path |-> "/", query |-> r]

\* jsonFile: the file a request is mapped to, Nothing if it is refused.
JsonFile(url) ==
    CASE url.path = "/api/stats/overview" -> [file |-> "overview", range |-> url.range]
      [] url.path = "/api/stats/history" ->
            [file |-> "history", key |-> url.metric, range |-> url.range]
      [] OTHER -> Nothing

\* rewriteInternalHref, on the links that stay in the export.
RewriteInternalHref(href) ==
    CASE href.path = "/" -> [file |-> "index"]
      [] href.path = "/m/" -> [file |-> "m", key |-> href.key]
      [] OTHER -> Nothing

\* The series that GET /api/metrics lists: each that exists, retired ones
\* included.
KeysExported == {k \in Keys : Stored(k, ExportTime) # <<>>}

\* Mutant: of each series, the history that its page first asks for.
HistoriesOfPages ==
    {[file |-> "history", key |-> k, range |-> DefaultRange] : k \in KeysExported}

\* _crawl: one overview per range; a page, and a history per range, of each
\* series.
HistoriesExported ==
    {[file |-> "history", key |-> k, range |-> r] : k \in KeysExported, r \in Ranges}

Exported ==
    {[file |-> "index"]}
    \union {[file |-> "overview", range |-> r] : r \in Ranges}
    \union {[file |-> "m", key |-> k] : k \in KeysExported}
    \union HistoriesExported
=============================================================================
