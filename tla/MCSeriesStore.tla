---------------------------- MODULE MCSeriesStore ----------------------------
(* A small instance of SeriesStore for TLC. *)
EXTENDS SeriesStore

CONSTANTS downloads, modelA, modelB, makerworld

OwnerOf == [k \in Keys |-> makerworld]

==============================================================================
