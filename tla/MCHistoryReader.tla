---- MODULE MCHistoryReader ----
(***************************************************************************)
(* A model for checking HistoryReader: a reader of a history that grows.    *)
(***************************************************************************)
EXTENDS MCProgress, HistoryReader
====
