----------------------------- MODULE MCDuckLake -----------------------------
(***************************************************************************)
(* A small instance of DuckLake for TLC: two runs of the maintenance that  *)
(* may overlap, of deployments that keep a different history, and options  *)
(* of earlier deployments that would keep more, less or everything.        *)
(***************************************************************************)
EXTENDS DuckLake

AllTypes == {"DuckDB", "SQLite", "Postgres"}

TwoRetentions == <<1, 2>>

EarlierOptions == {NoOption, 0, 3}
=============================================================================
