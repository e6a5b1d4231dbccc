-------------------------- MODULE MCConfiguration --------------------------
(***************************************************************************)
(* A small instance of Configuration for TLC: config/default is missing,   *)
(* or selects one of the sinks and catalogs; the file and the variables    *)
(* set at most one key each.                                               *)
(***************************************************************************)
EXTENDS Configuration

Lake(catalog, path) ==
    [sink_type |-> "duckdb", ducklake_enabled |-> "true", catalog_type |-> catalog,
     catalog_path |-> path, expire_older_than |-> "1 week"]

Deployments ==
    {Nothing, [sink_type |-> "duckdb"], Lake("duckdb", "file"), Lake("sqlite", "file"),
     Lake("postgres", "connection")}

OneKey      == {Nothing} \cup UNION {[{k} -> Values[k]] : k \in Key}
OneVariable == {s \in OneKey : "unknown_key" \notin DOMAIN s}
=============================================================================
