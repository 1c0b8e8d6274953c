------------------------- MODULE MCEvidenceScripts --------------------------
(***************************************************************************)
(* EvidenceScripts with two executions, two read-only tools, one that      *)
(* writes, and a tag that is moved twice.                                  *)
(***************************************************************************)
EXTENDS EvidenceScripts, TLC

CONSTANTS e1, e2

MCTools == {"list_databases", "select_query", "create_database"}
MCReadOnly == {"list_databases", "select_query"}

Symmetry == Permutations(Execution)
=============================================================================
