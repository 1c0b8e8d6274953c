--------------------------- MODULE MCSqliteStore ----------------------------
(***************************************************************************)
(* SqliteStore with two processes: an event, the same key elsewhere, and   *)
(* the same position under another key.                                    *)
(***************************************************************************)
EXTENDS SqliteStore

Handoff(sequence, key) ==
  [tenant |-> "demo", incident |-> "i", sequence |-> sequence, key |-> key]

CONSTANTS p1, p2

MCKeeping == {{}, {p1}, {p1, p2}}

MCEvents == {Handoff(1, "k1"), Handoff(2, "k1"), Handoff(1, "k2")}
=============================================================================
