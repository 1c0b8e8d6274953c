-------------------------- MODULE MCCockroachStore --------------------------
(***************************************************************************)
(* CockroachStore on small instances.  The three events give every clash   *)
(* the two constraints can meet: an event sent again, the same replay key  *)
(* at another position, and the same position under another key.           *)
(***************************************************************************)
EXTENDS CockroachStore

CONSTANTS c1, c2

At(s, k) == [tenant |-> "demo", incident |-> "run", sequence |-> s, key |-> k]

Original == At(1, "k1")
KeyClash == At(2, "k1")
PlaceClash == At(1, "k2")

MCClients == {c1, c2}
MCEvents == {Original, KeyClash, PlaceClash}

=============================================================================
