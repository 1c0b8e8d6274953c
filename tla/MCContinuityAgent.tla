------------------------- MODULE MCContinuityAgent --------------------------
(***************************************************************************)
(* ContinuityAgent on small instances: two tenants that use one key, two   *)
(* requests of one incident whose positions overlap, a recall limit that a *)
(* retried run's own rows fill, and clients who post handoffs that name    *)
(* different paths, an observation under the key of a run, and a decision  *)
(* under a decision key that cites nothing there is.                       *)
(***************************************************************************)
EXTENDS ContinuityAgent, TLC

CONSTANTS r1, r2, r3

MCRuns2 == {r1, r2}
MCRuns3 == {r1, r2, r3}

Client(k) == <<"client", k>>

Ask(t, i, s, k, o) ==
  [tenant |-> t, incident |-> i, sequence |-> s, key |-> Client(k), observation |-> o]

Told(t, i, k, w) ==
  [tenant |-> t, incident |-> i, sequence |-> 1, key |-> Client(k), kind |-> "handoff",
   words |-> {w}, says |-> "", cites |-> NoCitation]

First == Ask("demo", 3, 1, "k1", "ingest")
Overlapping == Ask("demo", 3, 2, "k2", "ingest")
Neighbour == Ask("other", 3, 1, "k1", "ingest")
Last == Ask("demo", 3, 4, "k3", "ingest")

MCEdgeRequests == {First, Overlapping, Last}

Ingest == Told("demo", 1, "h1", "ingest")
Transcode == Told("demo", 2, "h2", "transcode")
Foreign == Told("other", 1, "h1", "ingest")
Forbidden == Told("demo", 9, "h9", "review")

(* What a run would record, but for its place and what it cites. *)
Mimicked(t, i) ==
  [tenant |-> t, incident |-> i, sequence |-> 1, key |-> Client("k1"), kind |-> "observation",
   words |-> {}, says |-> "mimicked", cites |-> NoCitation]

Forged(t, i, k) ==
  [tenant |-> t, incident |-> i, sequence |-> 2, key |-> k, kind |-> "decision",
   words |-> {}, says |-> "inspect_ingest_validation", cites |-> <<7, 7>>]

MCEdgePostable ==
  {Transcode, Forbidden, Mimicked("demo", 5), Forged("demo", 5, DecisionKey(Overlapping))}
MCUnspeakable == {9}

(* The observation's own text is most similar to it, then the handoff that *)
(* uses its words.                                                         *)
MCScore(observation, e) ==
  IF e.says = observation THEN 3
  ELSE IF observation \in e.words THEN 2
  ELSE IF e.kind = "decision" THEN 1
  ELSE 0

Symmetry == Permutations(Run)
=============================================================================
