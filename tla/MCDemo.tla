------------------------------- MODULE MCDemo -------------------------------
(***************************************************************************)
(* Demo with a few visitors.                                               *)
(***************************************************************************)
EXTENDS Demo, TLC

CONSTANTS s1, r1, r2, r3

MCSeeders1 == {s1}
MCRuns1 == {r1}
MCRuns3 == {r1, r2, r3}
MCNothing == {}

Symmetry == Permutations(Run)

(* A visitor who comes when every seeding has been answered. *)
SeededInit ==
  /\ rows = Priors
  /\ inflight = {}
  /\ pc = [r \in Run |-> "idle"]
  /\ request \in [Run -> Request]
  /\ choice = [r \in Run |-> Abstain]
  /\ recorded = [r \in Run |-> [observation |-> FALSE, decision |-> FALSE]]
  /\ posts = Priors
  /\ seeding = [s \in Seeder |-> [next |-> 4, status |-> "answered", inserted |-> Scenario]]
  /\ reply = [r \in Run |-> "none"]

SeededSpec == SeededInit /\ [][DemoNext]_demoVars
=============================================================================
