------------------------ MODULE MCManagedEvidence -------------------------
(***************************************************************************)
(* ManagedEvidence with one or two verifiers and one visitor.              *)
(***************************************************************************)
EXTENDS ManagedEvidence, TLC

CONSTANTS v1, v2, w1

MCVerifiers1 == {v1}
MCVerifiers2 == {v1, v2}
MCNothing == {}

MCInvocations == Invocations
MCVisited == Invocations \union {w1}

Symmetry == Permutations(Verifier)
=============================================================================
