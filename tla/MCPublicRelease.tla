------------------------- MODULE MCPublicRelease --------------------------
(***************************************************************************)
(* Two builders, one required file, one that may be missing, and one that  *)
(* is never public.                                                        *)
(***************************************************************************)
EXTENDS PublicRelease, TLC

CONSTANTS b1, b2

MCBuilders == {b1, b2}
MCRoot == {1}
MCFound == {2, 3}
MCNever == {3}

Symmetry == Permutations(Builder)
=============================================================================
