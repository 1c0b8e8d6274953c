-------------------------- MODULE MCLambdaHandler ---------------------------
(***************************************************************************)
(* LambdaHandler on a small instance: two requests of one incident whose   *)
(* positions overlap, each of either tenant; to post, a handoff and a      *)
(* decision that cites nothing there is, under the key of a request; and   *)
(* callers with and without the right identity.                            *)
(***************************************************************************)
EXTENDS LambdaHandler, MCContinuityAgent

CONSTANTS p1, p2

MCTenants == {"demo", "other"}

(* Closed under the exchange of the two tenants. *)
Overlooking == Ask("other", 3, 2, "k2", "ingest")

MCHandlerRequests == {First, Overlapping, Neighbour, Overlooking}
MCHandlerPostable ==
  {Ingest, Foreign, Forged("demo", 5, Client("k1")), Forged("other", 5, Client("k1"))}

Own == [claim |-> "demo", named |-> FALSE]
Stranger == [claim |-> "other", named |-> FALSE]
Elsewhere == [claim |-> "other", named |-> TRUE]
Anonymous == [claim |-> "absent", named |-> TRUE]

(* One of them at most comes from a stranger, or all name a tenant that    *)
(* may not be theirs, or none has an identity.                             *)
MCEnvelopes ==
  {[i \in Invocation |-> IF i = odd THEN other ELSE Own] :
     odd \in Invocation, other \in {Own, Stranger}}
  \union {[i \in Invocation |-> all] : all \in {Elsewhere, Anonymous}}

HandlerSymmetry == Permutations(Run) \union Permutations(Post)
=============================================================================
