--------------------------- MODULE LocalVerifier ----------------------------
(***************************************************************************)
(* verify_local_cockroach.py: the digest of an image, a container of that  *)
(* image, the store's contract against it, and the container's removal in  *)
(* a `finally' that goes by the flag `started'.                            *)
(*                                                                         *)
(* Docker is external: a tag may be moved to another image at any time,    *)
(* `docker run' may go on when its client is interrupted, and a container  *)
(* run with --rm disappears when it ends.                                  *)
(***************************************************************************)
EXTENDS ReceiptFile, LedgerRows

CONSTANT MaxImages   \* bound: the images a tag may come to stand for

ASSUME ImageAssumption == MaxImages \in Nat \ {0}

VARIABLES
  image,       \* the image the tag stands for
  digest,      \* the one an execution looked up
  container,   \* the container of an execution: "none", "running", "removed"
  ran,         \* the image it runs
  retagged,    \* executions that the tag was moved under, before `docker run'
  unremoved    \* executions whose `docker rm' failed

localVars == <<image, digest, container, ran, retagged, unremoved>>

LocalInit ==
  /\ image \in 1..MaxImages
  /\ digest = [e \in Execution |-> 0]
  /\ container = [e \in Execution |-> "none"]
  /\ ran = [e \in Execution |-> 0]
  /\ retagged = {}
  /\ unremoved = {}

UnchangedFile == UNCHANGED <<receipt, file>>

(* docker pull, or docker tag, by somebody else. *)
Retag ==
  /\ image < MaxImages
  /\ image' = image + 1
  /\ retagged' = retagged \union {e \in Execution : pc[e] = "start"}
  /\ UNCHANGED <<pc, digest, container, ran, unremoved>> /\ UnchangedFile

(* _image_digest. *)
InspectImage(e) ==
  /\ Move(e, "inspect", "start")
  /\ digest' = [digest EXCEPT ![e] = image]
  /\ UNCHANGED <<image, container, ran, retagged, unremoved>> /\ UnchangedFile

(* docker run returns: started = True. *)
StartContainer(e) ==
  /\ Move(e, "start", "contract")
  /\ container' = [container EXCEPT ![e] = "running"]
  /\ ran' = [ran EXCEPT ![e] = image]
  /\ UNCHANGED <<image, digest, retagged, unremoved>> /\ UnchangedFile

(* It does not: the container may run all the same, but is not removed. *)
StartInterrupted(e) ==
  /\ Move(e, "start", "interrupted")
  /\ container' \in {container, [container EXCEPT ![e] = "running"]}
  /\ ran' = [ran EXCEPT ![e] = image]
  /\ UNCHANGED <<image, digest, retagged, unremoved>> /\ UnchangedFile

InspectFails(e) == Fail(e, "inspect") /\ UNCHANGED localVars

(* What the script asserts of the store on an empty cluster. *)
Alpha == [tenant |-> "alpha", incident |-> "orbit", sequence |-> 1, key |-> "alpha_1"]
Beta == [tenant |-> "beta", incident |-> "harbor", sequence |-> 1, key |-> "beta_1"]
Changed == [Alpha EXCEPT !.key = "alpha_2"]

Appended(stored, e) == RowsAfter(stored, e, CockroachAnswer(stored, e))

ContractAsserted ==
  LET one == Appended({}, Alpha)
      two == Appended(one, Beta)
  IN /\ CockroachAnswer({}, Alpha) = "true"
     /\ CockroachAnswer(one, Alpha) = "false"
     /\ CockroachAnswer(two, Changed) = "23505"
     /\ {e \in Appended(two, Changed) : e.tenant = "alpha"} = {Alpha}

ContractHolds(e) ==
  /\ container[e] = "running"
  /\ ContractAsserted
  /\ Move(e, "contract", "remove_verified")
  /\ UNCHANGED localVars /\ UnchangedFile

(* Mutant of ContractFails: what raises leaves without the finally. *)
ContractEscapes(e) == Fail(e, "contract") /\ UNCHANGED localVars

(* The port, the 60 seconds of waiting, a call or an assertion raises. *)
ContractFails(e) ==
  /\ Move(e, "contract", "remove_failed")
  /\ UNCHANGED localVars /\ UnchangedFile

ContainerExits(e) ==
  /\ container[e] = "running"
  /\ container' = [container EXCEPT ![e] = "removed"]
  /\ UNCHANGED <<pc, image, digest, ran, retagged, unremoved>> /\ UnchangedFile

(* docker rm --force, whose failure is not looked at. *)
RemoveContainer(e) ==
  \/ container' = [container EXCEPT ![e] = "removed"] /\ UNCHANGED unremoved
  \/ unremoved' = unremoved \union {e} /\ UNCHANGED container

(* Mutant of LocalReceipt: the tag is looked up when the receipt is built. *)
LocalReceiptLate(e) == [size |-> 1, digest |-> image]

LocalReceipt(e) == [size |-> 1, digest |-> digest[e]]

RemoveVerified(e) ==
  /\ RemoveContainer(e)
  /\ Build(e, "remove_verified", LocalReceipt(e))
  /\ UNCHANGED <<image, digest, ran, retagged>>

RemoveFailed(e) ==
  /\ RemoveContainer(e)
  /\ Fail(e, "remove_failed")
  /\ UNCHANGED <<image, digest, ran, retagged>>

LocalNext ==
  \/ \E e \in Execution :
       \/ InspectImage(e) \/ InspectFails(e) \/ StartContainer(e) \/ StartInterrupted(e)
       \/ ContractHolds(e) \/ ContractFails(e) \/ ContainerExits(e)
       \/ RemoveVerified(e) \/ RemoveFailed(e)
  \/ Retag
=============================================================================
