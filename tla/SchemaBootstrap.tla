-------------------------- MODULE SchemaBootstrap ---------------------------
(***************************************************************************)
(* bootstrap_managed_schema.py: initialize, then look at a second          *)
(* connection whether the table and the index are there, then the receipt. *)
(*                                                                         *)
(* The schema as the code relies on it: a table that is not there is       *)
(* created with its index at COMMIT; an index missing from a table that is *)
(* there is built by a job that COMMIT waits for and that may fail; IF NOT *)
(* EXISTS goes by the name, also of a table of an older schema and of an   *)
(* index that another client's job is still building.                      *)
(***************************************************************************)
EXTENDS ReceiptFile

VARIABLES
  table,   \* "absent", "old" or "current"
  index    \* "none", "building" or "public"

schemaVars == <<table, index>>

SchemaInit ==
  \/ table = "absent" /\ index = "none"
  \/ table \in {"old", "current"} /\ index \in {"none", "public"}

(* CREATE TABLE IF NOT EXISTS; CREATE VECTOR INDEX IF NOT EXISTS; COMMIT.  *)
CreateSchema(e) ==
  /\ table = "absent"
  /\ Move(e, "initialize", "examine")
  /\ table' = "current" /\ index' = "public"
  /\ UNCHANGED <<receipt, file>>

StartIndex(e) ==
  /\ table # "absent" /\ index = "none"
  /\ Move(e, "initialize", "await_index")
  /\ index' = "building"
  /\ UNCHANGED <<table, receipt, file>>

NothingToCreate(e) ==
  /\ index # "none"
  /\ Move(e, "initialize", "examine")
  /\ UNCHANGED <<table, index, receipt, file>>

IndexAwaited(e) ==
  /\ pc[e] = "await_index" /\ index # "building"
  /\ pc' = [pc EXCEPT ![e] = IF index = "public" THEN "examine" ELSE "failed"]
  /\ UNCHANGED <<table, index, receipt, file>>

(* The job ends, whether or not its client is still there.                 *)
IndexJobEnds ==
  /\ index = "building"
  /\ index' \in {"none", "public"}
  /\ UNCHANGED <<table, pc, receipt, file>>

(* The connection, a statement or a commit raises; a schema whose COMMIT   *)
(* raises may have been created.                                           *)
BootstrapFails(e) ==
  /\ Fail(e, "initialize") \/ Fail(e, "await_index") \/ Fail(e, "examine")
  /\ \/ UNCHANGED <<table, index>>
     \/ pc[e] = "initialize" /\ table = "absent" /\ table' = "current" /\ index' = "public"

(* It names no execution, and says nothing but what Examine has let        *)
(* through, so that all are alike and validation refuses none of them.     *)
SchemaReceipt == [size |-> 1]

(* Mutant of Examine: SQL that ran is taken as proof. *)
ExamineNothing(e) == Build(e, "examine", SchemaReceipt) /\ UNCHANGED <<table, index>>

(* By name, in information_schema and SHOW INDEXES. *)
Examine(e) ==
  /\ table # "absent" /\ index = "public"
  /\ Build(e, "examine", SchemaReceipt)
  /\ UNCHANGED <<table, index>>

ObjectsMissing(e) ==
  /\ table = "absent" \/ index # "public"
  /\ Fail(e, "examine")
  /\ UNCHANGED <<table, index>>

BootstrapNext ==
  \/ \E e \in Execution :
       \/ CreateSchema(e) \/ StartIndex(e) \/ NothingToCreate(e) \/ IndexAwaited(e)
       \/ BootstrapFails(e) \/ Examine(e) \/ ObjectsMissing(e)
  \/ IndexJobEnds
=============================================================================
