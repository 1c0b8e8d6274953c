---------------------------- MODULE ReceiptFile -----------------------------
(***************************************************************************)
(* How a script leaves its receipt: write_managed_schema_receipt,          *)
(* write_mcp_receipt and write_receipt are one function three times.  It   *)
(* truncates the file in place, writes, and reads back what is there, while *)
(* other executions of the same script do so at the same path.             *)
(*                                                                         *)
(* The modules that extend this one say how an execution gets to "write",  *)
(* with a receipt that validates.  Of a receipt only its size matters      *)
(* here: a short one does not cover a long one.                            *)
(***************************************************************************)
EXTENDS Naturals, FiniteSets

CONSTANT Execution   \* executions of one script

VARIABLES
  pc,        \* where an execution is
  receipt,   \* the receipt it has built
  file       \* what the path holds: its shape, whose receipt, how long

NoReceipt == [size |-> 0]

AbsentFile == [shape |-> "absent", of |-> {}, size |-> 0]

FileInit ==
  /\ receipt = [e \in Execution |-> NoReceipt]
  /\ file = AbsentFile

Move(e, from, to) == pc[e] = from /\ pc' = [pc EXCEPT ![e] = to]

(* The receipt is built and validates.                                     *)
Build(e, from, built) ==
  /\ Move(e, from, "write")
  /\ receipt' = [receipt EXCEPT ![e] = built]
  /\ UNCHANGED file

(* Any of the calls before the receipt raises. *)
Fail(e, from) == Move(e, from, "failed") /\ UNCHANGED <<receipt, file>>

OpenFails(e) == Fail(e, "write")

(* write_bytes opens the file and truncates it, *)
Open(e) ==
  /\ Move(e, "write", "opened")
  /\ file' = [shape |-> "empty", of |-> {}, size |-> 0]
  /\ UNCHANGED receipt

(* writes from its start over what another execution may have written, *)
Write(e) ==
  /\ Move(e, "opened", "written")
  /\ file' = IF receipt[e].size >= file.size
               THEN [shape |-> "whole", of |-> {e}, size |-> receipt[e].size]
               ELSE [shape |-> "torn", of |-> {}, size |-> file.size]
  /\ UNCHANGED receipt

(* or writes a part only. *)
WriteFails(e) ==
  /\ Move(e, "opened", "unconfirmed")
  /\ file' = [shape |-> "torn", of |-> {}, size |-> file.size]
  /\ UNCHANGED receipt

(* Mutant of ReadBack: the file is not reopened. *)
ReadBackSkipped(e) == Move(e, "written", "verified") /\ UNCHANGED <<receipt, file>>

(* What is there parses and validates, whoever wrote it, or raises. *)
ReadBack(e) ==
  /\ pc[e] = "written"
  /\ pc' = [pc EXCEPT ![e] = IF file.shape = "whole" THEN "verified" ELSE "unconfirmed"]
  /\ UNCHANGED <<receipt, file>>

Over == {"verified", "failed", "unconfirmed", "killed", "interrupted"}

(* The process is killed: nothing it would have done happens. *)
Kill(e) ==
  /\ pc[e] \notin Over
  /\ pc' = [pc EXCEPT ![e] = IF pc[e] \in {"opened", "written"} THEN "unconfirmed" ELSE "killed"]
  /\ UNCHANGED <<receipt, file>>

FileNext ==
  \E e \in Execution :
    OpenFails(e) \/ Open(e) \/ Write(e) \/ WriteFails(e) \/ ReadBack(e) \/ Kill(e)

(* Whose receipt the path holds. *)
Published(e) == file.of = {e}

-----------------------------------------------------------------------------
(* A receipt that is empty or torn does not go unnoticed: an execution     *)
(* that opened it has yet to read it back, said failed, or was killed, so  *)
(* that where all who wrote said verified there is a whole receipt         *)
(* (managed_bootstrap.py:140-141, mcp.py:195-196,                          *)
(* verify_local_cockroach.py:253-254).                                     *)
TornIsNoticed ==
  file.shape \in {"empty", "torn"} =>
    \E e \in Execution : pc[e] \in {"opened", "written", "unconfirmed"}
=============================================================================
