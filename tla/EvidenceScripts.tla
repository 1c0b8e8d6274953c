-------------------------- MODULE EvidenceScripts ---------------------------
(***************************************************************************)
(* Executions of one of the three scripts that leave a receipt in place,   *)
(* beside each other: SchemaBootstrap, ManagedMCP or LocalVerifier up to   *)
(* the receipt, ReceiptFile from there.  Each script has a path of its     *)
(* own, so that only executions of the same script meet.                   *)
(***************************************************************************)
EXTENDS SchemaBootstrap, ManagedMCP, LocalVerifier

evidenceVars == <<pc, receipt, file, schemaVars, mcpVars, localVars>>

(* main: the first step of each script.  What only another script looks at *)
(* does not vary.                                                          *)
EvidenceInit ==
  /\ FileInit /\ SchemaInit /\ McpInit /\ LocalInit
  /\ \E first \in {"initialize", "configure", "inspect"} :
       /\ pc = [e \in Execution |-> first]
       /\ first # "initialize" => table = "absent"
       /\ first # "configure" => \A d, e \in Execution : wanted[d] = wanted[e]
       /\ image = IF first = "inspect" THEN 1 ELSE MaxImages

EvidenceNext ==
  \/ FileNext /\ UNCHANGED <<schemaVars, mcpVars, localVars>>
  \/ BootstrapNext /\ UNCHANGED <<mcpVars, localVars>>
  \/ McpNext /\ UNCHANGED <<schemaVars, localVars>>
  \/ LocalNext /\ UNCHANGED <<schemaVars, mcpVars>>

EvidenceSpec == EvidenceInit /\ [][EvidenceNext]_evidenceVars

-----------------------------------------------------------------------------
(***************************************************************************)
(* What the receipts are worth.  TornIsNoticed says when they are whole.   *)
(***************************************************************************)

IsSchemaReceipt(r) == DOMAIN r = {"size"}
IsMcpReceipt(r) == DOMAIN r = {"size", "tool", "advertised"}
IsLocalReceipt(r) == DOMAIN r = {"size", "digest"}

(* A bootstrap receipt on the path means that a table and a finished index *)
(* of the right names are there, although the statements that create them  *)
(* succeed while another execution's index is still being built, and fail  *)
(* (managed_bootstrap.py:45-71).                                           *)
SchemaReceiptTrue ==
  \A e \in Execution : Published(e) /\ IsSchemaReceipt(receipt[e]) =>
    table # "absent" /\ index = "public"

(* Whatever tool a user names and a service lists, the service is asked    *)
(* for read-only tools only, and a receipt on the path names one that its  *)
(* own session advertised and answered without an error (mcp.py:123-158).  *)
McpReceiptBacked ==
  /\ \A c \in called : c.tool \in READ_ONLY_TOOLS
  /\ \A e \in Execution : Published(e) /\ IsMcpReceipt(receipt[e]) =>
       /\ [by |-> e, tool |-> receipt[e].tool, error |-> FALSE] \in called
       /\ receipt[e].tool \in receipt[e].advertised
       /\ receipt[e].advertised \subseteq READ_ONLY_TOOLS

(* The digest in a local receipt is that of the image the contract was run *)
(* against, unless the tag was moved between the two docker commands that  *)
(* name it (verify_local_cockroach.py:151-166).                            *)
LocalReceiptNamesImage ==
  \A e \in Execution : Published(e) /\ IsLocalReceipt(receipt[e]) =>
    receipt[e].digest = ran[e] \/ e \in retagged

(* A container outlives its execution only where that was killed or        *)
(* interrupted in docker run, or docker rm failed unseen                   *)
(* (verify_local_cockroach.py:156-167 and 244-246).                        *)
ContainersAccounted ==
  \A e \in Execution : container[e] = "running" =>
    \/ pc[e] \in {"contract", "remove_verified", "remove_failed"}
    \/ pc[e] \in {"killed", "interrupted"}
    \/ e \in unremoved
=============================================================================
