----------------------------- MODULE ManagedMCP -----------------------------
(***************************************************************************)
(* verify_managed_mcp.py and ManagedMCPClient.inspect (mcp.py): one call   *)
(* of one tool in one session, between the allowlist and the receipt.      *)
(*                                                                         *)
(* The service is external.  It lists what it likes, and another time      *)
(* something else; it executes a call or drops the session, before or      *)
(* after it did; it may answer with isError.                               *)
(***************************************************************************)
EXTENDS ReceiptFile

CONSTANTS
  Tool,            \* the names a user or the service may come up with
  READ_ONLY_TOOLS

ASSUME ToolAssumption == READ_ONLY_TOOLS \subseteq Tool

VARIABLES
  wanted,       \* --tool
  advertised,   \* of the session's list, what is on the allowlist
  called        \* what the service was asked to do: whose call, tool, error

mcpVars == <<wanted, advertised, called>>

McpInit ==
  /\ wanted \in [Execution -> Tool]
  /\ advertised = [e \in Execution |-> {}]
  /\ called = {}

(* The configuration is complete, the tool on the allowlist, the session   *)
(* initialized.                                                            *)
OpenSession(e) ==
  /\ wanted[e] \in READ_ONLY_TOOLS
  /\ Move(e, "configure", "list")
  /\ UNCHANGED <<receipt, file>> /\ UNCHANGED mcpVars

ListTools(e) ==
  /\ \E listed \in SUBSET Tool :
       /\ advertised' = [advertised EXCEPT ![e] = listed \intersect READ_ONLY_TOOLS]
       /\ pc[e] = "list"
       /\ pc' = [pc EXCEPT ![e] = IF wanted[e] \in advertised'[e] THEN "call" ELSE "failed"]
  /\ UNCHANGED <<receipt, file, wanted, called>>

Call(e, error) == [by |-> e, tool |-> wanted[e], error |-> error]

CallTool(e) ==
  /\ Move(e, "call", "leave")
  /\ \E error \in BOOLEAN : called' = called \union {Call(e, error)}
  /\ UNCHANGED <<receipt, file, wanted, advertised>>

(* The session is lost, or the 30 seconds are over: before the call or     *)
(* after it, when it is executed and nobody told.                          *)
McpFails(e) ==
  /\ Fail(e, "configure") \/ Fail(e, "list") \/ Fail(e, "call") \/ Fail(e, "leave")
  /\ \/ UNCHANGED called
     \/ pc[e] = "call" /\ \E error \in BOOLEAN : called' = called \union {Call(e, error)}
  /\ UNCHANGED <<wanted, advertised>>

McpReceipt(e) ==
  [size |-> Cardinality(advertised[e]), tool |-> wanted[e], advertised |-> advertised[e]]

(* Mutant of Report: isError is not looked at. *)
ReportAnyResult(e) == Build(e, "leave", McpReceipt(e)) /\ UNCHANGED mcpVars

(* The session is closed; an error of the tool is no result. *)
Report(e) ==
  /\ Call(e, FALSE) \in called
  /\ Build(e, "leave", McpReceipt(e))
  /\ UNCHANGED mcpVars

McpNext ==
  \E e \in Execution :
    OpenSession(e) \/ ListTools(e) \/ CallTool(e) \/ McpFails(e) \/ Report(e)
=============================================================================
