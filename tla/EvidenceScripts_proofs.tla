----------------------- MODULE EvidenceScripts_proofs -----------------------
(***************************************************************************)
(* Proofs about EvidenceScripts, for any number of executions, any tools   *)
(* and any images.                                                         *)
(***************************************************************************)
EXTENDS EvidenceScripts, TLAPS

(* What is a function on the executions stays one.                         *)
Functional ==
  /\ DOMAIN pc = Execution
  /\ DOMAIN receipt = Execution
  /\ DOMAIN container = Execution
  /\ DOMAIN digest = Execution
  /\ DOMAIN ran = Execution
  /\ DOMAIN advertised = Execution

(* Every step leaves the functions on the executions such functions        *)
(* (the dataclasses of one execution each; no step makes up an execution). *)
LEMMA FunctionalStep ==
  ASSUME Functional, [EvidenceNext]_evidenceVars
  PROVE  Functional'
<1> USE DEF Functional, Move, Fail, Build
<1>1. CASE FileNext /\ UNCHANGED <<schemaVars, mcpVars, localVars>>
  BY <1>1 DEF FileNext, OpenFails, Open, Write, WriteFails, ReadBack, Kill, mcpVars, localVars
<1>2. CASE BootstrapNext /\ UNCHANGED <<mcpVars, localVars>>
  BY <1>2 DEF BootstrapNext, CreateSchema, StartIndex, NothingToCreate, IndexAwaited,
              BootstrapFails, Examine, ObjectsMissing, IndexJobEnds, mcpVars, localVars
<1>3. CASE McpNext /\ UNCHANGED <<schemaVars, localVars>>
  BY <1>3 DEF McpNext, OpenSession, ListTools, CallTool, McpFails, Report, mcpVars, localVars
<1>4. CASE LocalNext /\ UNCHANGED <<schemaVars, mcpVars>>
  <2>1. ASSUME NEW e \in Execution, InspectImage(e) \/ InspectFails(e) \/ StartContainer(e)
                                    \/ StartInterrupted(e) \/ ContractHolds(e) \/ ContractFails(e)
        PROVE  Functional'
    BY <1>4, <2>1 DEF InspectImage, InspectFails, StartContainer, StartInterrupted, ContractHolds,
                      ContractFails, UnchangedFile, mcpVars, localVars
  <2>2. ASSUME NEW e \in Execution, ContainerExits(e) \/ RemoveVerified(e) \/ RemoveFailed(e)
        PROVE  Functional'
    BY <1>4, <2>2 DEF ContainerExits, RemoveVerified, RemoveFailed, RemoveContainer,
                      UnchangedFile, mcpVars
  <2>3. CASE Retag
    BY <1>4, <2>3 DEF Retag, UnchangedFile, mcpVars
  <2> QED BY <1>4, <2>1, <2>2, <2>3 DEF LocalNext
<1>5. CASE UNCHANGED evidenceVars
  BY <1>5 DEF evidenceVars, schemaVars, mcpVars, localVars
<1> QED BY <1>1, <1>2, <1>3, <1>4, <1>5 DEF EvidenceNext

(* What FunctionalStep needs holds from the start.                         *)
LEMMA FunctionalInit == EvidenceInit => Functional
BY DEF EvidenceInit, FileInit, LocalInit, McpInit, Functional

-----------------------------------------------------------------------------
(***************************************************************************)
(* The receipt file: TornIsNoticed is inductive as it stands.              *)
(***************************************************************************)

(* A step that leaves the file alone, and whoever has it open where he is, *)
(* does not break it.                                                      *)
LEMMA FileLeftAlone ==
  ASSUME TornIsNoticed, UNCHANGED file,
         \A d \in Execution : pc[d] \in {"opened", "written", "unconfirmed"} => pc'[d] = pc[d]
  PROVE  TornIsNoticed'
BY DEF TornIsNoticed

(* The steps before the receipt is written are such steps: they are taken  *)
(* from where no file is open.                                             *)
LEMMA BuildingStepsLeaveFile ==
  ASSUME Functional,
         \/ BootstrapNext
         \/ McpNext
         \/ LocalNext
  PROVE  /\ UNCHANGED file
         /\ \A d \in Execution : pc[d] \in {"opened", "written", "unconfirmed"} => pc'[d] = pc[d]
<1> USE DEF Functional, Move, Fail, Build
<1>1. CASE BootstrapNext
  BY <1>1 DEF BootstrapNext, CreateSchema, StartIndex, NothingToCreate, IndexAwaited,
              BootstrapFails, Examine, ObjectsMissing, IndexJobEnds
<1>2. CASE McpNext
  BY <1>2 DEF McpNext, OpenSession, ListTools, CallTool, McpFails, Report
<1>3. CASE LocalNext
  BY <1>3 DEF LocalNext, InspectImage, InspectFails, StartContainer, StartInterrupted, ContractHolds,
              ContractFails, ContainerExits, RemoveVerified, RemoveFailed, Retag, UnchangedFile
<1> QED BY <1>1, <1>2, <1>3

(* Opening, writing, reading back and dying are looked at one by one.      *)
LEMMA FileStepKeepsTorn ==
  ASSUME Functional, TornIsNoticed, FileNext
  PROVE  TornIsNoticed'
<1> PICK e \in Execution :
         OpenFails(e) \/ Open(e) \/ Write(e) \/ WriteFails(e) \/ ReadBack(e) \/ Kill(e)
  BY DEF FileNext
<1> USE DEF Functional, Move, Fail
<1>1. CASE OpenFails(e)
  BY <1>1, FileLeftAlone DEF OpenFails
<1>2. CASE Open(e)
  BY <1>2 DEF Open, TornIsNoticed
<1>3. CASE Write(e)
  BY <1>3 DEF Write, TornIsNoticed
<1>4. CASE WriteFails(e)
  BY <1>4 DEF WriteFails, TornIsNoticed
<1>5. CASE ReadBack(e)
  BY <1>5 DEF ReadBack, TornIsNoticed
<1>6. CASE Kill(e)
  BY <1>6 DEF Kill, Over, TornIsNoticed
<1> QED BY <1>1, <1>2, <1>3, <1>4, <1>5, <1>6

(* However many executions share the path, and whatever the sizes of their *)
(* receipts, an empty or torn one has a writer who has not said verified   *)
(* (managed_bootstrap.py:140-141, mcp.py:195-196,                          *)
(* verify_local_cockroach.py:253-254).                                     *)
THEOREM ReceiptsAreWhole == EvidenceSpec => []TornIsNoticed
<1>1. EvidenceInit => Functional /\ TornIsNoticed
  BY FunctionalInit DEF EvidenceInit, FileInit, AbsentFile, TornIsNoticed
<1>2. Functional /\ TornIsNoticed /\ [EvidenceNext]_evidenceVars => (Functional /\ TornIsNoticed)'
  <2> SUFFICES ASSUME Functional, TornIsNoticed, [EvidenceNext]_evidenceVars
               PROVE  TornIsNoticed'
    BY FunctionalStep
  <2>1. CASE FileNext
    BY <2>1, FileStepKeepsTorn
  <2>2. CASE BootstrapNext \/ McpNext \/ LocalNext
    BY <2>2, BuildingStepsLeaveFile, FileLeftAlone
  <2>3. CASE UNCHANGED evidenceVars
    BY <2>3, FileLeftAlone DEF evidenceVars
  <2> QED BY <2>1, <2>2, <2>3 DEF EvidenceNext
<1> QED BY <1>1, <1>2, PTL DEF EvidenceSpec

-----------------------------------------------------------------------------
(***************************************************************************)
(* The containers: ContainersAccounted is inductive as it stands.          *)
(***************************************************************************)

(* A step of the two managed scripts or of the file takes no verifier from *)
(* its container unless it kills him.                                      *)
LEMMA OthersLeaveContainers ==
  ASSUME Functional, ContainersAccounted, UNCHANGED localVars,
         \/ FileNext
         \/ BootstrapNext
         \/ McpNext
  PROVE  ContainersAccounted'
<1> USE DEF Functional, Move, Fail, Build, ContainersAccounted, localVars
<1>1. CASE FileNext
  BY <1>1 DEF FileNext, OpenFails, Open, Write, WriteFails, ReadBack, Kill
<1>2. CASE BootstrapNext
  BY <1>2 DEF BootstrapNext, CreateSchema, StartIndex, NothingToCreate, IndexAwaited,
              BootstrapFails, Examine, ObjectsMissing, IndexJobEnds
<1>3. CASE McpNext
  BY <1>3 DEF McpNext, OpenSession, ListTools, CallTool, McpFails, Report
<1> QED BY <1>1, <1>2, <1>3

(* A verifier starts one, keeps it while it has it, and removes it or      *)
(* fails to.                                                               *)
LEMMA VerifierKeepsAccount ==
  ASSUME Functional, ContainersAccounted, LocalNext
  PROVE  ContainersAccounted'
<1> USE DEF Functional, Move, Fail, Build, ContainersAccounted
<1>1. CASE Retag
  BY <1>1 DEF Retag
<1>2. ASSUME NEW e \in Execution, InspectImage(e) \/ InspectFails(e) \/ StartContainer(e)
      PROVE  ContainersAccounted'
  BY <1>2 DEF InspectImage, InspectFails, StartContainer, localVars
<1>3. ASSUME NEW e \in Execution, StartInterrupted(e)
      PROVE  ContainersAccounted'
  BY <1>3 DEF StartInterrupted
<1>4. ASSUME NEW e \in Execution, ContractHolds(e) \/ ContractFails(e) \/ ContainerExits(e)
      PROVE  ContainersAccounted'
  BY <1>4 DEF ContractHolds, ContractFails, ContainerExits, localVars
<1>5. ASSUME NEW e \in Execution, RemoveVerified(e) \/ RemoveFailed(e)
      PROVE  ContainersAccounted'
  BY <1>5 DEF RemoveVerified, RemoveFailed, RemoveContainer
<1> QED BY <1>1, <1>2, <1>3, <1>4, <1>5 DEF LocalNext

(* However many verifiers run, a container that outlives its execution was *)
(* left by an execution that was killed or interrupted, or by a docker rm  *)
(* that failed (verify_local_cockroach.py:156-167 and 244-246).            *)
THEOREM NoContainerForgotten == EvidenceSpec => []ContainersAccounted
<1>1. EvidenceInit => Functional /\ ContainersAccounted
  BY FunctionalInit DEF EvidenceInit, LocalInit, ContainersAccounted
<1>2. Functional /\ ContainersAccounted /\ [EvidenceNext]_evidenceVars
        => (Functional /\ ContainersAccounted)'
  <2> SUFFICES ASSUME Functional, ContainersAccounted, [EvidenceNext]_evidenceVars
               PROVE  ContainersAccounted'
    BY FunctionalStep
  <2>1. CASE (FileNext \/ BootstrapNext \/ McpNext) /\ UNCHANGED localVars
    BY <2>1, OthersLeaveContainers
  <2>2. CASE LocalNext
    BY <2>2, VerifierKeepsAccount
  <2>3. CASE UNCHANGED evidenceVars
    BY <2>3 DEF evidenceVars, localVars, ContainersAccounted
  <2> QED BY <2>1, <2>2, <2>3 DEF EvidenceNext
<1> QED BY <1>1, <1>2, PTL DEF EvidenceSpec

-----------------------------------------------------------------------------
(***************************************************************************)
(* What is on the path: a receipt of an execution that has written, and    *)
(* what was true of a receipt when it was built is still true of it.       *)
(***************************************************************************)

(* From the receipt on.                                                    *)
Built == {"write", "opened", "written", "verified", "unconfirmed"}

(* Who is on the path has built a receipt and opened the file.             *)
PathHasWriter ==
  \A e \in Execution : Published(e) => pc[e] \in {"written", "verified", "unconfirmed"}

(* The steps a script takes before its receipt are its own.                *)
SchemaStep == {"initialize", "await_index", "examine"}
McpStep == {"configure", "list", "call", "leave"}
LocalStep == {"inspect", "start", "contract", "remove_verified", "remove_failed"}

(* Writing the file changes no receipt, and takes an execution no further  *)
(* back than it is.                                                        *)
LEMMA FileSteps ==
  ASSUME Functional, FileNext, NEW e \in Execution
  PROVE  /\ receipt' = receipt
         /\ pc'[e] \in Built => pc[e] \in Built
         /\ pc'[e] \in SchemaStep \union McpStep \union LocalStep => pc'[e] = pc[e]
BY DEF FileNext, OpenFails, Open, Write, WriteFails, ReadBack, Kill, Functional, Move, Fail,
       Built, SchemaStep, McpStep, LocalStep

(* A bootstrap that comes to write has examined the schema; it takes no    *)
(* step of the others.                                                     *)
LEMMA SchemaSteps ==
  ASSUME Functional, BootstrapNext, NEW e \in Execution
  PROVE  /\ pc'[e] \in Built =>
              \/ pc[e] \in Built /\ receipt'[e] = receipt[e]
              \/ receipt'[e] = SchemaReceipt /\ table' # "absent" /\ index' = "public"
         /\ pc'[e] \in McpStep \union LocalStep => pc'[e] = pc[e]
BY DEF BootstrapNext, CreateSchema, StartIndex, NothingToCreate, IndexAwaited, BootstrapFails,
       Examine, ObjectsMissing, IndexJobEnds, Functional, Move, Fail, Build,
       Built, McpStep, LocalStep

(* An inspection that comes to write has an answer without an error.       *)
LEMMA McpSteps ==
  ASSUME Functional, McpNext, NEW e \in Execution
  PROVE  /\ pc'[e] \in Built =>
              \/ pc[e] \in Built /\ receipt'[e] = receipt[e]
              \/ /\ receipt'[e] = McpReceipt(e)
                 /\ pc[e] = "leave" /\ Call(e, FALSE) \in called /\ UNCHANGED mcpVars
         /\ pc'[e] \in SchemaStep \union LocalStep => pc'[e] = pc[e]
BY DEF McpNext, OpenSession, ListTools, CallTool, McpFails, Report, Functional, Move, Fail, Build,
       Built, SchemaStep, LocalStep

(* A verifier that comes to write has removed its container.               *)
LEMMA LocalSteps ==
  ASSUME Functional, LocalNext, NEW e \in Execution
  PROVE  /\ pc'[e] \in Built =>
              \/ pc[e] \in Built /\ receipt'[e] = receipt[e]
              \/ /\ receipt'[e] = LocalReceipt(e)
                 /\ pc[e] = "remove_verified" /\ UNCHANGED <<digest, ran, retagged>>
         /\ pc'[e] \in SchemaStep \union McpStep => pc'[e] = pc[e]
<1> USE DEF Functional, Move, Fail, Build, Built, SchemaStep, McpStep
<1>1. CASE Retag
  BY <1>1 DEF Retag, UnchangedFile
<1>2. CASE \E d \in Execution : RemoveVerified(d) \/ RemoveFailed(d)
  BY <1>2 DEF RemoveVerified, RemoveFailed
<1>3. CASE \E d \in Execution : InspectImage(d) \/ InspectFails(d) \/ StartContainer(d)
                               \/ StartInterrupted(d) \/ ContractHolds(d) \/ ContractFails(d)
                               \/ ContainerExits(d)
  BY <1>3 DEF InspectImage, InspectFails, StartContainer, StartInterrupted, ContractHolds,
              ContractFails, ContainerExits, UnchangedFile
<1> QED BY <1>1, <1>2, <1>3 DEF LocalNext

(* The path names an execution only from its Write on.                     *)
LEMMA PathStep ==
  ASSUME Functional, PathHasWriter, [EvidenceNext]_evidenceVars
  PROVE  PathHasWriter'
<1>1. CASE FileNext
  <2> PICK d \in Execution :
           OpenFails(d) \/ Open(d) \/ Write(d) \/ WriteFails(d) \/ ReadBack(d) \/ Kill(d)
    BY <1>1 DEF FileNext
  <2> USE DEF Functional, Move, Fail, PathHasWriter, Published
  <2>1. CASE OpenFails(d)
    BY <2>1 DEF OpenFails
  <2>2. CASE Open(d)
    BY <2>2 DEF Open
  <2>3. CASE Write(d)
    BY <2>3 DEF Write
  <2>4. CASE WriteFails(d)
    BY <2>4 DEF WriteFails
  <2>5. CASE ReadBack(d)
    BY <2>5 DEF ReadBack
  <2>6. CASE Kill(d)
    BY <2>6 DEF Kill, Over
  <2> QED BY <2>1, <2>2, <2>3, <2>4, <2>5, <2>6
<1>2. CASE BootstrapNext \/ McpNext \/ LocalNext
  <2>1. UNCHANGED file /\ \A d \in Execution :
          pc[d] \in {"written", "verified", "unconfirmed"} => pc'[d] = pc[d]
    <3> USE DEF Functional, Move, Fail, Build
    <3>1. CASE BootstrapNext
      BY <3>1 DEF BootstrapNext, CreateSchema, StartIndex, NothingToCreate, IndexAwaited,
                  BootstrapFails, Examine, ObjectsMissing, IndexJobEnds
    <3>2. CASE McpNext
      BY <3>2 DEF McpNext, OpenSession, ListTools, CallTool, McpFails, Report
    <3>3. CASE LocalNext
      BY <3>3 DEF LocalNext, InspectImage, InspectFails, StartContainer, StartInterrupted,
                  ContractHolds, ContractFails, ContainerExits, RemoveVerified, RemoveFailed,
                  Retag, UnchangedFile
    <3> QED BY <1>2, <3>1, <3>2, <3>3
  <2> QED BY <2>1 DEF PathHasWriter, Published
<1>3. CASE UNCHANGED evidenceVars
  BY <1>3 DEF evidenceVars, PathHasWriter, Published
<1> QED BY <1>1, <1>2, <1>3 DEF EvidenceNext

(* The receipts of the three scripts do not look alike                     *)
(* (managed_bootstrap.py:82-99, mcp.py:144-159,                            *)
(* verify_local_cockroach.py:49-63).                                       *)
LEMMA ShapesDiffer ==
  ASSUME NEW e \in Execution
  PROVE  /\ ~ IsMcpReceipt(SchemaReceipt) /\ ~ IsLocalReceipt(SchemaReceipt)
         /\ ~ IsSchemaReceipt(McpReceipt(e)) /\ ~ IsLocalReceipt(McpReceipt(e))
         /\ ~ IsSchemaReceipt(LocalReceipt(e)) /\ ~ IsMcpReceipt(LocalReceipt(e))
<1>1. /\ DOMAIN SchemaReceipt = {"size"}
      /\ DOMAIN McpReceipt(e) = {"size", "tool", "advertised"}
      /\ DOMAIN LocalReceipt(e) = {"size", "digest"}
  BY DEF SchemaReceipt, McpReceipt, LocalReceipt
<1> QED BY <1>1 DEF IsSchemaReceipt, IsMcpReceipt, IsLocalReceipt

(* The path is empty at the start, and nobody has a receipt.               *)
LEMMA PathInit ==
  EvidenceInit => Functional /\ PathHasWriter /\ \A e \in Execution : pc[e] \notin Built
BY FunctionalInit DEF EvidenceInit, FileInit, AbsentFile, PathHasWriter, Published, Built

-----------------------------------------------------------------------------
(***************************************************************************)
(* The schema.                                                             *)
(***************************************************************************)

(* Once there and finished, a table and its index stay.                    *)
SchemaThere == table # "absent" /\ index = "public"

SchemaWasSeen ==
  \A e \in Execution : pc[e] \in Built /\ IsSchemaReceipt(receipt[e]) => SchemaThere

(* No statement of the script takes a finished index away.                 *)
LEMMA SchemaStays ==
  ASSUME SchemaThere, BootstrapNext
  PROVE  SchemaThere'
BY DEF SchemaThere, BootstrapNext, CreateSchema, StartIndex, NothingToCreate, IndexAwaited,
       BootstrapFails, Examine, ObjectsMissing, IndexJobEnds

(* A receipt of another script is not taken for one of the schema.         *)
LEMMA SchemaSeenStep ==
  ASSUME Functional, SchemaWasSeen, [EvidenceNext]_evidenceVars
  PROVE  SchemaWasSeen'
<1> USE DEF SchemaWasSeen
<1>1. CASE FileNext /\ UNCHANGED schemaVars
  BY <1>1, FileSteps DEF schemaVars, SchemaThere
<1>2. CASE BootstrapNext
  BY <1>2, SchemaSteps, SchemaStays DEF SchemaThere
<1>3. CASE McpNext /\ UNCHANGED schemaVars
  BY <1>3, McpSteps, ShapesDiffer DEF schemaVars, SchemaThere
<1>4. CASE LocalNext /\ UNCHANGED schemaVars
  BY <1>4, LocalSteps, ShapesDiffer DEF schemaVars, SchemaThere
<1>5. CASE UNCHANGED evidenceVars
  BY <1>5 DEF evidenceVars, schemaVars, SchemaThere
<1> QED BY <1>1, <1>2, <1>3, <1>4, <1>5 DEF EvidenceNext

(* Whatever schema the bootstraps find, and however many build its index   *)
(* at a time, a receipt on the path is about a table and a finished index  *)
(* that are there (managed_bootstrap.py:45-71).                            *)
THEOREM SchemaReceiptsTrue == EvidenceSpec => []SchemaReceiptTrue
<1> DEFINE Inv == Functional /\ PathHasWriter /\ SchemaWasSeen
<1>1. EvidenceInit => Inv
  BY PathInit DEF SchemaWasSeen
<1>2. Inv /\ [EvidenceNext]_evidenceVars => Inv'
  BY FunctionalStep, PathStep, SchemaSeenStep
<1>3. Inv => SchemaReceiptTrue
  BY DEF SchemaReceiptTrue, PathHasWriter, SchemaWasSeen, SchemaThere, Built
<1> QED BY <1>1, <1>2, <1>3, PTL DEF EvidenceSpec

-----------------------------------------------------------------------------
(***************************************************************************)
(* The MCP service.                                                        *)
(***************************************************************************)

(* The allowlist is passed before a session is opened, and the list of the *)
(* session before a call.                                                  *)
McpGated ==
  /\ \A c \in called : c.tool \in READ_ONLY_TOOLS
  /\ \A e \in Execution :
       /\ advertised[e] \subseteq READ_ONLY_TOOLS
       /\ pc[e] \in {"list", "call", "leave"} => wanted[e] \in READ_ONLY_TOOLS
       /\ pc[e] \in {"call", "leave"} => wanted[e] \in advertised[e]

Backed(e) ==
  /\ [by |-> e, tool |-> receipt[e].tool, error |-> FALSE] \in called
  /\ receipt[e].tool \in receipt[e].advertised
  /\ receipt[e].advertised \subseteq READ_ONLY_TOOLS

McpWasBacked ==
  \A e \in Execution : pc[e] \in Built /\ IsMcpReceipt(receipt[e]) => Backed(e)

(* Of the others' steps, none is in a session.                             *)
LEMMA McpGatedElsewhere ==
  ASSUME McpGated, UNCHANGED mcpVars,
         \A e \in Execution : pc'[e] \in McpStep => pc'[e] = pc[e]
  PROVE  McpGated'
BY DEF McpGated, mcpVars, McpStep

(* A session: only what passed both is called.                             *)
LEMMA McpGatedStep ==
  ASSUME Functional, McpGated, McpNext
  PROVE  McpGated'
<1> PICK e \in Execution : OpenSession(e) \/ ListTools(e) \/ CallTool(e) \/ McpFails(e) \/ Report(e)
  BY DEF McpNext
<1> USE DEF Functional, Move, Fail, Build, McpGated, Call
<1>1. CASE OpenSession(e)
  BY <1>1 DEF OpenSession, mcpVars
<1>2. CASE ListTools(e)
  BY <1>2 DEF ListTools
<1>3. CASE CallTool(e)
  BY <1>3 DEF CallTool
<1>4. CASE McpFails(e)
  BY <1>4 DEF McpFails
<1>5. CASE Report(e)
  BY <1>5 DEF Report, mcpVars
<1> QED BY <1>1, <1>2, <1>3, <1>4, <1>5

(* What was called stays called, and a receipt says what its session did.  *)
LEMMA McpBackedStep ==
  ASSUME Functional, McpGated, McpWasBacked, [EvidenceNext]_evidenceVars
  PROVE  McpWasBacked'
<1> USE DEF McpWasBacked, Backed
<1>1. CASE FileNext /\ UNCHANGED mcpVars
  BY <1>1, FileSteps DEF mcpVars
<1>2. CASE BootstrapNext /\ UNCHANGED mcpVars
  BY <1>2, SchemaSteps, ShapesDiffer DEF mcpVars
<1>3. CASE McpNext
  <2>1. called \subseteq called'
    BY <1>3 DEF McpNext, OpenSession, ListTools, CallTool, McpFails, Report, mcpVars
  <2> SUFFICES ASSUME NEW e \in Execution, pc'[e] \in Built, IsMcpReceipt(receipt[e])'
               PROVE  Backed(e)'
    OBVIOUS
  <2>2. CASE pc[e] \in Built /\ receipt'[e] = receipt[e]
    BY <2>1, <2>2
  <2>3. CASE /\ receipt'[e] = McpReceipt(e)
             /\ pc[e] = "leave" /\ Call(e, FALSE) \in called /\ UNCHANGED mcpVars
    BY <2>3 DEF McpReceipt, Call, McpGated, mcpVars
  <2> QED BY <1>3, <2>2, <2>3, McpSteps
<1>4. CASE LocalNext /\ UNCHANGED mcpVars
  BY <1>4, LocalSteps, ShapesDiffer DEF mcpVars
<1>5. CASE UNCHANGED evidenceVars
  BY <1>5 DEF evidenceVars, mcpVars
<1> QED BY <1>1, <1>2, <1>3, <1>4, <1>5 DEF EvidenceNext

(* Whatever tools there are and whatever the service lists, only read-only *)
(* ones are called, and a receipt on the path names one that its session   *)
(* advertised and answered (mcp.py:123-158).                               *)
THEOREM McpReceiptsBacked == EvidenceSpec => []McpReceiptBacked
<1> DEFINE Inv == Functional /\ PathHasWriter /\ McpGated /\ McpWasBacked
<1>1. EvidenceInit => Inv
  <2>1. EvidenceInit => McpWasBacked
    BY PathInit DEF McpWasBacked
  <2>2. EvidenceInit => McpGated
    BY DEF EvidenceInit, McpInit, McpGated
  <2> QED BY <2>1, <2>2, PathInit
<1>2. Inv /\ [EvidenceNext]_evidenceVars => Inv'
  <2> SUFFICES ASSUME Inv, [EvidenceNext]_evidenceVars
               PROVE  McpGated'
    BY FunctionalStep, PathStep, McpBackedStep
  <2>1. CASE FileNext /\ UNCHANGED mcpVars
    BY <2>1, FileSteps, McpGatedElsewhere
  <2>2. CASE BootstrapNext /\ UNCHANGED mcpVars
    BY <2>2, SchemaSteps, McpGatedElsewhere
  <2>3. CASE McpNext
    BY <2>3, McpGatedStep
  <2>4. CASE LocalNext /\ UNCHANGED mcpVars
    BY <2>4, LocalSteps, McpGatedElsewhere
  <2>5. CASE UNCHANGED evidenceVars
    BY <2>5, McpGatedElsewhere DEF evidenceVars
  <2> QED BY <2>1, <2>2, <2>3, <2>4, <2>5 DEF EvidenceNext
<1>3. Inv => McpReceiptBacked
  BY DEF McpReceiptBacked, PathHasWriter, McpGated, McpWasBacked, Backed, Built
<1> QED BY <1>1, <1>2, <1>3, PTL DEF EvidenceSpec

-----------------------------------------------------------------------------
(***************************************************************************)
(* The image of the local verifier.                                        *)
(***************************************************************************)

(* Between the lookup and docker run the tag may move; after it, it no     *)
(* longer matters.                                                         *)
ImageAccounted ==
  \A e \in Execution :
    /\ pc[e] = "start" => digest[e] = image \/ e \in retagged
    /\ pc[e] \in {"contract", "remove_verified"} => digest[e] = ran[e] \/ e \in retagged
    /\ pc[e] \in Built /\ IsLocalReceipt(receipt[e]) =>
         receipt[e].digest = ran[e] \/ e \in retagged

(* The other steps look up no image.                                       *)
LEMMA ImageElsewhere ==
  ASSUME ImageAccounted, UNCHANGED localVars,
         \A e \in Execution :
           /\ pc'[e] \in LocalStep => pc'[e] = pc[e]
           /\ pc'[e] \in Built =>
                \/ pc[e] \in Built /\ receipt'[e] = receipt[e]
                \/ ~ IsLocalReceipt(receipt'[e])
  PROVE  ImageAccounted'
BY DEF ImageAccounted, LocalStep, localVars, IsLocalReceipt

(* The verifiers and whoever moves the tag.                                *)
LEMMA ImageLocally ==
  ASSUME Functional, ImageAccounted, LocalNext
  PROVE  ImageAccounted'
<1> USE DEF Functional, Move, Fail, Build, ImageAccounted, IsLocalReceipt, Built, UnchangedFile
<1>1. CASE Retag
  BY <1>1 DEF Retag
<1>2. ASSUME NEW e \in Execution, InspectImage(e) \/ InspectFails(e)
      PROVE  ImageAccounted'
  BY <1>2 DEF InspectImage, InspectFails, localVars
<1>3. ASSUME NEW e \in Execution, StartContainer(e)
      PROVE  ImageAccounted'
  BY <1>3 DEF StartContainer
<1>4. ASSUME NEW e \in Execution, StartInterrupted(e)
      PROVE  ImageAccounted'
  BY <1>4 DEF StartInterrupted
<1>5. ASSUME NEW e \in Execution, ContractHolds(e) \/ ContractFails(e) \/ ContainerExits(e)
      PROVE  ImageAccounted'
  BY <1>5 DEF ContractHolds, ContractFails, ContainerExits, localVars
<1>6. ASSUME NEW e \in Execution, RemoveVerified(e)
      PROVE  ImageAccounted'
  BY <1>6 DEF RemoveVerified, LocalReceipt
<1>7. ASSUME NEW e \in Execution, RemoveFailed(e)
      PROVE  ImageAccounted'
  BY <1>7 DEF RemoveFailed
<1> QED BY <1>1, <1>2, <1>3, <1>4, <1>5, <1>6, <1>7 DEF LocalNext

(* However often the tag is moved: the digest in a receipt on the path is  *)
(* of the image the contract ran against, or the tag was moved between the *)
(* two commands (verify_local_cockroach.py:151-166).                       *)
THEOREM LocalReceiptsNameImage == EvidenceSpec => []LocalReceiptNamesImage
<1> DEFINE Inv == Functional /\ PathHasWriter /\ ImageAccounted
<1>1. EvidenceInit => Inv
  <2>1. EvidenceInit => \A e \in Execution : pc[e] \in {"initialize", "configure", "inspect"}
    BY DEF EvidenceInit
  <2> QED BY <2>1, PathInit DEF ImageAccounted
<1>2. Inv /\ [EvidenceNext]_evidenceVars => Inv'
  <2> SUFFICES ASSUME Inv, [EvidenceNext]_evidenceVars
               PROVE  ImageAccounted'
    BY FunctionalStep, PathStep
  <2>1. CASE FileNext /\ UNCHANGED localVars
    BY <2>1, FileSteps, ImageElsewhere
  <2>2. CASE BootstrapNext /\ UNCHANGED localVars
    BY <2>2, SchemaSteps, ShapesDiffer, ImageElsewhere
  <2>3. CASE McpNext /\ UNCHANGED localVars
    BY <2>3, McpSteps, ShapesDiffer, ImageElsewhere
  <2>4. CASE LocalNext
    BY <2>4, ImageLocally
  <2>5. CASE UNCHANGED evidenceVars
    BY <2>5, ImageElsewhere DEF evidenceVars
  <2> QED BY <2>1, <2>2, <2>3, <2>4, <2>5 DEF EvidenceNext
<1>3. Inv => LocalReceiptNamesImage
  BY DEF LocalReceiptNamesImage, PathHasWriter, ImageAccounted, Built
<1> QED BY <1>1, <1>2, <1>3, PTL DEF EvidenceSpec
=============================================================================
