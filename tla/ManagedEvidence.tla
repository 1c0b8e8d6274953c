-------------------------- MODULE ManagedEvidence ---------------------------
(***************************************************************************)
(* collect_managed_stack_evidence and write_managed_stack_receipt          *)
(* (managed_evidence.py), the decisive verifier of the deployed stack, run *)
(* beside the visitors of the public demo it verifies.                     *)
(*                                                                         *)
(* A verifier bootstraps the schema, seeds and runs the ingest scenario    *)
(* through the hosted demo, asserts what came back, does the same through  *)
(* a connection of its own, calls the managed MCP endpoint, and writes the *)
(* receipt: to a temporary file, read back, and renamed.                   *)
(***************************************************************************)
EXTENDS Demo

CONSTANT Verifier    \* executions of verify_managed_stack.py

VARIABLES
  phase,       \* where the verifier is
  temporary,   \* the file <receipt>.tmp
  receipt      \* the receipt file

evidenceVars == <<phase, temporary, receipt>>
stackVars == <<rows, inflight, pc, request, choice, recorded, posts, seeding, reply,
               phase, temporary, receipt>>

(* The invocations one verifier makes: through the API, and directly. *)
Hosted(v) == <<v, "hosted">>
Direct(v) == <<v, "direct">>

Invocations == {Hosted(v) : v \in Verifier} \union {Direct(v) : v \in Verifier}

(* The others are those of the visitors. *)
ASSUME InvocationAssumption == Invocations \subseteq Run /\ Invocations \subseteq Seeder

(* What is in a file is a receipt, or neither of these. *)
ASSUME VerifierAssumption == {"absent", "torn"} \intersect Verifier = {}

Checked == "ingest"

StackInit ==
  /\ DemoInit
  /\ \A i \in Invocations : request[i] = DemoRequest(Checked)
  /\ phase = [v \in Verifier |-> "bootstrap"]
  /\ temporary = "absent"
  /\ receipt = "absent"

Advance(v, from, to) == phase[v] = from /\ phase' = [phase EXCEPT ![v] = to]

UnchangedDemo == UNCHANGED demoVars
UnchangedFiles == UNCHANGED <<temporary, receipt>>

(***************************************************************************)
(* The phases that call nothing modelled here: the schema bootstrap and    *)
(* the three public pages, and the MCP inspection.                         *)
(***************************************************************************)

Bootstrap(v) == Advance(v, "bootstrap", "hosted_seed") /\ UnchangedDemo /\ UnchangedFiles

InspectMCP(v) == Advance(v, "mcp", "write") /\ UnchangedDemo /\ UnchangedFiles

Active == {"bootstrap", "hosted_seed", "hosted_run", "assert", "direct_seed", "direct_run",
           "direct_recall", "mcp", "write", "filling", "check", "replace"}

(* A request to the demo times out or its sender dies: the invocation goes *)
(* on without a reader.                                                    *)
AbandonsRequest(v) ==
  /\ \/ Advance(v, "hosted_seed", "abandoned_seed")
     \/ Advance(v, "hosted_run", "abandoned_run")
  /\ UnchangedDemo /\ UnchangedFiles

(* An exception anywhere else, or the end of the process. *)
Fails(v) ==
  /\ phase[v] \in Active \ {"hosted_seed", "hosted_run"}
  /\ phase' = [phase EXCEPT ![v] = "failed"]
  /\ UnchangedDemo /\ UnchangedFiles

(***************************************************************************)
(* verify_public_demo.                                                     *)
(***************************************************************************)

SeedOver(i) == seeding[i].status # "running"
RunOver(i) == reply[i] \in {"200", "400", "409"} \/ pc[i] = "interrupted"

(* Whatever the status of the seeding, the run is requested next. *)
HostedSeedReturns(v) ==
  /\ SeedOver(Hosted(v))
  /\ Advance(v, "hosted_seed", "hosted_run")
  /\ UnchangedDemo /\ UnchangedFiles

HostedRunReturns(v) ==
  /\ RunOver(Hosted(v))
  /\ Advance(v, "hosted_run", "assert")
  /\ UnchangedDemo /\ UnchangedFiles

(* Mutant of DemoAsserted: a decision that was there before will do. *)
DemoAssertedOnReplay(v) ==
  /\ seeding[Hosted(v)].status = "answered"
  /\ reply[Hosted(v)] = "200"
  /\ choice[Hosted(v)].action = Expected[Checked]
  /\ choice[Hosted(v)].cites # NoCitation

(* The assertions on what the demo answered; the last one is               *)
(* `decision_persisted is True'.                                           *)
DemoAsserted(v) ==
  /\ seeding[Hosted(v)].status = "answered"
  /\ reply[Hosted(v)] = "200"
  /\ choice[Hosted(v)].action = Expected[Checked]
  /\ choice[Hosted(v)].cites # NoCitation
  /\ recorded[Hosted(v)].decision

AssertDemo(v) ==
  /\ phase[v] = "assert"
  /\ phase' = [phase EXCEPT ![v] = IF DemoAsserted(v) THEN "direct_seed" ELSE "rejected"]
  /\ UnchangedDemo /\ UnchangedFiles

(***************************************************************************)
(* verify_agent_memory_round_trip.                                         *)
(***************************************************************************)

DirectSeedReturns(v) ==
  /\ seeding[Direct(v)].status = "answered"
  /\ Advance(v, "direct_seed", "direct_run")
  /\ UnchangedDemo /\ UnchangedFiles

(* A missing prior or a broken contract raises. *)
DirectRunReturns(v) ==
  /\ RunOver(Direct(v))
  /\ phase[v] = "direct_run"
  /\ phase' = [phase EXCEPT ![v] =
       IF reply[Direct(v)] = "200" THEN "direct_recall" ELSE "rejected"]
  /\ UnchangedDemo /\ UnchangedFiles

Persisted(kind) ==
  \E e \in Memory(Tenant) : e.incident = RunIncident[Checked] /\ e.kind = kind

RecallPersisted(v) ==
  /\ phase[v] = "direct_recall"
  /\ phase' = [phase EXCEPT ![v] =
       IF /\ choice[Direct(v)].cites # NoCitation
          /\ Persisted("observation") /\ Persisted("decision")
       THEN "mcp" ELSE "rejected"]
  /\ UnchangedDemo /\ UnchangedFiles

(***************************************************************************)
(* write_managed_stack_receipt.                                            *)
(***************************************************************************)

(* write_bytes opens and truncates, then writes. *)
OpenTemporary(v) ==
  /\ Advance(v, "write", "filling")
  /\ temporary' = "torn"
  /\ UNCHANGED receipt /\ UnchangedDemo

FillTemporary(v) ==
  /\ Advance(v, "filling", "check")
  /\ temporary' = v
  /\ UNCHANGED receipt /\ UnchangedDemo

(* What is read back parses and validates, or raises. *)
CheckTemporary(v) ==
  /\ temporary \in Verifier
  /\ Advance(v, "check", "replace")
  /\ UnchangedDemo /\ UnchangedFiles

ReplaceReceipt(v) ==
  /\ temporary # "absent"
  /\ Advance(v, "replace", "verified")
  /\ receipt' = temporary
  /\ temporary' = "absent"
  /\ UnchangedDemo

(***************************************************************************)
(* The demo's own steps.  A hosted invocation goes on when the verifier    *)
(* that sent it has gone; a direct one does not.                           *)
(***************************************************************************)

MaySeed(i) ==
  \/ i \notin Invocations
  \/ \E v \in Verifier :
       \/ i = Hosted(v) /\ phase[v] \in {"hosted_seed", "abandoned_seed"}
       \/ i = Direct(v) /\ phase[v] = "direct_seed"

MayRun(i) ==
  \/ i \notin Invocations
  \/ \E v \in Verifier :
       \/ i = Hosted(v) /\ phase[v] \in {"hosted_run", "abandoned_run"}
       \/ i = Direct(v) /\ phase[v] = "direct_run"

DemoStep ==
  /\ \/ \E s \in Seeder : MaySeed(s) /\ (Seed(s) \/ SeedStops(s) \/ SeedLosesCommit(s))
     \/ \E r \in Run : MayRun(r) /\ DemoRun(r)
     \/ Late
  /\ UNCHANGED evidenceVars

VerifierStep(v) ==
  \/ Bootstrap(v) \/ HostedSeedReturns(v) \/ HostedRunReturns(v) \/ AssertDemo(v)
  \/ DirectSeedReturns(v) \/ DirectRunReturns(v) \/ RecallPersisted(v) \/ InspectMCP(v)
  \/ OpenTemporary(v) \/ FillTemporary(v) \/ CheckTemporary(v) \/ ReplaceReceipt(v)

StackNext == DemoStep \/ \E v \in Verifier : VerifierStep(v) \/ AbandonsRequest(v) \/ Fails(v)

StackSpec == StackInit /\ [][StackNext]_stackVars

-----------------------------------------------------------------------------
(***************************************************************************)
(* Properties.                                                             *)
(***************************************************************************)

(* A published receipt is true: the ledger holds the observation and the   *)
(* decision of the scenario it names, the decision is the one the contract *)
(* fixes and it cites the reviewed prior, whoever else used the demo in    *)
(* the meantime and whatever was lost (managed_evidence.py:178-181 and     *)
(* 88-110).                                                                *)
ReceiptIsTrue ==
  receipt # "absent" =>
    LET q == DemoRequest(Checked)
    IN /\ ObservationOf(q) \in rows
       /\ DecisionOf(q, [action |-> Expected[Checked], cites |-> <<PriorIncident[Checked], 1>>])
            \in rows
       /\ Prior(Checked) \in rows

(* The receipt file is never half-written, although verifiers that run at  *)
(* the same time share one temporary file (managed_evidence.py:299-302).   *)
ReceiptIsWhole == receipt # "torn"

(* A replay that the hosted demo answers with 200 and the right action and *)
(* citation is not taken for a failed write (managed_evidence.py:222-225). *)
(* The code does not live up to this one.                                  *)
SafeReplayIsNoFailure ==
  \A v \in Verifier :
    /\ phase[v] = "rejected"
    /\ seeding[Hosted(v)].status = "answered"
    => reply[Hosted(v)] # "200" \/ recorded[Hosted(v)].decision
=============================================================================
