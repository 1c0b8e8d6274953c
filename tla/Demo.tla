-------------------------------- MODULE Demo --------------------------------
(***************************************************************************)
(* The public demo (demo.py, and the routes /demo/seed and /demo/run of    *)
(* lambda_handler.py): visitors seed three reviewed handoffs and run three *)
(* fixed scenarios through ContinuityAgent, all in one tenant, under fixed *)
(* replay keys, and as often and as concurrently as they please.           *)
(*                                                                         *)
(* Seeding is three appends in three transactions.  A run first looks for  *)
(* the handoff of its scenario.  If it misses it, it will answer 409,      *)
(* whatever is seeded in the meantime; if not, it lets the agent recall,   *)
(* choose and record, and only then compares the action with the one its   *)
(* scenario promises.                                                      *)
(***************************************************************************)
EXTENDS ContinuityAgent, Sequences

CONSTANT Seeder     \* invocations of /demo/seed

VARIABLES
  seeding,   \* the invocations of /demo/seed: next prior, status, `inserted'
  reply      \* what /demo/run answered: a status, or "none", or "missed" where
             \* the search is over, did not find the prior, and is not answered yet

demoVars == <<rows, inflight, pc, request, choice, recorded, posts, seeding, reply>>
agentVars == <<rows, inflight, pc, request, choice, recorded, posts>>

(***************************************************************************)
(* SCENARIOS.  Incident ids are numbered in their lexical order.           *)
(***************************************************************************)

Tenant == "demo"

Incident ==
  [prior_ingest |-> 1, prior_review |-> 2, prior_transcode |-> 3,
   run_ingest |-> 4, run_review |-> 5, run_transcode |-> 6]

Scenario == {"ingest", "transcode", "review"}

(* The order of the dictionary. *)
Seeds == <<"ingest", "transcode", "review">>

Expected ==
  [ingest |-> "inspect_ingest_validation", transcode |-> "inspect_transcode_capacity",
   review |-> "verify_publish_status"]

PriorIncident ==
  [ingest |-> Incident.prior_ingest, transcode |-> Incident.prior_transcode,
   review |-> Incident.prior_review]

RunIncident ==
  [ingest |-> Incident.run_ingest, transcode |-> Incident.run_transcode,
   review |-> Incident.run_review]

SeedKey == [ingest |-> "seed_1", transcode |-> "seed_2", review |-> "seed_3"]

RunKey == [ingest |-> "run_ingest", transcode |-> "run_transcode", review |-> "run_review"]

(* The words of a prior's summary and evidence that _choose_action looks   *)
(* for; every prior's evidence says "reviewed".                            *)
PriorWords ==
  [ingest |-> {"ingest", "checksum", "review"},
   transcode |-> {"transcode", "worker", "capacity", "review"},
   review |-> {"publish", "review"}]

Prior(s) ==
  [tenant |-> Tenant, incident |-> PriorIncident[s], sequence |-> 1,
   key |-> <<"client", SeedKey[s]>>, kind |-> "handoff", words |-> PriorWords[s],
   says |-> "", cites |-> NoCitation]

Priors == {Prior(s) : s \in Scenario}

DemoRequest(s) ==
  [tenant |-> Tenant, incident |-> RunIncident[s], sequence |-> 10,
   key |-> <<"client", RunKey[s]>>, observation |-> s]

DemoRequests == {DemoRequest(s) : s \in Scenario}

(* /demo/seed and /demo/run take nothing from their callers but the name   *)
(* of a scenario.                                                          *)
ASSUME FixedAssumption == Request = DemoRequests /\ Postable = Priors

(* The demo's agent is built without a limit of its own. *)
ASSUME RecallAssumption == RecallLimit = 3

(***************************************************************************)
(* The cosine of the feature hashes of an observation and an event, as its *)
(* rank among all those the demo can meet: the priors, the observations    *)
(* and the four decisions.  Equal ranks are equal cosines.                 *)
(***************************************************************************)

PriorRank ==
  [ingest    |-> [ingest |-> 3, review |-> 1, transcode |-> 0],
   transcode |-> [ingest |-> 1, review |-> 1, transcode |-> 1],
   review    |-> [ingest |-> 3, review |-> 8, transcode |-> 4]]

ObservationRank ==
  [ingest    |-> [ingest |-> 9, review |-> 4, transcode |-> 5],
   transcode |-> [ingest |-> 3, review |-> 2, transcode |-> 7],
   review    |-> [ingest |-> 5, review |-> 9, transcode |-> 6]]

DecisionRank ==
  [ingest    |-> [inspect_ingest_validation |-> 8, inspect_transcode_capacity |-> 2,
                  verify_publish_status |-> 6, request_more_evidence |-> 7],
   transcode |-> [inspect_ingest_validation |-> 4, inspect_transcode_capacity |-> 6,
                  verify_publish_status |-> 5, request_more_evidence |-> 0],
   review    |-> [inspect_ingest_validation |-> 1, inspect_transcode_capacity |-> 2,
                  verify_publish_status |-> 7, request_more_evidence |-> 0]]

ScenarioOfPrior(h) == CHOOSE s \in Scenario : PriorIncident[s] = h.incident

DemoScore(observation, e) ==
  CASE e.kind = "handoff" -> PriorRank[observation][ScenarioOfPrior(e)]
    [] e.kind = "observation" -> ObservationRank[observation][e.says]
    [] e.kind = "decision" -> DecisionRank[observation][e.says]

ASSUME ScoreAssumption == \A s \in Scenario, e \in Event : Score(s, e) = DemoScore(s, e)

(***************************************************************************)
(* /demo/seed                                                              *)
(***************************************************************************)

DemoInit ==
  /\ Init
  /\ seeding = [s \in Seeder |-> [next |-> 1, status |-> "running", inserted |-> {}]]
  /\ reply = [r \in Run |-> "none"]

(* Mutant of Seed: counts what it sent, not what was inserted. *)
SeedCountsSent(s) ==
  /\ seeding[s].status = "running"
  /\ LET scenario == Seeds[seeding[s].next]
         answer == StoreAnswer(Prior(scenario))
     IN /\ rows' = RowsAfter(rows, Prior(scenario), answer)
        /\ seeding' = [seeding EXCEPT ![s] =
             [next |-> @.next + 1,
              status |-> IF @.next = Len(Seeds) THEN "answered" ELSE "running",
              inserted |-> @.inserted \union {scenario}]]
  /\ posts' = posts \union (rows' \ rows)
  /\ UNCHANGED <<inflight, pc, request, choice, recorded, reply>>

(* One append of the loop; the last one is followed by the answer 200.     *)
Seed(s) ==
  /\ seeding[s].status = "running"
  /\ LET scenario == Seeds[seeding[s].next]
         e == Prior(scenario)
         answer == StoreAnswer(e)
     IN /\ answer \in {"true", "false"}
        /\ rows' = RowsAfter(rows, e, answer)
        /\ seeding' = [seeding EXCEPT ![s] =
             [next |-> @.next + 1,
              status |-> IF @.next = Len(Seeds) THEN "answered" ELSE "running",
              inserted |-> IF answer = "true" THEN @.inserted \union {scenario} ELSE @.inserted]]
  /\ posts' = posts \union (rows' \ rows)
  /\ UNCHANGED <<inflight, pc, request, choice, recorded, reply>>

(* Mutant of SeedStops: the error is swallowed and the loop goes on. *)
SeedSkips(s) ==
  /\ seeding[s].status = "running"
  /\ seeding' = [seeding EXCEPT
       ![s].next = @ + 1,
       ![s].status = IF seeding[s].next = Len(Seeds) THEN "answered" ELSE "running"]
  /\ UNCHANGED <<agentVars, reply>>

(* The process dies, times out or gets an error between two appends. *)
SeedStops(s) ==
  /\ seeding[s].status = "running"
  /\ seeding' = [seeding EXCEPT ![s].status = "stopped"]
  /\ UNCHANGED <<agentVars, reply>>

(* It is lost under a COMMIT. *)
SeedLosesCommit(s) ==
  /\ seeding[s].status = "running"
  /\ LET e == Prior(Seeds[seeding[s].next])
     IN LoseEvent(e)
  /\ seeding' = [seeding EXCEPT ![s].status = "stopped"]
  /\ UNCHANGED reply

(***************************************************************************)
(* /demo/run                                                               *)
(***************************************************************************)

ScenarioOf(r) == request[r].observation

(* The recall of 20 by the prior's summary sees the whole tenant: it never *)
(* holds more than the three priors and two rows for each scenario.        *)
PriorRecalled(r) == \E e \in Memory(Tenant) : e.incident = PriorIncident[ScenarioOf(r)]

(* Mutant of FindPrior: the run does not look for its prior. *)
FindNothing(r) == reply[r] = "none" /\ Start(r, request[r]) /\ UNCHANGED <<seeding, reply>>

FindPrior(r) ==
  /\ reply[r] = "none" /\ PriorRecalled(r)
  /\ Start(r, request[r])
  /\ UNCHANGED <<seeding, reply>>

Replies(r, from, to) ==
  /\ reply[r] = from /\ reply' = [reply EXCEPT ![r] = to]
  /\ UNCHANGED <<agentVars, seeding>>

(* The search is over, and the run is to be told to seed. *)
MissPrior(r) == ~PriorRecalled(r) /\ pc[r] = "idle" /\ Replies(r, "none", "missed")

(* It is told so, without another look at the ledger. *)
AnswerMissing(r) == Replies(r, "missed", "409")

(* Mutant of CompareAction: the contract is not compared. *)
AnswerAnyAction(r) ==
  pc[r] = "replied" /\ Replies(r, "none", "200")

(* The contract is compared with the action after both appends; the        *)
(* RuntimeError becomes a 400.                                             *)
CompareAction(r) ==
  /\ pc[r] = "replied"
  /\ Replies(r, "none", IF choice[r].action = Expected[ScenarioOf(r)] THEN "200" ELSE "400")

(* What a run of the agent does, and what can happen to it. *)
AgentStep(r) ==
  /\ Recall(r) \/ Observe(r) \/ Decide(r) \/ Interrupt(r) \/ LoseCommit(r)
  /\ UNCHANGED <<seeding, reply>>

Late ==
  /\ \E e \in inflight : LateCommit(e) \/ LateAbort(e)
  /\ UNCHANGED <<seeding, reply>>

DemoRun(r) ==
  \/ FindPrior(r) \/ MissPrior(r) \/ AnswerMissing(r)
  \/ AgentStep(r) \/ CompareAction(r)

DemoNext ==
  \/ \E s \in Seeder : Seed(s) \/ SeedStops(s) \/ SeedLosesCommit(s)
  \/ \E r \in Run : DemoRun(r)
  \/ Late

DemoSpec == DemoInit /\ [][DemoNext]_demoVars

-----------------------------------------------------------------------------
(***************************************************************************)
(* Properties.                                                             *)
(***************************************************************************)

(* However many seed at once, die half way and seed again, no prior is     *)
(* counted in two answers' `inserted' (demo.py:74-87).                     *)
SeedsCountOnce ==
  \A s, t \in Seeder : s # t => seeding[s].inserted \intersect seeding[t].inserted = {}

(* A run that looks for its prior after any seeding was answered 200 finds *)
(* it, and is not told to seed: the three transactions have left all the   *)
(* priors there, whoever inserted them and however the seedings overlapped *)
(* or died.  A run that had looked before may still be told so later       *)
(* (demo.py:76-87 and 97-99, lambda_handler.py:55-58).                     *)
SeededMeansAvailable ==
  [][\A r \in Run, s \in Seeder :
       seeding[s].status = "answered" /\ reply[r] = "none"
         => reply'[r] \notin {"missed", "409"}]_demoVars

(* A 200 cites the reviewed prior of its own scenario and nothing else,    *)
(* although all scenarios share one tenant (demo.py:88-110).               *)
AnswerCitesOwnPrior ==
  \A r \in Run : reply[r] = "200" =>
    /\ choice[r].cites = <<PriorIncident[ScenarioOf(r)], 1>>
    /\ Prior(ScenarioOf(r)) \in rows

(* What the runbook has the operator do in any order and as often as he    *)
(* likes is never answered 400: the review scenario, whatever else was     *)
(* run, and the ingest scenario while no other scenario has been run       *)
(* (docs/DEPLOYMENT_RUNBOOK.md:78-87).                                     *)
RunbookScenariosHold ==
  \A r \in Run : reply[r] = "400" =>
    /\ ScenarioOf(r) # "review"
    /\ ScenarioOf(r) = "ingest" =>
         \E e \in rows : e.incident \in {Incident.run_review, Incident.run_transcode}

(* Every scenario run against seeded memory meets its fixed contract       *)
(* (demo.py:108-109).  The code does not live up to this one.              *)
ContractHolds == \A r \in Run : reply[r] # "400"
=============================================================================
