----------------------- MODULE ManagedEvidence_proofs -----------------------
(***************************************************************************)
(* Proofs about Demo and ManagedEvidence, for any number of visitors who   *)
(* seed and run, any number of verifiers, and either backend.  With no     *)
(* verifier they are about Demo alone.                                     *)
(*                                                                         *)
(* The argument: the demo runs the agent of ContinuityAgent, on three      *)
(* fixed requests and three fixed handoffs, so what is proved there holds  *)
(* here; a row of the demo is known by its key or its position; and a      *)
(* ranking by fixed scores puts few rows before the prior of a scenario.   *)
(***************************************************************************)
EXTENDS ManagedEvidence, ContinuityAgent_proofs, FiniteSetTheorems

SeedStatus == {"running", "answered", "stopped"}

(* A prior that a seeding has passed is on record, whoever put it there.   *)
Seeded ==
  /\ seeding \in [Seeder -> [next : 1..4, status : SeedStatus, inserted : SUBSET Scenario]]
  /\ \A s \in Seeder :
       /\ seeding[s].status = "running" => seeding[s].next # 4
       /\ seeding[s].status = "answered" => seeding[s].next = 4
       /\ \A i \in 1..3 : i < seeding[s].next => Prior(Seeds[i]) \in rows
       /\ \A t \in seeding[s].inserted : Prior(t) \in rows

(* What a run that is under way, or was answered, has found and chosen.    *)
OfPrior(r) ==
  \E t \in Scenario : Prior(t) \in rows /\ choice[r] = ChoiceFrom(Prior(t))

Answers == {"none", "missed", "200", "400", "409"}

Keeps(r) ==
  /\ pc[r] # "idle" => Prior(ScenarioOf(r)) \in rows
  /\ choice[r] = Abstain \/ OfPrior(r)
  /\ pc[r] \in {"decide", "replied"} => ObservationOf(request[r]) \in rows
  /\ reply[r] \in {"200", "400"} => pc[r] = "replied"
  /\ reply[r] = "200" => choice[r].action = Expected[ScenarioOf(r)]
  /\ reply[r] = "400" => choice[r].action # Expected[ScenarioOf(r)]

Kept == \A r \in Run : Keeps(r)

(* Another scenario than ingest has been run.                              *)
OthersRun == \E e \in rows : e.incident \in {Incident.run_review, Incident.run_transcode}

(* What the contract of two scenarios depends on.                          *)
KeepsContract(r) ==
  pc[r] \in {"observe", "decide", "replied"} =>
    /\ ScenarioOf(r) = "review" => choice[r].action = Expected["review"]
    /\ ScenarioOf(r) = "ingest" => choice[r].action = Expected["ingest"] \/ OthersRun

Contracts == \A r \in Run : KeepsContract(r)

(* A verifier that has passed its assertions on the hosted demo.           *)
Passed == {"direct_seed", "direct_run", "direct_recall", "mcp", "write", "filling", "check",
           "replace", "verified"}

Phases ==
  Active \union {"abandoned_seed", "abandoned_run", "failed", "rejected", "verified"}

Verified ==
  /\ phase \in [Verifier -> Phases]
  /\ \A v \in Verifier :
       /\ phase[v] \in Passed => DemoAsserted(v)
       /\ phase[v] \in {"check", "replace"} => temporary = v
  /\ \A i \in Invocations : request[i] = DemoRequest(Checked)
  /\ receipt \in {"absent"} \union Verifier
  /\ receipt # "absent" => \E v \in Verifier : phase[v] = "verified"

-----------------------------------------------------------------------------
(***************************************************************************)
(* The tables of the demo.                                                 *)
(***************************************************************************)

(* The list of seeds is that of the scenarios (demo.py:74-85).             *)
LEMMA SeedsList ==
  /\ Len(Seeds) = 3
  /\ \A i \in 1..3 : Seeds[i] \in Scenario
  /\ \A s \in Scenario : \E i \in 1..3 : Seeds[i] = s
<1>1. Seeds[1] = "ingest" /\ Seeds[2] = "transcode" /\ Seeds[3] = "review" /\ Len(Seeds) = 3
  BY DEF Seeds
<1> QED BY <1>1 DEF Scenario

(* A scenario has its own incidents, keys and action (demo.py:22-71).      *)
LEMMA Tables ==
  ASSUME NEW s \in Scenario, NEW t \in Scenario
  PROVE  /\ PriorIncident[s] = PriorIncident[t] => s = t
         /\ RunIncident[s] = RunIncident[t] => s = t
         /\ SeedKey[s] = SeedKey[t] => s = t
         /\ RunKey[s] = RunKey[t] => s = t
         /\ Expected[s] = Expected[t] => s = t
         /\ PriorIncident[s] # RunIncident[t]
         /\ SeedKey[s] # RunKey[t]
         /\ Expected[s] # "request_more_evidence"
BY DEF Scenario, PriorIncident, RunIncident, SeedKey, RunKey, Expected, Incident

(* A prior leads the agent to the action its scenario promises, with the   *)
(* prior as its citation (agent.py:100-119, demo.py:22-71).                *)
LEMMA PriorChoice ==
  ASSUME NEW s \in Scenario
  PROVE  ChoiceFrom(Prior(s)) = [action |-> Expected[s], cites |-> <<PriorIncident[s], 1>>]
<1>1. ActionFor(Prior(s).words) = Expected[s]
  BY DEF Prior, Scenario, PriorWords, Expected, ActionFor, Names, IngestPath, TranscodePath, ReviewPath
<1> QED BY <1>1, Tables DEF ChoiceFrom, Prior

(* The rows the demo can have.                                             *)
LEMMA DemoEvents ==
  ASSUME NEW e \in Event
  PROVE  \E s \in Scenario :
           \/ e = Prior(s)
           \/ e = ObservationOf(DemoRequest(s))
           \/ \E chosen \in Choice : e = DecisionOf(DemoRequest(s), chosen)
BY FixedAssumption DEF Event, Priors, DemoRequests

(* What tells the demo's rows apart (demo.py:74-85 and 100-107).           *)
LEMMA PriorFields ==
  ASSUME NEW s \in Scenario
  PROVE  /\ Prior(s).tenant = Tenant /\ Prior(s).incident = PriorIncident[s]
         /\ Prior(s).sequence = 1 /\ Prior(s).key = <<"client", SeedKey[s]>>
         /\ Prior(s).kind = "handoff" /\ Prior(s) \in Postable
BY FixedAssumption DEF Prior, Priors

(* The request of a scenario, and what its run appends (demo.py:100-107).  *)
LEMMA RunFields ==
  ASSUME NEW s \in Scenario
  PROVE  /\ DemoRequest(s) \in Request
         /\ DemoRequest(s).observation = s /\ DemoRequest(s).tenant = Tenant
         /\ DemoRequest(s).incident = RunIncident[s] /\ DemoRequest(s).sequence = 10
         /\ DemoRequest(s).key = <<"client", RunKey[s]>>
         /\ ObservationOf(DemoRequest(s)).tenant = Tenant
         /\ ObservationOf(DemoRequest(s)).incident = RunIncident[s]
         /\ ObservationOf(DemoRequest(s)).sequence = 10
         /\ ObservationOf(DemoRequest(s)).key = <<"client", RunKey[s]>>
         /\ ObservationOf(DemoRequest(s)).kind = "observation"
         /\ ObservationOf(DemoRequest(s)).says = s
<1>1. DemoRequest(s) \in Request
  BY FixedAssumption DEF DemoRequests
<1>2. /\ DemoRequest(s).observation = s /\ DemoRequest(s).tenant = Tenant
      /\ DemoRequest(s).incident = RunIncident[s] /\ DemoRequest(s).sequence = 10
      /\ DemoRequest(s).key = <<"client", RunKey[s]>>
  BY DEF DemoRequest
<1> QED BY <1>1, <1>2 DEF ObservationOf

(* And its decision (agent.py:72-89).                                      *)
LEMMA DecisionFields ==
  ASSUME NEW s \in Scenario, NEW chosen
  PROVE  /\ DecisionOf(DemoRequest(s), chosen).tenant = Tenant
         /\ DecisionOf(DemoRequest(s), chosen).incident = RunIncident[s]
         /\ DecisionOf(DemoRequest(s), chosen).sequence = 11
         /\ DecisionOf(DemoRequest(s), chosen).key = <<"decision", <<"client", RunKey[s]>>>>
         /\ DecisionOf(DemoRequest(s), chosen).kind = "decision"
         /\ DecisionOf(DemoRequest(s), chosen).says = chosen.action
BY RunFields DEF DecisionOf, DecisionKey

(* The kinds of key.                                                       *)
LEMMA DemoKeys ==
  ASSUME NEW s \in Scenario, NEW t \in Scenario
  PROVE  /\ <<"client", SeedKey[s]>> = <<"client", SeedKey[t]>> => s = t
         /\ <<"client", RunKey[s]>> = <<"client", RunKey[t]>> => s = t
         /\ <<"client", SeedKey[s]>> # <<"client", RunKey[t]>>
         /\ <<"client", SeedKey[s]>> # <<"decision", <<"client", RunKey[t]>>>>
         /\ <<"client", RunKey[s]>> # <<"decision", <<"client", RunKey[t]>>>>
BY Tables

(* What bears a prior's key, or stands at its position, is that prior      *)
(* (demo.py:74-85).                                                        *)
LEMMA PriorFound ==
  ASSUME NEW s \in Scenario, NEW e \in Event,
         \/ ReplayKey(e) = ReplayKey(Prior(s))
         \/ Position(e) = Position(Prior(s))
         \/ e.incident = PriorIncident[s]
  PROVE  e = Prior(s)
<1>1. e.key = <<"client", SeedKey[s]>> \/ e.incident = PriorIncident[s]
  BY PriorFields DEF ReplayKey, Position
<1>2. PICK t \in Scenario : \/ e = Prior(t)
                           \/ e = ObservationOf(DemoRequest(t))
                           \/ \E chosen \in Choice : e = DecisionOf(DemoRequest(t), chosen)
  BY DemoEvents
<1>3. ASSUME e = Prior(t)
      PROVE  s = t
  <2>1. e.key = <<"client", SeedKey[t]>> /\ e.incident = PriorIncident[t]
    BY <1>3, PriorFields
  <2> QED BY <1>1, <2>1, DemoKeys, Tables
<1>4. ASSUME e # Prior(t)
      PROVE  FALSE
  <2>1. /\ e.key = <<"client", RunKey[t]>> \/ e.key = <<"decision", <<"client", RunKey[t]>>>>
        /\ e.incident = RunIncident[t]
    <3>1. CASE e = ObservationOf(DemoRequest(t))
      BY <3>1, RunFields
    <3>2. ASSUME NEW chosen \in Choice, e = DecisionOf(DemoRequest(t), chosen)
          PROVE  e.key = <<"decision", <<"client", RunKey[t]>>>> /\ e.incident = RunIncident[t]
      BY <3>2, DecisionFields
    <3> QED BY <1>2, <1>4, <3>1, <3>2
  <2> QED BY <1>1, <2>1, DemoKeys, Tables
<1> QED BY <1>3, <1>4

(* And so for the observation of a scenario (demo.py:100-107).             *)
LEMMA ObservationFound ==
  ASSUME NEW s \in Scenario, NEW e \in Event,
         \/ ReplayKey(e) = ReplayKey(ObservationOf(DemoRequest(s)))
         \/ Position(e) = Position(ObservationOf(DemoRequest(s)))
  PROVE  e = ObservationOf(DemoRequest(s))
<1>1. \/ e.key = <<"client", RunKey[s]>>
      \/ e.incident = RunIncident[s] /\ e.sequence = 10
  BY RunFields DEF ReplayKey, Position
<1>2. PICK t \in Scenario : \/ e = Prior(t)
                           \/ e = ObservationOf(DemoRequest(t))
                           \/ \E chosen \in Choice : e = DecisionOf(DemoRequest(t), chosen)
  BY DemoEvents
<1>3. ASSUME e = ObservationOf(DemoRequest(t))
      PROVE  s = t
  <2>1. e.key = <<"client", RunKey[t]>> /\ e.incident = RunIncident[t]
    BY <1>3, RunFields
  <2> QED BY <1>1, <2>1, DemoKeys, Tables
<1>4. ASSUME e = Prior(t)
      PROVE  FALSE
  <2>1. e.key = <<"client", SeedKey[t]>> /\ e.incident = PriorIncident[t]
    BY <1>4, PriorFields
  <2> QED BY <1>1, <2>1, DemoKeys, Tables
<1>5. ASSUME NEW chosen \in Choice, e = DecisionOf(DemoRequest(t), chosen)
      PROVE  FALSE
  <2>1. e.key = <<"decision", <<"client", RunKey[t]>>>> /\ e.sequence = 11
    BY <1>5, DecisionFields
  <2> QED BY <1>1, <2>1, DemoKeys, Tables
<1> QED BY <1>2, <1>3, <1>4, <1>5

(* An append of either that returns has left it there or found it there,   *)
(* on either backend (store.py:56-61).                                     *)
LEMMA ReturnedIsThere ==
  ASSUME TypeOK, NEW s \in Scenario, NEW e \in {Prior(s), ObservationOf(DemoRequest(s))},
         StoreAnswer(e) \in {"true", "false"}
  PROVE  e \in RowsAfter(rows, e, StoreAnswer(e))
<1>1. CASE StoreAnswer(e) = "true"
  BY <1>1 DEF RowsAfter
<1>2. CASE StoreAnswer(e) = "false"
  <2>1. PICK f \in rows : ReplayKey(f) = ReplayKey(e) \/ Position(f) = Position(e)
    BY <1>2, AnswerTrue DEF KeyTaken, PositionTaken
  <2>2. f = e
    BY <2>1, PriorFound, ObservationFound DEF TypeOK
  <2> QED BY <1>2, <2>1, <2>2 DEF RowsAfter
<1> QED BY <1>1, <1>2

-----------------------------------------------------------------------------
(***************************************************************************)
(* The demo runs the agent.                                                *)
(***************************************************************************)

(* One append of a seeding: its prior is there when it returns, and was    *)
(* not there before where the answer counts it (demo.py:74-87).            *)
LEMMA SeedEffect ==
  ASSUME TypeOK, Seeded, NEW s \in Seeder, Seed(s)
  PROVE  \E i \in 1..3 :
           /\ seeding[s].next = i
           /\ Prior(Seeds[i]) \in rows'
           /\ UNCHANGED <<rows, posts>> \/ RecordEvent(Prior(Seeds[i]))
           /\ \E counted \in SUBSET Scenario :
                /\ seeding' = [seeding EXCEPT ![s] =
                     [next |-> i + 1, status |-> IF i = 3 THEN "answered" ELSE "running",
                      inserted |-> counted]]
                /\ \/ counted = seeding[s].inserted
                   \/ /\ counted = seeding[s].inserted \union {Seeds[i]}
                      /\ Prior(Seeds[i]) \notin rows
<1> DEFINE i == seeding[s].next
           e == Prior(Seeds[i])
           counted == IF StoreAnswer(e) = "true" THEN seeding[s].inserted \union {Seeds[i]}
                      ELSE seeding[s].inserted
<1>1. i \in 1..3
  BY DEF Seed, Seeded
<1>2. Seeds[i] \in Scenario
  BY <1>1, SeedsList
<1>3. e \in rows'
  BY <1>2, ReturnedIsThere DEF Seed
<1>4. StoreAnswer(e) = "true" => Free(rows, e) /\ e \notin rows
  BY AnswerTrue DEF Free, KeyTaken
<1>5. UNCHANGED <<rows, posts>> \/ RecordEvent(e)
  <2>1. rows' = RowsAfter(rows, e, StoreAnswer(e)) /\ posts' = posts \union (rows' \ rows)
    BY DEF Seed
  <2>2. CASE StoreAnswer(e) = "true"
    <3>1. rows' = rows \union {e} /\ posts' = posts \union {e}
      BY <1>4, <2>1, <2>2 DEF RowsAfter
    <3> QED BY <1>4, <2>2, <3>1 DEF Seed, RecordEvent
  <2>3. CASE StoreAnswer(e) # "true"
    BY <2>1, <2>3 DEF RowsAfter
  <2> QED BY <2>2, <2>3
<1>6. seeding' = [seeding EXCEPT ![s] =
        [next |-> i + 1, status |-> IF i = 3 THEN "answered" ELSE "running",
         inserted |-> counted]]
  BY SeedsList DEF Seed, Seeded
<1>7. counted \in SUBSET Scenario
  BY <1>2 DEF Seeded
<1>8. \/ counted = seeding[s].inserted
      \/ counted = seeding[s].inserted \union {Seeds[i]} /\ e \notin rows
  BY <1>4
<1> HIDE DEF counted
<1> QED BY <1>1, <1>3, <1>5, <1>6, <1>7, <1>8

(* Whoever seeds, runs, dies or comes late: the agent takes one of its own *)
(* steps or none (demo.py:74-110).                                         *)
LEMMA DemoStepIsAgents ==
  ASSUME TypeOK, Seeded, [DemoNext]_demoVars
  PROVE  [Next]_vars /\ UNCHANGED request
<1>1. ASSUME NEW s \in Seeder, Seed(s)
      PROVE  [Next]_vars /\ UNCHANGED request
  <2>1. PICK i \in 1..3 : UNCHANGED <<rows, posts>> \/ RecordEvent(Prior(Seeds[i]))
    BY <1>1, SeedEffect
  <2>2. Prior(Seeds[i]) \in Postable
    BY SeedsList, PriorFields
  <2>3. UNCHANGED <<inflight, pc, request, choice, recorded>>
    BY <1>1 DEF Seed
  <2> QED BY <2>1, <2>2, <2>3 DEF Next, vars
<1>2. ASSUME NEW s \in Seeder, SeedStops(s)
      PROVE  UNCHANGED vars
  BY <1>2 DEF SeedStops, agentVars, vars
<1>3. ASSUME NEW s \in Seeder, SeedLosesCommit(s)
      PROVE  Next /\ UNCHANGED request
  <2>1. seeding[s].next \in 1..3
    BY <1>3 DEF SeedLosesCommit, Seeded
  <2>2. Prior(Seeds[seeding[s].next]) \in Postable
    BY <2>1, SeedsList, PriorFields
  <2>3. LoseEvent(Prior(Seeds[seeding[s].next])) /\ UNCHANGED request
    BY <1>3 DEF SeedLosesCommit, LoseEvent
  <2> QED BY <2>2, <2>3 DEF Next
<1>4. ASSUME NEW r \in Run, FindPrior(r)
      PROVE  Next /\ UNCHANGED request
  <2>1. request[r] \in Request /\ [request EXCEPT ![r] = request[r]] = request
    BY DEF TypeOK
  <2>2. Start(r, request[r]) /\ UNCHANGED request
    BY <1>4, <2>1 DEF FindPrior, Start
  <2> QED BY <2>1, <2>2 DEF Next
<1>5. ASSUME NEW r \in Run, MissPrior(r) \/ AnswerMissing(r) \/ CompareAction(r)
      PROVE  UNCHANGED vars
  BY <1>5 DEF MissPrior, AnswerMissing, CompareAction, Replies, agentVars, vars
<1>6. ASSUME NEW r \in Run, AgentStep(r)
      PROVE  Next /\ UNCHANGED request
  BY <1>6 DEF AgentStep, Next, RunStep, Recall, Observe, Decide, Interrupt, LoseCommit
<1>7. ASSUME Late
      PROVE  Next /\ UNCHANGED request
  BY <1>7 DEF Late, Next, LateCommit, LateAbort
<1>8. CASE UNCHANGED demoVars
  BY <1>8 DEF demoVars, vars
<1> QED BY <1>1, <1>2, <1>3, <1>4, <1>5, <1>6, <1>7, <1>8 DEF DemoNext, DemoRun, vars

(* Steps that are not a seeding's leave what seedings know.                *)
LEMMA SeedingSteps ==
  ASSUME [DemoNext]_demoVars
  PROVE  \/ \E s \in Seeder : Seed(s) \/ SeedStops(s) \/ SeedLosesCommit(s)
         \/ UNCHANGED seeding
BY DEF DemoNext, DemoRun, FindPrior, MissPrior, AnswerMissing, CompareAction, Replies, AgentStep,
       Late, demoVars

(* A seeding knows of the priors it has passed (demo.py:74-87).            *)
LEMMA SeededStep ==
  ASSUME TypeOK, Seeded, [DemoNext]_demoVars
  PROVE  Seeded'
<1>1. rows \subseteq rows'
  BY DemoStepIsAgents, RowsGrow
<1>2. ASSUME NEW s \in Seeder, Seed(s)
      PROVE  Seeded'
  <2>1. PICK i \in 1..3 :
          /\ seeding[s].next = i
          /\ Prior(Seeds[i]) \in rows'
          /\ \E counted \in SUBSET Scenario :
               /\ seeding' = [seeding EXCEPT ![s] =
                    [next |-> i + 1, status |-> IF i = 3 THEN "answered" ELSE "running",
                     inserted |-> counted]]
               /\ \/ counted = seeding[s].inserted
                  \/ counted = seeding[s].inserted \union {Seeds[i]}
    BY <1>2, SeedEffect
  <2>2. PICK counted \in SUBSET Scenario :
          /\ seeding' = [seeding EXCEPT ![s] =
               [next |-> i + 1, status |-> IF i = 3 THEN "answered" ELSE "running",
                inserted |-> counted]]
          /\ counted \subseteq seeding[s].inserted \union {Seeds[i]}
    BY <2>1
  <2>3. /\ seeding' \in [Seeder -> [next : 1..4, status : SeedStatus, inserted : SUBSET Scenario]]
        /\ seeding'[s] = [next |-> i + 1, status |-> IF i = 3 THEN "answered" ELSE "running",
                          inserted |-> counted]
        /\ \A t \in Seeder \ {s} : seeding'[t] = seeding[t]
    BY <2>2 DEF Seeded, SeedStatus
  <2>4. \A j \in 1..3 : j < i + 1 => Prior(Seeds[j]) \in rows'
    BY <1>1, <2>1 DEF Seeded
  <2>5. \A t \in counted : Prior(t) \in rows'
    BY <1>1, <2>1, <2>2 DEF Seeded
  <2> QED BY <1>1, <2>3, <2>4, <2>5 DEF Seeded
<1>3. ASSUME NEW s \in Seeder, SeedStops(s) \/ SeedLosesCommit(s)
      PROVE  Seeded'
  <2>1. seeding' = [seeding EXCEPT ![s].status = "stopped"]
    BY <1>3 DEF SeedStops, SeedLosesCommit
  <2>2. /\ seeding' \in [Seeder -> [next : 1..4, status : SeedStatus, inserted : SUBSET Scenario]]
        /\ seeding'[s].status = "stopped"
        /\ \A t \in Seeder : /\ seeding'[t].next = seeding[t].next
                             /\ seeding'[t].inserted = seeding[t].inserted
                             /\ t # s => seeding'[t].status = seeding[t].status
    BY <2>1 DEF Seeded, SeedStatus
  <2> QED BY <1>1, <2>2 DEF Seeded
<1>4. CASE UNCHANGED seeding
  BY <1>1, <1>4 DEF Seeded
<1> QED BY <1>2, <1>3, <1>4, SeedingSteps

(* What is known of the agent, of seedings and of replies throughout.      *)
Basis == TypeOK /\ Recorded /\ Seeded /\ reply \in [Run -> Answers]

(* So it stays with every step of the demo.                                *)
LEMMA BasisStep ==
  ASSUME Basis, [DemoNext]_demoVars
  PROVE  Basis'
<1>1. reply' \in [Run -> Answers]
  BY DEF Basis, Answers, DemoNext, Seed, SeedStops, SeedLosesCommit, DemoRun, FindPrior, MissPrior,
         AnswerMissing, CompareAction, Replies, AgentStep, Late, demoVars
<1> QED BY <1>1, DemoStepIsAgents, SeededStep, TypingStep, RecordedStep DEF Basis

(* And it holds at first.                                                  *)
LEMMA BasisInit == DemoInit => Basis
<1>1. Init => TypeOK /\ Recorded
  BY DEF Init, TypeOK, Recorded, Told, Abstain, Choice, Action
<1>2. DemoInit => Seeded
  BY DEF DemoInit, Seeded, SeedStatus
<1> QED BY <1>1, <1>2 DEF DemoInit, Basis, Answers

(* So it holds throughout.                                                 *)
LEMMA BasisAlways == DemoSpec => []Basis
BY BasisInit, BasisStep, PTL DEF DemoSpec

(* However many seed and run, die, time out or come late: behind the       *)
(* routes of the demo the agent behaves as ContinuityAgent says, and what  *)
(* is proved of it holds of the demo (demo.py:74-110).                     *)
THEOREM DemoRunsAgent == DemoSpec => Spec
<1>1. DemoInit => Init
  BY DEF DemoInit
<1>2. Basis /\ [DemoNext]_demoVars => [Next]_vars
  BY DemoStepIsAgents DEF Basis
<1> QED BY <1>1, <1>2, BasisAlways, PTL DEF DemoSpec, Spec

-----------------------------------------------------------------------------
(***************************************************************************)
(* Seeding.                                                                *)
(***************************************************************************)

(* Only what was not on record before is counted (demo.py:82-84).          *)
LEMMA CountsStep ==
  ASSUME Basis, SeedsCountOnce, [DemoNext]_demoVars
  PROVE  SeedsCountOnce'
<1> USE DEF Basis
<1>1. ASSUME NEW s \in Seeder, Seed(s)
      PROVE  SeedsCountOnce'
  <2>1. PICK i \in 1..3 :
          \E counted \in SUBSET Scenario :
            /\ seeding' = [seeding EXCEPT ![s] =
                 [next |-> i + 1, status |-> IF i = 3 THEN "answered" ELSE "running",
                  inserted |-> counted]]
            /\ \/ counted = seeding[s].inserted
               \/ /\ counted = seeding[s].inserted \union {Seeds[i]}
                  /\ Prior(Seeds[i]) \notin rows
    BY <1>1, SeedEffect
  <2>2. PICK counted \in SUBSET Scenario :
          /\ seeding' = [seeding EXCEPT ![s] =
               [next |-> i + 1, status |-> IF i = 3 THEN "answered" ELSE "running",
                inserted |-> counted]]
          /\ \/ counted = seeding[s].inserted
             \/ /\ counted = seeding[s].inserted \union {Seeds[i]}
                /\ Prior(Seeds[i]) \notin rows
    BY <2>1
  <2>3. /\ seeding'[s].inserted = counted
        /\ \A t \in Seeder \ {s} : seeding'[t].inserted = seeding[t].inserted
    BY <2>2 DEF Seeded
  <2>4. ASSUME NEW t \in Seeder \ {s}
        PROVE  counted \intersect seeding[t].inserted = {}
    BY <2>2 DEF Seeded, SeedsCountOnce
  <2> QED BY <2>3, <2>4 DEF SeedsCountOnce
<1>2. ASSUME NEW s \in Seeder, SeedStops(s) \/ SeedLosesCommit(s)
      PROVE  SeedsCountOnce'
  <2>1. \A t \in Seeder : seeding'[t].inserted = seeding[t].inserted
    BY <1>2 DEF SeedStops, SeedLosesCommit, Seeded
  <2> QED BY <2>1 DEF SeedsCountOnce
<1>3. CASE UNCHANGED seeding
  BY <1>3 DEF SeedsCountOnce
<1> QED BY <1>1, <1>2, <1>3, SeedingSteps

(* However many seed at once, die half way and seed again, no prior is     *)
(* counted in two answers (demo.py:74-87).                                 *)
THEOREM SeedsCounted == DemoSpec => []SeedsCountOnce
<1>1. DemoInit => SeedsCountOnce
  BY DEF DemoInit, SeedsCountOnce
<1> QED BY <1>1, CountsStep, BasisAlways, PTL DEF DemoSpec

(* Any prior that is on record is recalled (demo.py:98-99).                *)
LEMMA SeededIsRecalled ==
  ASSUME TypeOK, Seeded, NEW r \in Run, NEW s \in Seeder, seeding[s].status = "answered"
  PROVE  PriorRecalled(r)
<1>1. PICK t \in Scenario : request[r] = DemoRequest(t)
  BY FixedAssumption DEF TypeOK, DemoRequests
<1>2. PICK i \in 1..3 : Seeds[i] = t
  BY SeedsList
<1>3. Prior(t) \in rows
  BY <1>2 DEF Seeded
<1>4. Prior(t) \in Memory(Tenant) /\ ScenarioOf(r) = t
  BY <1>1, <1>3, PriorFields, RunFields DEF Memory, ScenarioOf
<1> QED BY <1>4, PriorFields DEF PriorRecalled

(* Once any seeding has been answered 200 every run that looks for its     *)
(* prior finds it, whoever inserted the priors and whatever else goes on;  *)
(* one that had looked before may still be told to seed (demo.py:76-87,    *)
(* 97-99, lambda_handler.py:55-58).                                        *)
THEOREM Available == DemoSpec => SeededMeansAvailable
<1> DEFINE NotMissed ==
      \A r \in Run, s \in Seeder :
        seeding[s].status = "answered" /\ reply[r] = "none"
          => reply'[r] \notin {"missed", "409"}
<1>1. ASSUME Basis, [DemoNext]_demoVars
      PROVE  [NotMissed]_demoVars
  <2> SUFFICES ASSUME NEW r \in Run, NEW s \in Seeder,
                      seeding[s].status = "answered", reply[r] = "none",
                      reply'[r] \in {"missed", "409"}
               PROVE  FALSE
    BY <1>1
  <2>1. PriorRecalled(r)
    BY <1>1, SeededIsRecalled DEF Basis
  <2>2. ASSUME NEW t \in Run, MissPrior(t)
        PROVE  FALSE
    BY <1>1, <2>1, <2>2 DEF Basis, MissPrior, Replies
  <2>3. ASSUME NEW t \in Run, AnswerMissing(t) \/ CompareAction(t)
        PROVE  FALSE
    BY <1>1, <2>3 DEF Basis, AnswerMissing, CompareAction, Replies
  <2>4. ASSUME UNCHANGED reply
        PROVE  FALSE
    BY <2>4
  <2> QED BY <1>1, <2>2, <2>3, <2>4
          DEF DemoNext, Seed, SeedStops, SeedLosesCommit, DemoRun, FindPrior, AgentStep, Late, demoVars
<1> QED BY <1>1, BasisAlways, PTL DEF DemoSpec, SeededMeansAvailable

-----------------------------------------------------------------------------
(***************************************************************************)
(* Runs of the demo.                                                       *)
(***************************************************************************)

(* What can happen to one run (demo.py:90-110).                            *)
LEMMA RunMoves ==
  ASSUME Basis, [DemoNext]_demoVars, NEW r \in Run
  PROVE  \/ /\ Unmoved(r)
            /\ reply'[r] = reply[r] \/ MissPrior(r) \/ AnswerMissing(r) \/ CompareAction(r)
         \/ reply'[r] = reply[r] /\ (FindPrior(r) \/ Recall(r) \/ Observe(r) \/ Decide(r)
                                      \/ Interrupt(r) \/ LoseCommit(r))
<1> USE DEF Basis
<1>1. [Next]_vars
  BY DemoStepIsAgents
<1>2. ASSUME NEW t \in Run, MissPrior(t) \/ AnswerMissing(t) \/ CompareAction(t)
      PROVE  Unmoved(r) /\ (reply'[r] = reply[r] \/ t = r)
  BY <1>2 DEF MissPrior, AnswerMissing, CompareAction, Replies, agentVars, Unmoved
<1>3. ASSUME NEW t \in Run, FindPrior(t)
      PROVE  reply'[r] = reply[r] /\ (Unmoved(r) \/ t = r)
  BY <1>3 DEF FindPrior, Start, Move, Unmoved, TypeOK
<1>4. ASSUME NEW t \in Run, AgentStep(t)
      PROVE  /\ reply'[r] = reply[r]
             /\ \/ Unmoved(r)
                \/ Recall(r) \/ Observe(r) \/ Decide(r) \/ Interrupt(r) \/ LoseCommit(r)
  <2>1. CASE Recall(t)
    BY <1>4, <2>1 DEF AgentStep, Recall, Move, Unmoved, TypeOK
  <2>2. CASE Observe(t) \/ Decide(t)
    <3>1. /\ t # r => pc'[r] = pc[r]
          /\ UNCHANGED <<request, choice>>
          /\ \E told : recorded' = [recorded EXCEPT ![t].observation = told]
                     \/ recorded' = [recorded EXCEPT ![t].decision = told]
      BY <2>2 DEF Observe, Decide, Move, TypeOK
    <3>2. t # r => Unmoved(r)
      BY <3>1 DEF Unmoved, TypeOK
    <3> QED BY <1>4, <2>2, <3>2 DEF AgentStep
  <2>3. CASE Interrupt(t) \/ LoseCommit(t)
    BY <1>4, <2>3 DEF AgentStep, Interrupt, LoseCommit, Unmoved, TypeOK
  <2> QED BY <1>4, <2>1, <2>2, <2>3 DEF AgentStep
<1>5. ASSUME Late \/ UNCHANGED demoVars \/
             \E s \in Seeder : Seed(s) \/ SeedStops(s) \/ SeedLosesCommit(s)
      PROVE  Unmoved(r) /\ reply'[r] = reply[r]
  BY <1>5 DEF Late, LateCommit, LateAbort, demoVars, Seed, SeedStops, SeedLosesCommit, LoseEvent,
              agentVars, Unmoved
<1> QED BY <1>2, <1>3, <1>4, <1>5 DEF DemoNext, DemoRun

(* A choice cites a prior of the demo (agent.py:28-32).                    *)
LEMMA ChoosesPrior ==
  ASSUME Basis, NEW r \in Run, Recall(r)
  PROVE  \E found \in Recalls(request[r].tenant, request[r].observation) :
         \E chosen \in Choices(request[r].observation, found) :
           /\ choice'[r] = chosen
           /\ chosen = Abstain \/ \E t \in Scenario : Prior(t) \in rows /\ chosen = ChoiceFrom(Prior(t))
<1>1. PICK found \in Recalls(request[r].tenant, request[r].observation) :
        \E chosen \in Choices(request[r].observation, found) :
          choice' = [choice EXCEPT ![r] = chosen]
  BY DEF Recall
<1>2. PICK chosen \in Choices(request[r].observation, found) :
        choice' = [choice EXCEPT ![r] = chosen]
  BY <1>1
<1>3. choice'[r] = chosen
  BY <1>2 DEF Basis, TypeOK
<1>4. found \subseteq rows
  BY <1>1, RecallsOwnMemory
<1>5. chosen = Abstain \/ \E h \in found : h.kind = "handoff" /\ chosen = ChoiceFrom(h)
  BY <1>2 DEF Choices, Handoffs
<1>6. ASSUME NEW h \in rows, h.kind = "handoff"
      PROVE  \E t \in Scenario : h = Prior(t)
  <2>1. h \in Event
    BY DEF Basis, TypeOK
  <2>2. h \in Postable
    BY <1>6, <2>1, EventKinds DEF Event
  <2> QED BY <2>2, FixedAssumption DEF Priors
<1> QED BY <1>1, <1>2, <1>3, <1>4, <1>5, <1>6

(* What a run found and chose stays as it was (demo.py:98-110).            *)
LEMMA KeptStep ==
  ASSUME Basis, Kept, [DemoNext]_demoVars
  PROVE  Kept'
<1>1. rows \subseteq rows' /\ UNCHANGED request
  BY DemoStepIsAgents, RowsGrow DEF Basis
<1> SUFFICES ASSUME NEW r \in Run PROVE Keeps(r)'
  BY DEF Kept
<1> USE DEF Move
<1>2. PICK s \in Scenario : request[r] = DemoRequest(s)
  BY FixedAssumption DEF Basis, TypeOK, DemoRequests
<1>3. ScenarioOf(r) = s /\ ScenarioOf(r)' = s
  BY <1>1, <1>2, RunFields DEF ScenarioOf
<1>4. Keeps(r) /\ (OfPrior(r) /\ choice'[r] = choice[r] => OfPrior(r)')
  BY <1>1 DEF Kept, OfPrior
<1>5. pc \in [Run -> {"idle", "recall", "observe", "decide"} \union Outcome]
  BY DEF Basis, TypeOK
<1>6. CASE Unmoved(r) /\ reply'[r] = reply[r]
  BY <1>1, <1>3, <1>4, <1>6 DEF Keeps, Unmoved
<1>7. CASE Unmoved(r) /\ (MissPrior(r) \/ AnswerMissing(r))
  <2>1. reply'[r] \in {"missed", "409"}
    BY <1>7 DEF Basis, MissPrior, AnswerMissing, Replies
  <2> QED BY <1>1, <1>3, <1>4, <1>7, <2>1 DEF Keeps, Unmoved
<1>8. CASE Unmoved(r) /\ CompareAction(r)
  <2>1. pc[r] = "replied" /\ reply'[r] = IF choice[r].action = Expected[s] THEN "200" ELSE "400"
    BY <1>3, <1>8 DEF Basis, CompareAction, Replies
  <2> QED BY <1>1, <1>3, <1>4, <1>8, <2>1 DEF Keeps, Unmoved
<1>9. CASE reply'[r] = reply[r] /\ FindPrior(r)
  <2>1. pc[r] = "idle" /\ pc'[r] = "recall" /\ choice'[r] = choice[r] /\ reply[r] = "none"
    BY <1>5, <1>9 DEF FindPrior, Start
  <2>2. Prior(s) \in rows
    BY <1>3, <1>9, PriorFound DEF FindPrior, PriorRecalled, Memory, Basis, TypeOK
  <2> QED BY <1>1, <1>3, <1>4, <1>9, <2>1, <2>2 DEF Keeps
<1>10. CASE reply'[r] = reply[r] /\ Recall(r)
  <2>1. pc[r] = "recall" /\ pc'[r] = "observe"
    BY <1>5, <1>10 DEF Recall
  <2>2. choice'[r] = Abstain \/ OfPrior(r)'
    BY <1>1, <1>10, ChoosesPrior DEF OfPrior
  <2> QED BY <1>1, <1>3, <1>4, <1>10, <2>1, <2>2 DEF Keeps
<1>11. CASE reply'[r] = reply[r] /\ Observe(r)
  <2>1. pc[r] = "observe" /\ pc'[r] = "decide" /\ choice'[r] = choice[r]
    BY <1>5, <1>11 DEF Observe
  <2>2. ObservationOf(request[r]) \in rows'
    BY <1>2, <1>11, ReturnedIsThere DEF Observe, Basis
  <2> QED BY <1>1, <1>3, <1>4, <1>11, <2>1, <2>2 DEF Keeps
<1>12. CASE reply'[r] = reply[r] /\ Decide(r)
  <2>1. pc[r] = "decide" /\ pc'[r] = "replied" /\ choice'[r] = choice[r]
    BY <1>5, <1>12 DEF Decide
  <2> QED BY <1>1, <1>3, <1>4, <1>12, <2>1 DEF Keeps
<1>13. CASE reply'[r] = reply[r] /\ (Interrupt(r) \/ LoseCommit(r))
  <2>1. pc[r] \in {"recall", "observe", "decide"} /\ pc'[r] = "interrupted" /\ choice'[r] = choice[r]
    BY <1>5, <1>13 DEF Interrupt, LoseCommit
  <2> QED BY <1>1, <1>3, <1>4, <1>13, <2>1 DEF Keeps
<1> QED BY <1>6, <1>7, <1>8, <1>9, <1>10, <1>11, <1>12, <1>13, RunMoves

(* So it is throughout.                                                    *)
LEMMA KeptAlways == DemoSpec => [](Basis /\ Kept)
<1>1. DemoInit => Kept
  BY DEF DemoInit, Init, Kept, Keeps
<1> QED BY <1>1, KeptStep, BasisAlways, PTL DEF DemoSpec

(* An answered run has chosen from its own prior (demo.py:98-110).         *)
LEMMA CitedPrior ==
  ASSUME Basis, Kept, NEW r \in Run, reply[r] = "200"
  PROVE  choice[r] = [action |-> Expected[ScenarioOf(r)],
                      cites |-> <<PriorIncident[ScenarioOf(r)], 1>>]
<1>1. PICK s \in Scenario : request[r] = DemoRequest(s)
  BY FixedAssumption DEF Basis, TypeOK, DemoRequests
<1>2. ScenarioOf(r) = s
  BY <1>1, RunFields DEF ScenarioOf
<1>3. choice[r].action = Expected[s] /\ (choice[r] = Abstain \/ OfPrior(r))
  BY <1>2 DEF Kept, Keeps
<1>4. choice[r] # Abstain
  BY <1>3, Tables DEF Abstain
<1>5. PICK t \in Scenario : choice[r] = [action |-> Expected[t], cites |-> <<PriorIncident[t], 1>>]
  BY <1>3, <1>4, PriorChoice DEF OfPrior
<1>6. t = s
  BY <1>3, <1>5, Tables
<1> QED BY <1>2, <1>5, <1>6

(* However many scenarios share the tenant: a 200 cites the reviewed prior *)
(* of its own scenario and nothing else (demo.py:88-110).                  *)
THEOREM OwnPriorCited == DemoSpec => []AnswerCitesOwnPrior
<1>1. ASSUME Basis, Kept, NEW r \in Run, reply[r] = "200"
      PROVE  /\ choice[r].cites = <<PriorIncident[ScenarioOf(r)], 1>>
             /\ Prior(ScenarioOf(r)) \in rows
  <2>1. Prior(ScenarioOf(r)) \in rows
    BY <1>1 DEF Kept, Keeps
  <2>2. choice[r] = [action |-> Expected[ScenarioOf(r)],
                     cites |-> <<PriorIncident[ScenarioOf(r)], 1>>]
    BY <1>1, CitedPrior
  <2> QED BY <2>1, <2>2
<1>2. Basis /\ Kept => AnswerCitesOwnPrior
  BY <1>1 DEF AnswerCitesOwnPrior
<1> QED BY <1>2, KeptAlways, PTL

-----------------------------------------------------------------------------
(***************************************************************************)
(* What a ranking by fixed scores puts before a prior.                     *)
(***************************************************************************)

(* The scores of the demo's rows (features.py:14-26, agent.py:50-54).      *)
LEMMA PriorScore ==
  ASSUME NEW o \in Scenario, NEW t \in Scenario
  PROVE  Score(o, Prior(t)) = PriorRank[o][t]
<1>1. Prior(t) \in Event /\ Prior(t).kind = "handoff" /\ Prior(t).incident = PriorIncident[t]
  BY PriorFields DEF Event
<1>2. ScenarioOfPrior(Prior(t)) = t
  BY <1>1, Tables DEF ScenarioOfPrior
<1> QED BY <1>1, <1>2, ScoreAssumption DEF DemoScore

(* ... of observations,                                                    *)
LEMMA ObservationScore ==
  ASSUME NEW o \in Scenario, NEW t \in Scenario
  PROVE  Score(o, ObservationOf(DemoRequest(t))) = ObservationRank[o][t]
<1> DEFINE e == ObservationOf(DemoRequest(t))
<1>1. e \in Event /\ e.kind = "observation" /\ e.says = t
  BY RunFields DEF Event
<1>2. Score(o, e) = ObservationRank[o][t]
  <2> HIDE DEF e
  <2> QED BY <1>1, ScoreAssumption DEF DemoScore
<1> QED BY <1>2

(* ... and of decisions.                                                   *)
LEMMA DecisionScore ==
  ASSUME NEW o \in Scenario, NEW t \in Scenario, NEW chosen \in Choice
  PROVE  Score(o, DecisionOf(DemoRequest(t), chosen)) = DecisionRank[o][chosen.action]
<1> DEFINE e == DecisionOf(DemoRequest(t), chosen)
<1>1. e \in Event
  BY RunFields DEF Event
<1>2. e.kind = "decision" /\ e.says = chosen.action
  BY DecisionFields
<1>3. Score(o, e) = DecisionRank[o][chosen.action]
  <2> HIDE DEF e
  <2> QED BY <1>1, <1>2, ScoreAssumption DEF DemoScore
<1> QED BY <1>3

(* Only the observation of the review scenario is as near to itself as its *)
(* prior (demo.py:54-71).                                                  *)
LEMMA BeforeReview ==
  ASSUME NEW e \in Event, MayPrecede("review", e, Prior("review"))
  PROVE  e = Prior("review") \/ e = ObservationOf(DemoRequest("review"))
<1>1. "review" \in Scenario
  BY DEF Scenario
<1>2. Score("review", Prior("review")) = 8
  BY <1>1, PriorScore DEF PriorRank
<1>3. PICK t \in Scenario : \/ e = Prior(t)
                           \/ e = ObservationOf(DemoRequest(t))
                           \/ \E chosen \in Choice : e = DecisionOf(DemoRequest(t), chosen)
  BY DemoEvents
<1>4. Score("review", e) > 8 \/ Score("review", e) = 8
  BY <1>2 DEF MayPrecede
<1>5. CASE e = Prior(t)
  <2>1. PriorRank["review"][t] \in 0..7 \/ t = "review"
    BY DEF PriorRank, Scenario
  <2> QED BY <1>1, <1>4, <1>5, <2>1, PriorScore
<1>6. CASE e = ObservationOf(DemoRequest(t))
  <2>1. ObservationRank["review"][t] \in 0..7 \/ t = "review"
    BY DEF ObservationRank, Scenario
  <2> QED BY <1>1, <1>4, <1>6, <2>1, ObservationScore
<1>7. ASSUME NEW chosen \in Choice, e = DecisionOf(DemoRequest(t), chosen)
      PROVE  FALSE
  <2>1. DecisionRank["review"][chosen.action] \in 0..7
    BY DEF DecisionRank, Choice, Action
  <2> QED BY <1>1, <1>4, <1>7, <2>1, DecisionScore
<1> QED BY <1>3, <1>5, <1>6, <1>7

(* Without the other scenarios' runs, only the two rows of its own run are *)
(* as near to the ingest scenario as its prior (demo.py:23-38).            *)
LEMMA BeforeIngest ==
  ASSUME NEW e \in Event, MayPrecede("ingest", e, Prior("ingest")),
         e.incident \notin {Incident.run_review, Incident.run_transcode}
  PROVE  \/ e = Prior("ingest")
         \/ e = ObservationOf(DemoRequest("ingest"))
         \/ /\ e.kind = "decision"
            /\ ReplayKey(e) = <<Tenant, <<"decision", <<"client", RunKey["ingest"]>>>>>>
<1>1. "ingest" \in Scenario
  BY DEF Scenario
<1>2. Score("ingest", Prior("ingest")) = 3
  BY <1>1, PriorScore DEF PriorRank
<1>3. PICK t \in Scenario : \/ e = Prior(t)
                           \/ e = ObservationOf(DemoRequest(t))
                           \/ \E chosen \in Choice : e = DecisionOf(DemoRequest(t), chosen)
  BY DemoEvents
<1>4. Score("ingest", e) > 3 \/ Score("ingest", e) = 3
  BY <1>2 DEF MayPrecede
<1>5. e.incident = RunIncident[t] => t = "ingest"
  BY DEF RunIncident, Scenario, Incident
<1>6. CASE e = Prior(t)
  <2>1. PriorRank["ingest"][t] \in 0..2 \/ t = "ingest"
    BY DEF PriorRank, Scenario
  <2> QED BY <1>1, <1>4, <1>6, <2>1, PriorScore
<1>7. CASE e = ObservationOf(DemoRequest(t))
  BY <1>5, <1>7, RunFields
<1>8. ASSUME NEW chosen \in Choice, e = DecisionOf(DemoRequest(t), chosen)
      PROVE  /\ e.kind = "decision"
             /\ ReplayKey(e) = <<Tenant, <<"decision", <<"client", RunKey["ingest"]>>>>>>
  <2>1. /\ e.kind = "decision" /\ e.incident = RunIncident[t] /\ e.tenant = Tenant
        /\ e.key = <<"decision", <<"client", RunKey[t]>>>>
    BY <1>8, DecisionFields
  <2> QED BY <1>5, <2>1 DEF ReplayKey
<1> QED BY <1>3, <1>6, <1>7, <1>8

(* Two rows do not fill a recall of three (agent.py:34, 50-54).            *)
LEMMA PairIsSmall ==
  ASSUME NEW a, NEW b, NEW S \in SUBSET {a, b}
  PROVE  Cardinality(S) # 3
<1>1. IsFiniteSet({a}) /\ Cardinality({a}) = 1
  BY FS_Singleton
<1>2. {a} \union {b} = {a, b}
  OBVIOUS
<1>3. IsFiniteSet({a, b}) /\ Cardinality({a, b}) <= 2 /\ Cardinality({a, b}) \in Nat
  BY <1>1, <1>2, FS_AddElement
<1>4. IsFiniteSet(S) /\ Cardinality(S) <= Cardinality({a, b}) /\ Cardinality(S) \in Nat
  BY <1>3, FS_Subset, FS_CardinalityType
<1> QED BY <1>3, <1>4

(* So a row that only two others may precede is among the three recalled   *)
(* (store.py:66-83).                                                       *)
LEMMA RecallsPreceded ==
  ASSUME NEW o, NEW p \in rows, p.tenant = Tenant, NEW found \in Recalls(Tenant, o), NEW a, NEW b,
         \A e \in rows : MayPrecede(o, e, p) => e \in {a, b, p}
  PROVE  p \in found
<1> SUFFICES ASSUME p \notin found
             PROVE  FALSE
  OBVIOUS
<1>1. p \in Memory(Tenant)
  BY DEF Memory
<1>2. /\ found \subseteq Memory(Tenant)
      /\ found = Memory(Tenant) \/ Cardinality(found) = 3
      /\ \A e \in found : MayPrecede(o, e, p)
  BY <1>1, RecallAssumption DEF Recalls
<1>3. Cardinality(found) = 3
  BY <1>1, <1>2
<1>4. found \in SUBSET {a, b}
  BY <1>2 DEF Memory
<1> QED BY <1>3, <1>4, PairIsSmall

(* And a handoff that no other may precede is the one that is cited        *)
(* (agent.py:100-111).                                                     *)
LEMMA CitesFirst ==
  ASSUME NEW o, NEW found, NEW p \in found, p.kind = "handoff", NEW chosen \in Choices(o, found),
         \A h \in found : h.kind = "handoff" /\ MayPrecede(o, h, p) => h = p
  PROVE  chosen = ChoiceFrom(p)
BY DEF Choices, Handoffs

(* A run whose prior only two other rows may precede, no handoff, chooses  *)
(* the action that its scenario promises (demo.py:103-109).                *)
LEMMA PrefersPrior ==
  ASSUME Basis, Kept, NEW r \in Run, Recall(r), NEW s \in Scenario, request[r] = DemoRequest(s),
         NEW a, NEW b,
         \A e \in rows : MayPrecede(s, e, Prior(s)) => e \in {a, b, Prior(s)},
         \A e \in rows : e.kind = "handoff" /\ MayPrecede(s, e, Prior(s)) => e = Prior(s)
  PROVE  choice'[r].action = Expected[s]
<1>1. request[r].tenant = Tenant /\ request[r].observation = s /\ ScenarioOf(r) = s
  BY RunFields DEF ScenarioOf
<1>2. Prior(s) \in rows
  BY <1>1 DEF Kept, Keeps, Recall, Move
<1>3. PICK found \in Recalls(Tenant, s) :
        \E chosen \in Choices(s, found) : choice'[r] = chosen
  BY <1>1, ChoosesPrior
<1>4. Prior(s) \in found /\ found \subseteq rows
  BY <1>2, <1>3, RecallsPreceded, RecallsOwnMemory, PriorFields
<1>5. choice'[r] = ChoiceFrom(Prior(s))
  BY <1>3, <1>4, CitesFirst, PriorFields
<1> QED BY <1>5, PriorChoice

(* The review scenario always meets its contract, the ingest scenario      *)
(* while no other has been run (demo.py:103-109).                          *)
LEMMA ContractStep ==
  ASSUME Basis, Kept, Contracts, [DemoNext]_demoVars
  PROVE  Contracts'
<1>1. rows \subseteq rows' /\ UNCHANGED request
  BY DemoStepIsAgents, RowsGrow DEF Basis
<1> SUFFICES ASSUME NEW r \in Run PROVE KeepsContract(r)'
  BY DEF Contracts
<1>2. PICK s \in Scenario : request[r] = DemoRequest(s)
  BY FixedAssumption DEF Basis, TypeOK, DemoRequests
<1>3. ScenarioOf(r) = s /\ ScenarioOf(r)' = s
  BY <1>1, <1>2, RunFields DEF ScenarioOf
<1>4. KeepsContract(r) /\ (OthersRun => OthersRun')
  BY <1>1 DEF Contracts, OthersRun
<1>5. rows \subseteq Event /\ pc \in [Run -> {"idle", "recall", "observe", "decide"} \union Outcome]
  BY DEF Basis, TypeOK
<1>6. ASSUME Recall(r), s = "review"
      PROVE  choice'[r].action = Expected[s]
  <2>1. \A e \in rows : MayPrecede(s, e, Prior(s)) =>
          e = Prior(s) \/ e = ObservationOf(DemoRequest(s))
    BY <1>5, <1>6, BeforeReview
  <2>2. ObservationOf(DemoRequest(s)).kind = "observation"
    BY RunFields
  <2> QED BY <1>2, <1>6, <2>1, <2>2, PrefersPrior
<1>7. ASSUME Recall(r), s = "ingest", ~OthersRun
      PROVE  choice'[r].action = Expected[s]
  <2> DEFINE o == ObservationOf(DemoRequest(s))
             OfRun(e) ==
               /\ e.kind = "decision"
               /\ ReplayKey(e) = <<Tenant, <<"decision", <<"client", RunKey[s]>>>>>>
  <2>1. \A e \in rows : MayPrecede(s, e, Prior(s)) => e = Prior(s) \/ e = o \/ OfRun(e)
    BY <1>5, <1>7, BeforeIngest DEF OthersRun
  <2>2. \A d, e \in rows : OfRun(d) /\ OfRun(e) => d = e
    BY DEF Basis, Recorded
  <2>3. o.kind = "observation"
    BY RunFields
  <2> HIDE DEF o, OfRun
  <2>4. PICK b : \A e \in rows : OfRun(e) => e = b
    BY <2>2
  <2>5. \A e \in rows : OfRun(e) => e.kind # "handoff"
    BY DEF OfRun
  <2>6. \A e \in rows : MayPrecede(s, e, Prior(s)) => e \in {o, b, Prior(s)}
    BY <2>1, <2>4
  <2>7. \A e \in rows : e.kind = "handoff" /\ MayPrecede(s, e, Prior(s)) => e = Prior(s)
    BY <2>1, <2>3, <2>5
  <2> QED BY <1>2, <1>7, <2>6, <2>7, PrefersPrior
<1>8. CASE Recall(r)
  <2>1. s = "review" => choice'[r].action = Expected["review"]
    BY <1>6, <1>8
  <2>2. s = "ingest" => choice'[r].action = Expected["ingest"] \/ OthersRun
    BY <1>7, <1>8
  <2> QED BY <1>3, <1>4, <2>1, <2>2 DEF KeepsContract
<1>9. CASE Unmoved(r)
  BY <1>3, <1>4, <1>9 DEF KeepsContract, Unmoved
<1>10. CASE FindPrior(r) \/ Interrupt(r) \/ LoseCommit(r)
  <2>1. pc'[r] \in {"recall", "interrupted"}
    BY <1>5, <1>10 DEF FindPrior, Start, Move, Interrupt, LoseCommit
  <2> QED BY <2>1 DEF KeepsContract
<1>11. CASE Observe(r) \/ Decide(r)
  <2>1. pc[r] \in {"observe", "decide"} /\ UNCHANGED choice
    BY <1>11 DEF Observe, Decide, Move
  <2> QED BY <1>3, <1>4, <2>1 DEF KeepsContract
<1> QED BY <1>8, <1>9, <1>10, <1>11, RunMoves

(* What the runbook has the operator do, in any order and as often as he   *)
(* likes, is never answered 400 (docs/DEPLOYMENT_RUNBOOK.md:78-87,         *)
(* demo.py:108-109).                                                       *)
THEOREM RunbookHolds == DemoSpec => []RunbookScenariosHold
<1>1. DemoInit => Contracts
  BY DEF DemoInit, Init, Contracts, KeepsContract
<1>2. ASSUME Kept, Contracts, NEW r \in Run, reply[r] = "400"
      PROVE  /\ ScenarioOf(r) # "review"
             /\ ScenarioOf(r) = "ingest" => OthersRun
  BY <1>2 DEF Kept, Keeps, Contracts, KeepsContract
<1>3. Kept /\ Contracts => RunbookScenariosHold
  BY <1>2 DEF RunbookScenariosHold, OthersRun
<1> QED BY <1>1, <1>3, ContractStep, KeptAlways, PTL DEF DemoSpec

-----------------------------------------------------------------------------
(***************************************************************************)
(* The verifier.                                                           *)
(***************************************************************************)

(* Whatever a verifier does, the demo takes one of its own steps or none   *)
(* (managed_evidence.py:61-110 and 199-238).                               *)
LEMMA StackStepIsDemos ==
  ASSUME [StackNext]_stackVars
  PROVE  [DemoNext]_demoVars
<1>1. ASSUME DemoStep
      PROVE  DemoNext
  BY <1>1 DEF DemoStep, DemoNext
<1>2. ASSUME NEW v \in Verifier, VerifierStep(v) \/ AbandonsRequest(v) \/ Fails(v)
      PROVE  UNCHANGED demoVars
  BY <1>2 DEF VerifierStep, AbandonsRequest, Fails, UnchangedDemo, Bootstrap, HostedSeedReturns,
              HostedRunReturns, AssertDemo, DirectSeedReturns, DirectRunReturns, RecallPersisted,
              InspectMCP, OpenTemporary, FillTemporary, CheckTemporary, ReplaceReceipt
<1>3. CASE UNCHANGED stackVars
  BY <1>3 DEF stackVars, demoVars
<1> QED BY <1>1, <1>2, <1>3 DEF StackNext

(* So what is proved of the demo holds while it is verified, however many  *)
(* verify it (managed_evidence.py:61-110).                                 *)
THEOREM VerifiersRunDemo == StackSpec => DemoSpec
<1>1. StackInit => DemoInit
  BY DEF StackInit
<1> QED BY <1>1, StackStepIsDemos, PTL DEF StackSpec, DemoSpec

(* In particular: hosted and direct seedings, of verifiers that may have   *)
(* gone, and those of visitors count each prior once, and every run that   *)
(* looks for its prior once one of them was answered finds it              *)
(* (managed_evidence.py:78-83 and 157-158, demo.py:74-87 and 97-99).       *)
THEOREM VerifiedSeeding == StackSpec => []SeedsCountOnce /\ SeededMeansAvailable
BY VerifiersRunDemo, SeedsCounted, Available

(* What a verifier has asserted of its hosted run stays so                 *)
(* (managed_evidence.py:210-225).                                          *)
LEMMA AssertedStays ==
  ASSUME Basis, Kept, [DemoNext]_demoVars, NEW v \in Verifier, DemoAsserted(v)
  PROVE  DemoAsserted(v)'
<1> DEFINE r == Hosted(v)
<1>1. r \in Run /\ r \in Seeder
  BY InvocationAssumption DEF Invocations
<1>2. seeding[r].status = "answered" /\ reply[r] = "200"
  BY DEF DemoAsserted
<1>3. pc[r] = "replied"
  BY <1>1, <1>2 DEF Kept, Keeps
<1>4. seeding'[r].status = "answered"
  <2>1. ASSUME NEW s \in Seeder, Seed(s)
        PROVE  seeding'[r].status = "answered"
    <3>1. s # r
      BY <1>2, <2>1 DEF Seed
    <3>2. \E record : seeding' = [seeding EXCEPT ![s] = record]
      BY <2>1, SeedEffect DEF Basis
    <3> QED BY <1>1, <1>2, <3>1, <3>2 DEF Basis, Seeded
  <2>2. ASSUME NEW s \in Seeder, SeedStops(s) \/ SeedLosesCommit(s)
        PROVE  seeding'[r].status = "answered"
    BY <1>1, <1>2, <2>2 DEF SeedStops, SeedLosesCommit, Basis, Seeded
  <2> QED BY <1>2, <2>1, <2>2, SeedingSteps
<1>5. Unmoved(r) /\ reply'[r] = reply[r]
  BY <1>1, <1>2, <1>3, RunMoves
     DEF MissPrior, AnswerMissing, CompareAction, Replies, FindPrior, Start, Move, Recall, Observe,
         Decide, Interrupt, LoseCommit
<1> QED BY <1>2, <1>4, <1>5 DEF DemoAsserted, Unmoved

(* No two verifiers pass: only one of their runs has put the decision on   *)
(* record (managed_evidence.py:222-225, agent.py:89-98).                   *)
LEMMA OnePasses ==
  ASSUME Basis, Kept, Verified, NEW v \in Verifier, NEW w \in Verifier,
         phase[v] \in Passed, phase[w] \in Passed
  PROVE  v = w
<1>1. Hosted(v) \in Run /\ Hosted(w) \in Run
  BY InvocationAssumption DEF Invocations
<1>2. request[Hosted(v)] = request[Hosted(w)]
  BY DEF Verified, Invocations
<1>3. Told(Hosted(v)) /\ Told(Hosted(w))
  BY <1>1 DEF Verified, DemoAsserted, Kept, Keeps, Told
<1>4. Hosted(v) = Hosted(w)
  BY <1>1, <1>2, <1>3 DEF Basis, Recorded
<1> QED BY <1>4 DEF Hosted

(* How a verifier moves, and what it does to the files                     *)
(* (managed_evidence.py:61-110 and 290-303).                               *)
LEMMA VerifierMoves ==
  ASSUME NEW v \in Verifier, VerifierStep(v) \/ AbandonsRequest(v) \/ Fails(v)
  PROVE  \E to \in Phases :
           /\ phase' = [phase EXCEPT ![v] = to]
           /\ phase[v] # "verified"
           /\ to \in Passed => phase[v] \in Passed \/ (phase[v] = "assert" /\ DemoAsserted(v))
           /\ \/ /\ UNCHANGED <<temporary, receipt>>
                 /\ to # "check" /\ (to = "replace" => phase[v] = "check")
              \/ /\ phase[v] \in {"write", "filling"} /\ UNCHANGED receipt
                 /\ to = "filling" \/ (to = "check" /\ temporary' = v)
              \/ phase[v] = "replace" /\ to = "verified" /\ receipt' = temporary
<1> DEFINE Steps(to) ==
      /\ phase' = [phase EXCEPT ![v] = to]
      /\ phase[v] # "verified"
      /\ to \in Passed => phase[v] \in Passed \/ (phase[v] = "assert" /\ DemoAsserted(v))
      /\ \/ /\ UNCHANGED <<temporary, receipt>>
            /\ to # "check" /\ (to = "replace" => phase[v] = "check")
         \/ /\ phase[v] \in {"write", "filling"} /\ UNCHANGED receipt
            /\ to = "filling" \/ (to = "check" /\ temporary' = v)
         \/ phase[v] = "replace" /\ to = "verified" /\ receipt' = temporary
<1> USE DEF Advance, UnchangedFiles, Phases, Passed, Active
<1>1. ASSUME Bootstrap(v) PROVE Steps("hosted_seed")
  BY <1>1 DEF Bootstrap
<1>2. ASSUME HostedSeedReturns(v) PROVE Steps("hosted_run")
  BY <1>2 DEF HostedSeedReturns
<1>3. ASSUME HostedRunReturns(v) PROVE Steps("assert")
  BY <1>3 DEF HostedRunReturns
<1>4. ASSUME AbandonsRequest(v) PROVE Steps("abandoned_seed") \/ Steps("abandoned_run")
  BY <1>4 DEF AbandonsRequest
<1>5. ASSUME AssertDemo(v) PROVE Steps("direct_seed") \/ Steps("rejected")
  BY <1>5 DEF AssertDemo
<1>6. ASSUME DirectSeedReturns(v) PROVE Steps("direct_run")
  BY <1>6 DEF DirectSeedReturns
<1>7. ASSUME DirectRunReturns(v) PROVE Steps("direct_recall") \/ Steps("rejected")
  BY <1>7 DEF DirectRunReturns
<1>8. ASSUME RecallPersisted(v) PROVE Steps("mcp") \/ Steps("rejected")
  <2>1. phase[v] = "direct_recall"
    BY <1>8 DEF RecallPersisted
  <2>2. phase' = [phase EXCEPT ![v] = "mcp"] \/ phase' = [phase EXCEPT ![v] = "rejected"]
    BY <1>8 DEF RecallPersisted
  <2> QED BY <1>8, <2>1, <2>2 DEF RecallPersisted
<1>9. ASSUME InspectMCP(v) PROVE Steps("write")
  BY <1>9 DEF InspectMCP
<1>10. ASSUME OpenTemporary(v) PROVE Steps("filling")
  BY <1>10 DEF OpenTemporary
<1>11. ASSUME FillTemporary(v) PROVE Steps("check")
  BY <1>11 DEF FillTemporary
<1>12. ASSUME CheckTemporary(v) PROVE Steps("replace")
  BY <1>12 DEF CheckTemporary
<1>13. ASSUME ReplaceReceipt(v) PROVE Steps("verified")
  BY <1>13 DEF ReplaceReceipt
<1>14. ASSUME Fails(v) PROVE Steps("failed")
  BY <1>14 DEF Fails
<1>15. \E to \in Phases : Steps(to)
  <2> HIDE DEF Steps
  <2> QED BY <1>1, <1>2, <1>3, <1>4, <1>5, <1>6, <1>7, <1>8, <1>9, <1>10, <1>11, <1>12, <1>13, <1>14
          DEF VerifierStep
<1> QED BY <1>15

(* Only one verifier at a time writes the files, and only after what it    *)
(* asserts of the demo (managed_evidence.py:210-225 and 290-303).          *)
LEMMA VerifiedStep ==
  ASSUME Basis, Kept, Verified, [StackNext]_stackVars
  PROVE  Verified'
<1>1. [DemoNext]_demoVars /\ UNCHANGED request
  BY StackStepIsDemos, DemoStepIsAgents DEF Basis
<1>2. \A v \in Verifier : DemoAsserted(v) => DemoAsserted(v)'
  BY <1>1, AssertedStays
<1>3. CASE UNCHANGED evidenceVars
  BY <1>1, <1>2, <1>3 DEF Verified, evidenceVars
<1>4. ASSUME NEW v \in Verifier, VerifierStep(v) \/ AbandonsRequest(v) \/ Fails(v)
      PROVE  Verified'
  <2>1. PICK to \in Phases :
          /\ phase' = [phase EXCEPT ![v] = to]
          /\ phase[v] # "verified"
          /\ to \in Passed => phase[v] \in Passed \/ (phase[v] = "assert" /\ DemoAsserted(v))
          /\ \/ /\ UNCHANGED <<temporary, receipt>>
                /\ to # "check" /\ (to = "replace" => phase[v] = "check")
             \/ /\ phase[v] \in {"write", "filling"} /\ UNCHANGED receipt
                /\ to = "filling" \/ (to = "check" /\ temporary' = v)
             \/ phase[v] = "replace" /\ to = "verified" /\ receipt' = temporary
    BY <1>4, VerifierMoves
  <2>2. /\ phase' \in [Verifier -> Phases] /\ phase'[v] = to
        /\ \A w \in Verifier \ {v} : phase'[w] = phase[w]
    BY <2>1 DEF Verified
  <2>3. \A w \in Verifier : phase'[w] \in Passed => DemoAsserted(w)'
    BY <1>2, <2>1, <2>2 DEF Verified
  <2>4. ASSUME NEW w \in Verifier \ {v}, phase[v] \in Passed
        PROVE  phase[w] \notin Passed
    BY <2>4, OnePasses
  <2>5. ASSUME UNCHANGED <<temporary, receipt>>, to # "check", to = "replace" => phase[v] = "check"
        PROVE  Verified'
    <3>1. \A w \in Verifier : phase'[w] \in {"check", "replace"} => temporary' = w
      BY <2>2, <2>5 DEF Verified
    <3>2. \A w \in Verifier : phase[w] = "verified" => phase'[w] = "verified"
      BY <2>1, <2>2
    <3> QED BY <1>1, <2>2, <2>3, <2>5, <3>1, <3>2 DEF Verified
  <2>6. ASSUME phase[v] \in {"write", "filling"}, UNCHANGED receipt,
               to = "filling" \/ (to = "check" /\ temporary' = v)
        PROVE  Verified'
    <3>1. \A w \in Verifier : phase'[w] \in {"check", "replace"} => temporary' = w
      BY <2>2, <2>4, <2>6 DEF Passed
    <3>2. \A w \in Verifier : phase[w] = "verified" => phase'[w] = "verified"
      BY <2>1, <2>2
    <3> QED BY <1>1, <2>2, <2>3, <2>6, <3>1, <3>2 DEF Verified
  <2>7. ASSUME phase[v] = "replace", to = "verified", receipt' = temporary
        PROVE  Verified'
    <3>1. receipt' = v
      BY <2>7 DEF Verified
    <3>2. \A w \in Verifier : phase'[w] \in {"check", "replace"} => temporary' = w
      BY <2>2, <2>4, <2>7 DEF Passed
    <3> QED BY <1>1, <2>2, <2>3, <2>7, <3>1, <3>2 DEF Verified
  <2> QED BY <2>1, <2>5, <2>6, <2>7
<1> QED BY <1>3, <1>4 DEF StackNext, DemoStep, stackVars, evidenceVars

(* So it is throughout.                                                    *)
LEMMA VerifiedAlways == StackSpec => [](Basis /\ Kept /\ Verified)
<1>1. StackInit => Verified
  BY DEF StackInit, Verified, Phases, Active, Passed
<1> QED BY <1>1, VerifiedStep, VerifiersRunDemo, KeptAlways, PTL DEF StackSpec

(* The receipt file is never half-written, although verifiers that run at  *)
(* the same time share one temporary file (managed_evidence.py:299-302).   *)
THEOREM WholeReceipt == StackSpec => []ReceiptIsWhole
<1>1. Verified => ReceiptIsWhole
  BY VerifierAssumption DEF Verified, ReceiptIsWhole
<1> QED BY <1>1, VerifiedAlways, PTL

(* A published receipt is true, whoever else used the demo and whatever    *)
(* was lost (managed_evidence.py:178-181 and 88-110).                      *)
THEOREM TrueReceipt == StackSpec => []ReceiptIsTrue
<1> DEFINE q == DemoRequest(Checked)
           chosen == [action |-> Expected[Checked], cites |-> <<PriorIncident[Checked], 1>>]
<1>1. ASSUME Basis, Kept, Verified, receipt # "absent"
      PROVE  ObservationOf(q) \in rows /\ DecisionOf(q, chosen) \in rows /\ Prior(Checked) \in rows
  <2>1. PICK v \in Verifier : DemoAsserted(v)
    BY <1>1 DEF Verified, Passed
  <2> DEFINE r == Hosted(v)
  <2>2. r \in Run /\ request[r] = q /\ Checked \in Scenario
    BY <1>1, InvocationAssumption DEF Verified, Invocations, Checked, Scenario
  <2>3. ScenarioOf(r) = Checked
    BY <2>2, RunFields DEF ScenarioOf
  <2>4. reply[r] = "200" /\ pc[r] = "replied" /\ Told(r)
    BY <1>1, <2>1, <2>2 DEF DemoAsserted, Kept, Keeps, Told
  <2>5. ObservationOf(q) \in rows /\ Prior(Checked) \in rows
    BY <1>1, <2>2, <2>3, <2>4 DEF Kept, Keeps
  <2>6. DecisionOf(q, choice[r]) \in rows
    BY <1>1, <2>2, <2>4 DEF Basis, Recorded
  <2>7. choice[r] = chosen
    BY <1>1, <2>2, <2>3, <2>4, CitedPrior
  <2> QED BY <2>5, <2>6, <2>7
<1>2. Basis /\ Kept /\ Verified => ReceiptIsTrue
  BY <1>1 DEF ReceiptIsTrue
<1> QED BY <1>2, VerifiedAlways, PTL
=============================================================================
