-------------------------- MODULE ContinuityAgent ---------------------------
(***************************************************************************)
(* ContinuityAgent.run (agent.py), executed by several overlapping         *)
(* invocations of the Lambda handler over one ledger, while clients record *)
(* events of any kind, under any key, through POST /events.                *)
(*                                                                         *)
(* A run recalls prior memory, chooses an action and what it cites,        *)
(* appends the observation, appends the decision one position further      *)
(* under a key derived from the request's, and answers.  The two appends   *)
(* are two transactions: a run can end between them, and a client that was *)
(* not answered sends its request again, as another run.                   *)
(*                                                                         *)
(* An append is one step here, with the answers that Ledger promises.      *)
(*                                                                         *)
(* A key is a term: what a client sends, or DecisionKey of that.  Nothing  *)
(* keeps a client from sending the second kind too.                        *)
(***************************************************************************)
EXTENDS LedgerRows, FiniteSets

CONSTANTS
  Run,          \* invocations of /agent/run
  Request,      \* the requests: [tenant, incident, sequence, key, observation]
  Postable,     \* the events clients may record through POST /events
  Backend,      \* "sqlite" or "cockroach"
  RecallLimit,  \* `recall_limit', 3 in the code
  Score(_, _),  \* similarity of an observation and an event
  Unspeakable,  \* incident ids that assert_synthetic_text refuses in a citation
  MaxSequence   \* the largest sequence a row can have (INT8)

(* Only the order of results (store.py:81) compares incident ids: they are *)
(* numbers here, in that order.                                            *)
ASSUME BackendAssumption == Backend \in {"sqlite", "cockroach"}
ASSUME LimitAssumption == RecallLimit \in Nat \ {0}
ASSUME SequenceAssumption == MaxSequence \in Nat \ {0}
ASSUME RequestAssumption == Request # {} /\ \A q \in Request : q.sequence \in 1..MaxSequence
ASSUME PostableAssumption == \A e \in Postable : e.sequence \in 1..MaxSequence

VARIABLES
  rows,       \* the ledger
  inflight,   \* COMMITs whose client has gone and which may still be applied
  pc,         \* where the run is
  request,    \* the request it serves
  choice,     \* the action and citation chosen from what was recalled
  recorded,   \* observation_recorded and decision_recorded
  posts       \* history: the events that others than runs have recorded

vars == <<rows, inflight, pc, request, choice, recorded, posts>>

NoCitation == <<>>

(***************************************************************************)
(* The events a run appends.                                               *)
(***************************************************************************)

ObservationOf(q) ==
  [tenant |-> q.tenant, incident |-> q.incident, sequence |-> q.sequence,
   key |-> q.key, kind |-> "observation", words |-> {},
   says |-> q.observation, cites |-> NoCitation]

(* "decision_" and a digest of tenant and key. *)
DecisionKey(q) == <<"decision", q.key>>

DecisionOf(q, chosen) ==
  [tenant |-> q.tenant, incident |-> q.incident, sequence |-> q.sequence + 1,
   key |-> DecisionKey(q), kind |-> "decision", words |-> {},
   says |-> chosen.action, cites |-> chosen.cites]

(***************************************************************************)
(* Recall and choice.                                                      *)
(***************************************************************************)

(* Mutant of Memory: the query without its WHERE clause. *)
MemoryOfAll(tenant) == rows

Memory(tenant) == {e \in rows : e.tenant = tenant}

(* The order of the results: similarity; SQLite settles ties by position,  *)
(* CockroachDB does not settle them.                                       *)
MayPrecede(observation, a, b) ==
  \/ Score(observation, a) > Score(observation, b)
  \/ /\ Score(observation, a) = Score(observation, b)
     /\ \/ Backend = "cockroach"
        \/ a.incident < b.incident
        \/ a.incident = b.incident /\ a.sequence <= b.sequence

(* The RecallLimit first results, as a set. *)
Recalls(tenant, observation) ==
  {found \in SUBSET Memory(tenant) :
     /\ IF Cardinality(Memory(tenant)) <= RecallLimit
          THEN found = Memory(tenant)
          ELSE Cardinality(found) = RecallLimit
     /\ \A a \in found, b \in Memory(tenant) \ found : MayPrecede(observation, a, b)}

Handoffs(found) == {e \in found : e.kind = "handoff"}

(* The words of the handoff that name a path; the first path named wins.   *)
Names(words, path) == words \intersect path # {}

IngestPath == {"ingest", "checksum"}
TranscodePath == {"transcode", "worker", "capacity"}
ReviewPath == {"publish", "review"}

ActionFor(words) ==
  IF Names(words, IngestPath) THEN "inspect_ingest_validation"
  ELSE IF Names(words, TranscodePath) THEN "inspect_transcode_capacity"
  ELSE IF Names(words, ReviewPath) THEN "verify_publish_status"
  ELSE "request_more_evidence"

Abstain == [action |-> "request_more_evidence", cites |-> NoCitation]

ChoiceFrom(h) ==
  IF ActionFor(h.words) = "request_more_evidence" THEN Abstain
  ELSE [action |-> ActionFor(h.words), cites |-> <<h.incident, h.sequence>>]

(* _choose_action: the first handoff among the results, or none. *)
Choices(observation, found) ==
  IF Handoffs(found) = {} THEN {Abstain}
  ELSE {ChoiceFrom(h) : h \in {h \in Handoffs(found) :
          \A g \in Handoffs(found) : MayPrecede(observation, h, g)}}

(***************************************************************************)
(* Steps.                                                                  *)
(***************************************************************************)

Init ==
  /\ rows = {}
  /\ inflight = {}
  /\ pc = [r \in Run |-> "idle"]
  /\ request \in [Run -> Request]
  /\ choice = [r \in Run |-> Abstain]
  /\ recorded = [r \in Run |-> [observation |-> FALSE, decision |-> FALSE]]
  /\ posts = {}

Move(r, from, to) == pc[r] = from /\ pc' = [pc EXCEPT ![r] = to]

(* A run begins with the request that its caller hands to it. *)
Start(r, q) ==
  /\ Move(r, "idle", "recall")
  /\ request' = [request EXCEPT ![r] = q]
  /\ UNCHANGED <<rows, inflight, choice, recorded, posts>>

Recall(r) ==
  /\ Move(r, "recall", "observe")
  /\ \E found \in Recalls(request[r].tenant, request[r].observation) :
       \E chosen \in Choices(request[r].observation, found) :
         choice' = [choice EXCEPT ![r] = chosen]
  /\ UNCHANGED <<rows, inflight, request, recorded, posts>>

StoreAnswer(e) == IF Backend = "sqlite" THEN SqliteAnswer(rows, e) ELSE CockroachAnswer(rows, e)

(* Mutant of Observe: goes on when the append raised. *)
ObserveRegardless(r) ==
  /\ LET e == ObservationOf(request[r])
         answer == StoreAnswer(e)
     IN /\ rows' = RowsAfter(rows, e, answer)
        /\ recorded' = [recorded EXCEPT ![r].observation = (answer = "true")]
  /\ Move(r, "observe", "decide")
  /\ UNCHANGED <<inflight, request, choice, posts>>

(* service.record returns. *)
Observe(r) ==
  /\ LET e == ObservationOf(request[r])
         answer == StoreAnswer(e)
     IN /\ answer \in {"true", "false"}
        /\ rows' = RowsAfter(rows, e, answer)
        /\ recorded' = [recorded EXCEPT ![r].observation = (answer = "true")]
  /\ Move(r, "observe", "decide")
  /\ UNCHANGED <<inflight, request, choice, posts>>

(* LedgerEvent refuses the decision: its citation, "incident:sequence",    *)
(* reads as forbidden text.                                                *)
CitationRefused(r) == choice[r].cites # NoCitation /\ choice[r].cites[1] \in Unspeakable

(* Mutant of DecisionRefused: no bound on the sequence. *)
DecisionUnbounded(r) == CitationRefused(r)

(* Or the store does: its sequence is too large for the column. *)
DecisionRefused(r) == CitationRefused(r) \/ request[r].sequence + 1 > MaxSequence

(* Mutants of Decide: every decision counts as recorded; the citation is   *)
(* not written; a decision that cites nothing is not.                      *)
DecideAlwaysRecorded(r) ==
  /\ ~DecisionRefused(r)
  /\ LET e == DecisionOf(request[r], choice[r])
         answer == StoreAnswer(e)
     IN /\ answer \in {"true", "false"}
        /\ rows' = RowsAfter(rows, e, answer)
        /\ recorded' = [recorded EXCEPT ![r].decision = TRUE]
  /\ Move(r, "decide", "replied")
  /\ UNCHANGED <<inflight, request, choice, posts>>

DecideUncited(r) ==
  /\ ~DecisionRefused(r)
  /\ LET e == DecisionOf(request[r], [choice[r] EXCEPT !.cites = NoCitation])
         answer == StoreAnswer(e)
     IN /\ answer \in {"true", "false"}
        /\ rows' = RowsAfter(rows, e, answer)
        /\ recorded' = [recorded EXCEPT ![r].decision = (answer = "true")]
  /\ Move(r, "decide", "replied")
  /\ UNCHANGED <<inflight, request, choice, posts>>

DecideCited(r) ==
  /\ ~DecisionRefused(r)
  /\ LET e == DecisionOf(request[r], choice[r])
     IN rows' = IF e.cites = NoCitation THEN rows ELSE RowsAfter(rows, e, StoreAnswer(e))
  /\ Move(r, "decide", "replied")
  /\ UNCHANGED <<inflight, request, choice, recorded, posts>>

Decide(r) ==
  /\ ~DecisionRefused(r)
  /\ LET e == DecisionOf(request[r], choice[r])
         answer == StoreAnswer(e)
     IN /\ answer \in {"true", "false"}
        /\ rows' = RowsAfter(rows, e, answer)
        /\ recorded' = [recorded EXCEPT ![r].decision = (answer = "true")]
  /\ Move(r, "decide", "replied")
  /\ UNCHANGED <<inflight, request, choice, posts>>

RejectDecision(r) ==
  /\ DecisionRefused(r)
  /\ Move(r, "decide", "rejected")
  /\ UNCHANGED <<rows, inflight, request, choice, recorded, posts>>

Pending(r) ==
  IF pc[r] = "observe" THEN ObservationOf(request[r]) ELSE DecisionOf(request[r], choice[r])

(* The append raises 23505. *)
PositionClash(r) ==
  /\ pc[r] \in {"observe", "decide"}
  /\ pc[r] = "decide" => ~DecisionRefused(r)
  /\ StoreAnswer(Pending(r)) = "23505"
  /\ pc' = [pc EXCEPT ![r] = "clashed"]
  /\ UNCHANGED <<rows, inflight, request, choice, recorded, posts>>

(* The process dies or times out between two statements, or a statement    *)
(* raises an error that left nothing in the store.                         *)
Interrupt(r) ==
  /\ pc[r] \in {"recall", "observe", "decide"}
  /\ pc' = [pc EXCEPT ![r] = "interrupted"]
  /\ UNCHANGED <<rows, inflight, request, choice, recorded, posts>>

(* The connection or the process is lost under COMMIT. *)
LoseCommit(r) ==
  /\ Backend = "cockroach"
  /\ pc[r] \in {"observe", "decide"}
  /\ pc[r] = "decide" => ~DecisionRefused(r)
  /\ StoreAnswer(Pending(r)) = "true"
  /\ inflight' = inflight \union {Pending(r)}
  /\ pc' = [pc EXCEPT ![r] = "interrupted"]
  /\ UNCHANGED <<rows, request, choice, recorded, posts>>

(* The server applies such a COMMIT, or gives it up. *)
LateCommit(e) ==
  /\ e \in inflight
  /\ Free(rows, e)
  /\ rows' = rows \union {e}
  /\ inflight' = inflight \ {e}
  /\ UNCHANGED <<pc, request, choice, recorded, posts>>

LateAbort(e) ==
  /\ e \in inflight
  /\ inflight' = inflight \ {e}
  /\ UNCHANGED <<rows, pc, request, choice, recorded, posts>>

(* POST /events; an append that inserts nothing changes nothing. *)
RecordEvent(e) ==
  /\ Free(rows, e)
  /\ rows' = rows \union {e}
  /\ posts' = posts \union {e}
  /\ UNCHANGED <<inflight, pc, request, choice, recorded>>

(* It is lost under its COMMIT. *)
LoseEvent(e) ==
  /\ Backend = "cockroach"
  /\ Free(rows, e)
  /\ inflight' = inflight \union {e}
  /\ posts' = posts \union {e}
  /\ UNCHANGED <<rows, pc, request, choice, recorded>>

RunStep(r) ==
  Recall(r) \/ Observe(r) \/ Decide(r) \/ RejectDecision(r) \/ PositionClash(r)

Next ==
  \/ \E r \in Run, q \in Request : Start(r, q)
  \/ \E r \in Run : RunStep(r) \/ Interrupt(r) \/ LoseCommit(r)
  \/ \E e \in inflight : LateCommit(e) \/ LateAbort(e)
  \/ \E e \in Postable : RecordEvent(e) \/ LoseEvent(e)

Spec == Init /\ [][Next]_vars

(* What is left of Next where the store is SQLite: an append never raises  *)
(* 23505, and no COMMIT is under way without its process.                  *)
SqliteNext ==
  \/ \E r \in Run, q \in Request : Start(r, q)
  \/ \E r \in Run : Recall(r) \/ Observe(r) \/ Decide(r) \/ RejectDecision(r) \/ Interrupt(r)
  \/ \E e \in Postable : RecordEvent(e)

SqliteSpec == Init /\ [][SqliteNext]_vars

-----------------------------------------------------------------------------
(***************************************************************************)
(* Properties.                                                             *)
(***************************************************************************)

Outcome == {"replied", "rejected", "clashed", "interrupted"}

Action == {"inspect_ingest_validation", "inspect_transcode_capacity",
           "verify_publish_status", "request_more_evidence"}

Choice ==
  [action : Action, cites : {NoCitation} \union {<<h.incident, h.sequence>> : h \in Postable}]

Event ==
  Postable \union {ObservationOf(q) : q \in Request}
           \union {DecisionOf(q, chosen) : q \in Request, chosen \in Choice}

(* The types of the variables: what is stored was posted or appended by a  *)
(* run, at a sequence that the column can hold (agent.py:79).              *)
TypeOK ==
  /\ rows \subseteq Event
  /\ inflight \subseteq Event
  /\ \A e \in rows \union inflight : e.sequence \in 1..MaxSequence
  /\ pc \in [Run -> {"idle", "recall", "observe", "decide"} \union Outcome]
  /\ request \in [Run -> Request]
  /\ choice \in [Run -> Choice]
  /\ recorded \in [Run -> [observation : BOOLEAN, decision : BOOLEAN]]
  /\ posts \subseteq Postable

(* The rows under the decision key of a request. *)
DecisionOnRecord(q) == {e \in rows : e.tenant = q.tenant /\ e.key = DecisionKey(q)}

CitesHandoff(tenant, cites) ==
  cites # NoCitation =>
    \E h \in rows : h.kind = "handoff" /\ Position(h) = <<tenant, cites[1], cites[2]>>

(* Whatever overlaps, is retried or comes late, and whatever clients post, *)
(* what a run answers with or records as a decision cites a handoff of its *)
(* own tenant: not another tenant's memory, a position nobody wrote, an    *)
(* observation or decision, or the run's own rows.  What clients post as   *)
(* decisions may cite anything (agent.py:28-32 and 111).                   *)
CitationsGrounded ==
  /\ \A d \in rows \ posts : d.kind = "decision" => CitesHandoff(d.tenant, d.cites)
  /\ \A r \in Run : CitesHandoff(request[r].tenant, choice[r].cites)

(* An answered run has a decision on record under its key, even when the   *)
(* run before it died half way (agent.py:71-89, README.md:3).              *)
ReplyIsOnRecord == \A r \in Run : pc[r] = "replied" => DecisionOnRecord(request[r]) # {}

(* On either backend a run that answers has put its decision on record or  *)
(* found one under its key, but for one case: SQLite also answers False    *)
(* where another event holds the decision's position, and the run answers  *)
(* all the same (store.py:59-61, agent.py:89-98).                          *)
RepliesAccounted ==
  \A r \in Run : pc[r] = "replied" =>
    \/ DecisionOnRecord(request[r]) # {}
    \/ /\ Backend = "sqlite"
       /\ ~recorded[r].decision
       /\ PositionTaken(rows, DecisionOf(request[r], choice[r]))

(* The key of a request is its own: nobody uses it for another request or  *)
(* event, nor derives it for a decision.                                   *)
KeyIsOwn(q) ==
  /\ \A p \in Request : p.tenant = q.tenant => (p.key = q.key => p = q) /\ DecisionKey(p) # q.key
  /\ \A e \in Postable : ReplayKey(e) # <<q.tenant, q.key>>

(* A run never records a decision unless the key of its observation is     *)
(* taken, and by that observation, one position before the decision, where *)
(* the key is used for nothing else: although the two are separate         *)
(* transactions, and whatever clients post (agent.py:61-89).               *)
DecisionsFollowObservations ==
  \A d \in rows \ posts : d.kind = "decision" =>
    \E q \in Request :
      /\ ReplayKey(d) = <<q.tenant, DecisionKey(q)>>
      /\ d.incident = q.incident /\ d.sequence = q.sequence + 1
      /\ KeyTaken(rows, ObservationOf(q))
      /\ KeyIsOwn(q) => ObservationOf(q) \in rows

(* Of all the runs that serve one key, at most one says decision_recorded, *)
(* and what it answered is what the ledger holds (agent.py:89-98).         *)
RecordedOnce ==
  \A r \in Run : pc[r] = "replied" /\ recorded[r].decision =>
    /\ DecisionOnRecord(request[r]) = {DecisionOf(request[r], choice[r])}
    /\ \A s \in Run \ {r} :
         /\ pc[s] = "replied" /\ recorded[s].decision
         /\ request[s].tenant = request[r].tenant
         => request[s].key # request[r].key

(* An observation that a run recorded is explained while it has no         *)
(* decision: its run is about to decide or ended before it could, it was   *)
(* refused its decision, or the decision's position was another event's;   *)
(* and but for that last case on SQLite nobody was answered about it       *)
(* (agent.py:71-89).                                                       *)
HalfPairsExplained ==
  \A o \in rows \ posts : o.kind = "observation" =>
    \E r \in Run :
      /\ ObservationOf(request[r]) = o
      /\ \/ DecisionOnRecord(request[r]) # {}
         \/ PositionTaken(rows, DecisionOf(request[r], choice[r]))
         \/ /\ pc[r] \in {"decide", "interrupted"} \/ DecisionRefused(r)
            /\ \A s \in Run : request[s] = request[r] => pc[s] # "replied"
=============================================================================
