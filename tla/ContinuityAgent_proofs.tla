----------------------- MODULE ContinuityAgent_proofs -----------------------
(***************************************************************************)
(* Proofs about ContinuityAgent, for any number of runs, any requests and  *)
(* any events that clients may post, recall limits and similarity measures.*)
(***************************************************************************)
EXTENDS ContinuityAgent, TLAPS

USE BackendAssumption, LimitAssumption, SequenceAssumption, RequestAssumption, PostableAssumption

(* What a run chooses is an abstention or cites a recalled handoff.        *)
LEMMA ChoicesCiteHandoffs ==
  ASSUME NEW observation, NEW found, NEW chosen \in Choices(observation, found)
  PROVE  \/ chosen = Abstain
         \/ \E h \in found : /\ h.kind = "handoff"
                             /\ chosen = [action |-> ActionFor(h.words),
                                          cites |-> <<h.incident, h.sequence>>]
BY DEF Choices, ChoiceFrom, Handoffs

(* search returns rows of the tenant it was asked for.                     *)
LEMMA RecallsOwnMemory ==
  ASSUME NEW tenant, NEW observation, NEW found \in Recalls(tenant, observation)
  PROVE  found \subseteq rows /\ \A e \in found : e.tenant = tenant
BY DEF Recalls, Memory

(* What the events of a run are, whatever clients post (agent.py:61-88).   *)
LEMMA EventKinds ==
  /\ \A q \in Request : /\ ObservationOf(q).kind = "observation"
                        /\ ObservationOf(q).key = q.key
                        /\ ObservationOf(q).tenant = q.tenant
                        /\ ObservationOf(q).sequence = q.sequence
  /\ \A q \in Request, chosen \in Choice :
       /\ DecisionOf(q, chosen).kind = "decision"
       /\ DecisionOf(q, chosen).key = <<"decision", q.key>>
       /\ DecisionOf(q, chosen).tenant = q.tenant
       /\ DecisionOf(q, chosen).sequence = q.sequence + 1
       /\ DecisionOf(q, chosen).incident = q.incident
       /\ DecisionOf(q, chosen).cites = chosen.cites
BY DEF ObservationOf, DecisionOf, DecisionKey

(* What a run chooses after a recall cites a recalled handoff, if any.     *)
LEMMA RecalledChoice ==
  ASSUME TypeOK, NEW r \in Run, Recall(r)
  PROVE  \E chosen \in Choice :
           /\ choice' = [choice EXCEPT ![r] = chosen]
           /\ chosen.cites # NoCitation =>
                \E h \in rows : /\ h.kind = "handoff" /\ h.tenant = request[r].tenant
                                /\ chosen.cites = <<h.incident, h.sequence>>
<1>0. PICK found \in Recalls(request[r].tenant, request[r].observation) :
        \E chosen \in Choices(request[r].observation, found) :
          choice' = [choice EXCEPT ![r] = chosen]
  BY DEF Recall
<1>1. PICK chosen \in Choices(request[r].observation, found) :
        choice' = [choice EXCEPT ![r] = chosen]
  BY <1>0
<1>2. CASE chosen = Abstain
  <2>1. chosen \in Choice /\ chosen.cites = NoCitation
    BY <1>2 DEF Abstain, Choice, Action
  <2> QED
    BY <1>1, <2>1
<1>3. CASE chosen # Abstain
  <2>1. PICK h \in found : /\ h.kind = "handoff"
                           /\ chosen = [action |-> ActionFor(h.words),
                                        cites |-> <<h.incident, h.sequence>>]
    BY <1>1, <1>3, ChoicesCiteHandoffs
  <2>2. h \in rows /\ h.tenant = request[r].tenant
    BY <1>1, RecallsOwnMemory
  <2>3. h \in Postable
    BY <2>1, <2>2, EventKinds DEF TypeOK, Event
  <2>4. chosen \in Choice
    BY <2>1, <2>3 DEF Choice, Action, ActionFor
  <2> QED
    BY <1>1, <2>1, <2>2, <2>4
<1> QED
  BY <1>2, <1>3

(* What the two appends of a run offer is an event that fits the table.    *)
LEMMA PendingEvents ==
  ASSUME TypeOK, NEW r \in Run
  PROVE  /\ ObservationOf(request[r]) \in Event
         /\ ObservationOf(request[r]).sequence \in 1..MaxSequence
         /\ DecisionOf(request[r], choice[r]) \in Event
         /\ ~DecisionRefused(r) => DecisionOf(request[r], choice[r]).sequence \in 1..MaxSequence
<1>1. request[r] \in Request /\ choice[r] \in Choice
  BY DEF TypeOK
<1> QED
  BY <1>1, EventKinds DEF Event, DecisionRefused

(* Every step keeps the types.                                             *)
LEMMA TypingStep ==
  ASSUME TypeOK, [Next]_vars
  PROVE  TypeOK'
<1> USE DEF TypeOK, Outcome
<1>1. CASE UNCHANGED vars
  BY <1>1 DEF vars
<1>2. ASSUME NEW r \in Run, NEW q \in Request, Start(r, q)
      PROVE  TypeOK'
  BY <1>2 DEF Start, Move
<1>3. ASSUME NEW r \in Run, Recall(r)
      PROVE  TypeOK'
  <2>1. PICK chosen \in Choice : choice' = [choice EXCEPT ![r] = chosen]
    BY <1>3, RecalledChoice
  <2> QED
    BY <1>3, <2>1 DEF Recall, Move
<1>4. ASSUME NEW r \in Run, Observe(r)
      PROVE  TypeOK'
  BY <1>4, PendingEvents DEF Observe, Move, RowsAfter
<1>5. ASSUME NEW r \in Run, Decide(r)
      PROVE  TypeOK'
  BY <1>5, PendingEvents DEF Decide, Move, RowsAfter
<1>6. ASSUME NEW r \in Run, RejectDecision(r) \/ PositionClash(r) \/ Interrupt(r)
      PROVE  TypeOK'
  BY <1>6 DEF RejectDecision, PositionClash, Interrupt, Move
<1>7. ASSUME NEW r \in Run, LoseCommit(r)
      PROVE  TypeOK'
  BY <1>7, PendingEvents DEF LoseCommit, Pending
<1>8. ASSUME NEW e \in inflight, LateCommit(e) \/ LateAbort(e)
      PROVE  TypeOK'
  BY <1>8 DEF LateCommit, LateAbort
<1>9. ASSUME NEW e \in Postable, RecordEvent(e) \/ LoseEvent(e)
      PROVE  TypeOK'
  BY <1>9, PostableAssumption DEF RecordEvent, LoseEvent, Event
<1> QED
  BY <1>1, <1>2, <1>3, <1>4, <1>5, <1>6, <1>7, <1>8, <1>9 DEF Next, RunStep

(* Only events that were offered, at positions the table has, are stored   *)
(* or under way, and runs keep their types.                                *)
THEOREM Typing == Spec => []TypeOK
<1>1. Init => TypeOK
  BY DEF Init, TypeOK, Abstain, Choice, Action
<1>2. TypeOK /\ [Next]_vars => TypeOK'
  BY TypingStep
<1> QED
  BY <1>1, <1>2, PTL DEF Spec

-----------------------------------------------------------------------------
(***************************************************************************)
(* What a step does to rows and to one run.                                *)
(***************************************************************************)

(* Rows are never taken away, so a citation never comes to dangle.         *)
LEMMA RowsGrow ==
  ASSUME [Next]_vars
  PROVE  rows \subseteq rows'
<1>1. ASSUME NEW r \in Run, RunStep(r)
      PROVE  rows \subseteq rows'
  BY <1>1 DEF RunStep, Recall, Observe, Decide, RejectDecision, PositionClash, RowsAfter
<1> QED
  BY <1>1 DEF Next, vars, Start, Interrupt, LoseCommit, LateCommit, LateAbort, RecordEvent, LoseEvent

(* What clients have posted they have posted (lambda_handler.py:81-85).    *)
LEMMA PostsGrow ==
  ASSUME [Next]_vars
  PROVE  posts \subseteq posts'
<1>1. ASSUME NEW r \in Run, RunStep(r)
      PROVE  posts \subseteq posts'
  BY <1>1 DEF RunStep, Recall, Observe, Decide, RejectDecision, PositionClash
<1> QED
  BY <1>1 DEF Next, vars, Start, Interrupt, LoseCommit, LateCommit, LateAbort, RecordEvent, LoseEvent

(* Either store inserts exactly what is free.                              *)
LEMMA AnswerTrue ==
  ASSUME NEW e
  PROVE  /\ StoreAnswer(e) = "true" <=> Free(rows, e)
         /\ StoreAnswer(e) = "false" => KeyTaken(rows, e) \/ (Backend = "sqlite" /\ PositionTaken(rows, e))
BY BackendAssumption DEF StoreAnswer, SqliteAnswer, CockroachAnswer, Free

Unmoved(r) ==
  /\ pc'[r] = pc[r] /\ request'[r] = request[r]
  /\ choice'[r] = choice[r] /\ recorded'[r] = recorded[r]

(* A run is moved by its own steps only (agent.py:40-98).                  *)
LEMMA OneRunMoves ==
  ASSUME TypeOK, [Next]_vars, NEW s \in Run
  PROVE  \/ Unmoved(s)
         \/ \E q \in Request : Start(s, q)
         \/ RunStep(s) \/ Interrupt(s) \/ LoseCommit(s)
<1> USE DEF TypeOK, Unmoved, Move
<1>1. ASSUME NEW r \in Run \ {s}, NEW q \in Request, Start(r, q)
      PROVE  Unmoved(s)
  BY <1>1 DEF Start
<1>2. ASSUME NEW r \in Run \ {s}, Recall(r)
      PROVE  Unmoved(s)
  BY <1>2 DEF Recall
<1>3. ASSUME NEW r \in Run \ {s}, Observe(r) \/ Decide(r)
      PROVE  Unmoved(s)
  <2>1. /\ pc'[s] = pc[s] /\ UNCHANGED <<request, choice>>
        /\ \E told : recorded' = [recorded EXCEPT ![r].observation = told]
                  \/ recorded' = [recorded EXCEPT ![r].decision = told]
    BY <1>3 DEF Observe, Decide
  <2> QED BY <2>1
<1>4. ASSUME NEW r \in Run \ {s},
             RejectDecision(r) \/ PositionClash(r) \/ Interrupt(r) \/ LoseCommit(r)
      PROVE  Unmoved(s)
  BY <1>4 DEF RejectDecision, PositionClash, Interrupt, LoseCommit
<1>5. ASSUME NEW e, LateCommit(e) \/ LateAbort(e) \/ RecordEvent(e) \/ LoseEvent(e)
      PROVE  Unmoved(s)
  BY <1>5 DEF LateCommit, LateAbort, RecordEvent, LoseEvent
<1>6. CASE UNCHANGED vars
  BY <1>6 DEF vars
<1> HIDE DEF Unmoved
<1> QED BY <1>1, <1>2, <1>3, <1>4, <1>5, <1>6 DEF Next, RunStep

(* A run that has not begun was not moved; nor was one that has ended.     *)
LEMMA IdleIsUnmoved ==
  ASSUME TypeOK, [Next]_vars, NEW s \in Run, pc'[s] = "idle" \/ pc[s] \in Outcome
  PROVE  Unmoved(s)
<1> USE DEF TypeOK, Move, Outcome
<1>1. ~ \E q \in Request : Start(s, q)
  BY DEF Start
<1>2. ~ (Recall(s) \/ Observe(s) \/ Decide(s))
  BY DEF Recall, Observe, Decide
<1>3. ~ (RejectDecision(s) \/ PositionClash(s) \/ Interrupt(s) \/ LoseCommit(s))
  BY DEF RejectDecision, PositionClash, Interrupt, LoseCommit
<1> QED BY <1>1, <1>2, <1>3, OneRunMoves DEF RunStep

(* A run that has begun keeps its request, and one that has chosen its     *)
(* choice (agent.py:50-58).                                                *)
LEMMA RunKeepsRequest ==
  ASSUME TypeOK, [Next]_vars, NEW s \in Run
  PROVE  /\ pc[s] # "idle" => request'[s] = request[s] /\ pc'[s] # "idle"
         /\ pc[s] \notin {"idle", "recall"} =>
              choice'[s] = choice[s] /\ pc'[s] \notin {"idle", "recall"}
<1> USE DEF TypeOK, Move
<1>1. CASE Unmoved(s)
  BY <1>1 DEF Unmoved
<1>2. CASE \E q \in Request : Start(s, q)
  BY <1>2 DEF Start
<1>3. CASE Recall(s)
  BY <1>3 DEF Recall
<1>4. CASE Observe(s) \/ Decide(s)
  BY <1>4 DEF Observe, Decide
<1>5. CASE RejectDecision(s) \/ PositionClash(s) \/ Interrupt(s) \/ LoseCommit(s)
  BY <1>5 DEF RejectDecision, PositionClash, Interrupt, LoseCommit
<1> QED BY <1>1, <1>2, <1>3, <1>4, <1>5, OneRunMoves DEF RunStep

-----------------------------------------------------------------------------
(***************************************************************************)
(* Citations.                                                              *)
(***************************************************************************)

(* What runs have put on record cites a handoff on record, and so does     *)
(* what runs and lost connections may still put there.                     *)
Grounded ==
  /\ \A d \in (rows \union inflight) \ posts :
       d.kind = "decision" => CitesHandoff(d.tenant, d.cites)
  /\ \A r \in Run : /\ CitesHandoff(request[r].tenant, choice[r].cites)
                    /\ pc[r] = "idle" => choice[r].cites = NoCitation

(* Chosen and recorded citations stay grounded: rows only grow.            *)
LEMMA GroundedStep ==
  ASSUME TypeOK, Grounded, [Next]_vars
  PROVE  Grounded'
<1>1. \A tenant, cites : CitesHandoff(tenant, cites) => CitesHandoff(tenant, cites)'
  BY RowsGrow DEF CitesHandoff
<1>2. SUFFICES
        /\ \A d \in (rows' \union inflight') \ (rows \union inflight \union posts') :
             d.kind = "decision" => CitesHandoff(d.tenant, d.cites)
        /\ \A r \in Run : CitesHandoff(request'[r].tenant, choice'[r].cites)
  <2>1. \A r \in Run : pc'[r] = "idle" => choice'[r].cites = NoCitation
    BY IdleIsUnmoved DEF Grounded, Unmoved
  <2> QED
    BY <1>1, <2>1, PostsGrow DEF Grounded
<1> USE DEF TypeOK
<1>3. CASE UNCHANGED vars
  BY <1>3 DEF vars, Grounded
<1>4. ASSUME NEW r \in Run, Recall(r)
      PROVE  /\ UNCHANGED <<rows, inflight>>
             /\ \A s \in Run : CitesHandoff(request'[s].tenant, choice'[s].cites)
  <2>1. PICK chosen \in Choice :
          /\ choice' = [choice EXCEPT ![r] = chosen]
          /\ chosen.cites # NoCitation =>
               \E h \in rows : /\ h.kind = "handoff" /\ h.tenant = request[r].tenant
                               /\ chosen.cites = <<h.incident, h.sequence>>
    BY <1>4, RecalledChoice
  <2>2. CitesHandoff(request[r].tenant, chosen.cites)
    BY <2>1 DEF CitesHandoff, Position
  <2> QED
    BY <1>4, <2>1, <2>2 DEF Recall, Grounded
<1>5. ASSUME NEW r \in Run, Observe(r)
      PROVE  /\ rows' \subseteq rows \union {ObservationOf(request[r])}
             /\ UNCHANGED <<inflight, request, choice>>
  BY <1>5 DEF Observe, RowsAfter
<1>6. ASSUME NEW r \in Run, Decide(r)
      PROVE  /\ rows' \subseteq rows \union {DecisionOf(request[r], choice[r])}
             /\ UNCHANGED <<inflight, request, choice>>
  BY <1>6 DEF Decide, RowsAfter
<1>7. ASSUME NEW r \in Run, LoseCommit(r)
      PROVE  /\ inflight' \subseteq inflight \union
                  {ObservationOf(request[r]), DecisionOf(request[r], choice[r])}
             /\ UNCHANGED <<rows, request, choice>>
  BY <1>7 DEF LoseCommit, Pending
<1>8. \A r \in Run :
        /\ ObservationOf(request[r]).kind = "observation"
        /\ CitesHandoff(DecisionOf(request[r], choice[r]).tenant,
                        DecisionOf(request[r], choice[r]).cites)
  BY EventKinds DEF Grounded
<1>9. ASSUME NEW e \in Postable, RecordEvent(e) \/ LoseEvent(e)
      PROVE  /\ rows' \union inflight' \subseteq (rows \union inflight) \union {e}
             /\ e \in posts'
             /\ UNCHANGED <<request, choice>>
  BY <1>9 DEF RecordEvent, LoseEvent
<1>10. ASSUME NEW r \in Run, RejectDecision(r) \/ PositionClash(r) \/ Interrupt(r)
       PROVE  UNCHANGED <<rows, inflight, request, choice>>
  BY <1>10 DEF RejectDecision, PositionClash, Interrupt
<1>11. ASSUME NEW e \in inflight, LateCommit(e) \/ LateAbort(e)
       PROVE  /\ rows' \union inflight' \subseteq rows \union inflight
              /\ UNCHANGED <<request, choice>>
  BY <1>11 DEF LateCommit, LateAbort
<1>12. ASSUME NEW r \in Run, NEW q \in Request, Start(r, q)
       PROVE  /\ UNCHANGED <<rows, inflight>>
              /\ \A s \in Run : CitesHandoff(request'[s].tenant, choice'[s].cites)
  BY <1>12 DEF Start, Move, Grounded, CitesHandoff
<1> QED
  BY <1>3, <1>4, <1>5, <1>6, <1>7, <1>8, <1>9, <1>10, <1>11, <1>12 DEF Next, RunStep, Grounded

(* Every citation that a run answers with or has on record is that of a    *)
(* handoff of its own tenant, whatever clients post: runs only choose      *)
(* among the handoffs they recalled, recall reads one tenant's rows, and   *)
(* rows are never taken away (agent.py:50-58).                             *)
THEOREM Citations == Spec => []CitationsGrounded
<1>1. Init => Grounded
  BY DEF Init, Grounded, CitesHandoff, Abstain
<1>2. TypeOK /\ Grounded /\ [Next]_vars => Grounded'
  BY GroundedStep
<1>3. Grounded => CitationsGrounded
  BY DEF Grounded, CitationsGrounded
<1> QED
  BY <1>1, <1>2, <1>3, Typing, PTL DEF Spec

-----------------------------------------------------------------------------
(***************************************************************************)
(* Decisions on record.                                                    *)
(***************************************************************************)

(* A run that has replied keeps what it was told; one that replies now has *)
(* just decided.                                                           *)
LEMMA ReplyOrigin ==
  ASSUME TypeOK, [Next]_vars, NEW s \in Run, pc'[s] = "replied"
  PROVE  /\ request'[s] = request[s] /\ choice'[s] = choice[s]
         /\ Decide(s) \/ (pc[s] = "replied" /\ recorded'[s] = recorded[s])
<1> USE DEF TypeOK, Move
<1>1. CASE Unmoved(s)
  BY <1>1 DEF Unmoved
<1>2. CASE Decide(s)
  BY <1>2 DEF Decide
<1>3. ~ \E q \in Request : Start(s, q)
  BY DEF Start
<1>4. ~ (Recall(s) \/ Observe(s))
  BY DEF Recall, Observe
<1>5. ~ (RejectDecision(s) \/ PositionClash(s) \/ Interrupt(s) \/ LoseCommit(s))
  BY DEF RejectDecision, PositionClash, Interrupt, LoseCommit
<1> QED BY <1>1, <1>2, <1>3, <1>4, <1>5, OneRunMoves DEF RunStep

(* On CockroachDB every step keeps a decision on record for each answer.   *)
LEMMA ReplyStep ==
  ASSUME Backend = "cockroach", TypeOK, ReplyIsOnRecord, [Next]_vars
  PROVE  ReplyIsOnRecord'
<1> USE DEF TypeOK
<1> SUFFICES ASSUME NEW r \in Run, pc'[r] = "replied"
             PROVE  \E d \in rows' : d.tenant = request[r].tenant /\ d.key = DecisionKey(request[r])
  BY ReplyOrigin DEF ReplyIsOnRecord, DecisionOnRecord
<1>1. CASE pc[r] = "replied"
  BY <1>1, RowsGrow DEF ReplyIsOnRecord, DecisionOnRecord
<1>2. CASE Decide(r)
  <2> DEFINE e == DecisionOf(request[r], choice[r])
  <2>1. KeyTaken(rows', e)
    BY <1>2 DEF Decide, StoreAnswer, CockroachAnswer, RowsAfter, KeyTaken
  <2>2. ReplayKey(e) = <<request[r].tenant, DecisionKey(request[r])>>
    BY EventKinds DEF ReplayKey, DecisionKey
  <2>3. PICK d \in rows' : ReplayKey(d) = <<request[r].tenant, DecisionKey(request[r])>>
    BY <2>1, <2>2 DEF KeyTaken
  <2> QED
    BY <2>3 DEF ReplayKey
<1> QED
  BY <1>1, <1>2, ReplyOrigin

(* On CockroachDB an answered run always has a decision on record: append  *)
(* returns only if its own row or an earlier one bears the decision's key. *)
(* (SQLite also returns where another event holds the position.)           *)
THEOREM RepliesOnRecord ==
  ASSUME Backend = "cockroach"
  PROVE  Spec => []ReplyIsOnRecord
<1>1. Init => ReplyIsOnRecord
  BY DEF Init, ReplyIsOnRecord
<1>2. TypeOK /\ ReplyIsOnRecord /\ [Next]_vars => ReplyIsOnRecord'
  BY ReplyStep
<1> QED
  BY <1>1, <1>2, Typing, PTL DEF Spec

-----------------------------------------------------------------------------
(***************************************************************************)
(* What a run is told about its decision, on either backend.               *)
(***************************************************************************)

Told(r) == pc[r] = "replied" /\ recorded[r].decision

(* One row per replay key, and the row of whoever was told of one.         *)
Recorded ==
  /\ \A d, e \in rows : ReplayKey(d) = ReplayKey(e) => d = e
  /\ \A r \in Run : Told(r) => DecisionOf(request[r], choice[r]) \in rows
  /\ \A r, s \in Run :
       Told(r) /\ Told(s) /\ request[s].tenant = request[r].tenant /\ request[s].key = request[r].key
         => r = s

(* Two decisions have one replay key only where their requests have.       *)
LEMMA DecisionKeys ==
  ASSUME NEW p, NEW q, NEW chosen, NEW other
  PROVE  /\ ReplayKey(DecisionOf(p, chosen)) = <<p.tenant, DecisionKey(p)>>
         /\ p.tenant = q.tenant /\ p.key = q.key
              => ReplayKey(DecisionOf(p, chosen)) = ReplayKey(DecisionOf(q, other))
BY DEF DecisionOf, DecisionKey, ReplayKey

(* A store that inserts only what is free keeps one row per key.           *)
LEMMA RowsUnique ==
  ASSUME Recorded, [Next]_vars
  PROVE  \A d, e \in rows' : ReplayKey(d) = ReplayKey(e) => d = e
<1>1. ASSUME NEW e, Free(rows, e), rows' = rows \union {e}
      PROVE  \A a, b \in rows' : ReplayKey(a) = ReplayKey(b) => a = b
  BY <1>1 DEF Recorded, Free, KeyTaken
<1>2. CASE rows' = rows
  BY <1>2 DEF Recorded
<1>3. ASSUME NEW e, rows' = RowsAfter(rows, e, StoreAnswer(e))
      PROVE  rows' = rows \/ (Free(rows, e) /\ rows' = rows \union {e})
  BY <1>3, AnswerTrue DEF RowsAfter
<1>4. ASSUME NEW r \in Run, Observe(r) \/ Decide(r)
      PROVE  \E e : rows' = RowsAfter(rows, e, StoreAnswer(e))
  BY <1>4 DEF Observe, Decide
<1>5. ASSUME NEW r \in Run, \/ \E q \in Request : Start(r, q)
                            \/ Recall(r) \/ RejectDecision(r) \/ PositionClash(r)
                            \/ Interrupt(r) \/ LoseCommit(r)
      PROVE  rows' = rows
  BY <1>5 DEF Start, Recall, RejectDecision, PositionClash, Interrupt, LoseCommit
<1>6. ASSUME NEW e, LateCommit(e) \/ LateAbort(e) \/ RecordEvent(e) \/ LoseEvent(e)
      PROVE  rows' = rows \/ (Free(rows, e) /\ rows' = rows \union {e})
  BY <1>6 DEF LateCommit, LateAbort, RecordEvent, LoseEvent
<1>7. CASE UNCHANGED vars
  BY <1>7, <1>2 DEF vars
<1> QED
  BY <1>1, <1>2, <1>3, <1>4, <1>5, <1>6, <1>7 DEF Next, RunStep

(* A run that decides is told what its append answered; nothing else       *)
(* changes what a run was told, or what it was asked and chose.            *)
LEMMA ToldStep ==
  ASSUME TypeOK, [Next]_vars, NEW s \in Run, Told(s)'
  PROVE  /\ request'[s] = request[s]
         /\ choice'[s] = choice[s]
         /\ \/ Told(s)
            \/ Decide(s) /\ StoreAnswer(DecisionOf(request[s], choice[s])) = "true"
<1>1. pc'[s] = "replied"
  BY DEF Told
<1>2. CASE Decide(s)
  <2>1. recorded'[s].decision = (StoreAnswer(DecisionOf(request[s], choice[s])) = "true")
    BY <1>2, Zenon DEF Decide, TypeOK
  <2> QED
    BY <1>1, <1>2, <2>1, ReplyOrigin DEF Told
<1>3. CASE pc[s] = "replied" /\ recorded'[s] = recorded[s]
  BY <1>1, <1>3, ReplyOrigin DEF Told
<1> QED
  BY <1>1, <1>2, <1>3, ReplyOrigin

(* What a run was told stays true: another run's decision under the same   *)
(* key meets the row and is answered False.                                *)
LEMMA RecordedStep ==
  ASSUME TypeOK, Recorded, [Next]_vars
  PROVE  Recorded'
<1>1. ASSUME NEW s \in Run, Decide(s), StoreAnswer(DecisionOf(request[s], choice[s])) = "true"
      PROVE  DecisionOf(request[s], choice[s]) \in rows' /\ Free(rows, DecisionOf(request[s], choice[s]))
  BY <1>1, AnswerTrue DEF Decide, RowsAfter
<1>2. ASSUME NEW s \in Run, Told(s)'
      PROVE  DecisionOf(request'[s], choice'[s]) \in rows'
  BY <1>1, <1>2, ToldStep, RowsGrow DEF Recorded
<1>3. ASSUME NEW r \in Run, NEW s \in Run, Told(r), Decide(s),
             StoreAnswer(DecisionOf(request[s], choice[s])) = "true",
             request[s].tenant = request[r].tenant, request[s].key = request[r].key
      PROVE  FALSE
  <2>1. DecisionOf(request[r], choice[r]) \in rows
    BY <1>3 DEF Recorded
  <2>2. KeyTaken(rows, DecisionOf(request[s], choice[s]))
    BY <1>3, <2>1, DecisionKeys DEF KeyTaken
  <2> QED
    BY <1>1, <1>3, <2>2 DEF Free
<1>4. ASSUME NEW r \in Run, NEW s \in Run, Decide(r), Decide(s)
      PROVE  r = s
  BY <1>4 DEF Decide, Move, TypeOK
<1>5. ASSUME NEW r \in Run, NEW s \in Run, Told(r)', Told(s)',
             request'[s].tenant = request'[r].tenant, request'[s].key = request'[r].key
      PROVE  r = s
  <2>1. request'[r] = request[r] /\ request'[s] = request[s]
    BY <1>5, ToldStep
  <2>2. Told(r) \/ (Decide(r) /\ StoreAnswer(DecisionOf(request[r], choice[r])) = "true")
    BY <1>5, ToldStep
  <2>3. Told(s) \/ (Decide(s) /\ StoreAnswer(DecisionOf(request[s], choice[s])) = "true")
    BY <1>5, ToldStep
  <2> QED
    BY <1>3, <1>4, <1>5, <2>1, <2>2, <2>3 DEF Recorded
<1> QED
  BY <1>2, <1>5, RowsUnique DEF Recorded

(* So they stay throughout (agent.py:89-98).                               *)
LEMMA RecordedAlways == Spec => []Recorded
<1>1. Init => Recorded
  BY DEF Init, Recorded, Told
<1>2. TypeOK /\ Recorded /\ [Next]_vars => Recorded'
  BY RecordedStep
<1> QED
  BY <1>1, <1>2, Typing, PTL DEF Spec

(* Of all the runs that serve one key at most one is told that it recorded *)
(* the decision, and what it answers is what the ledger holds, however     *)
(* they overlap, on either backend.                                        *)
THEOREM RecordedAtMostOnce == Spec => []RecordedOnce
<1>1. TypeOK /\ Recorded => RecordedOnce
  <2> SUFFICES ASSUME TypeOK, Recorded, NEW r \in Run, Told(r)
               PROVE  /\ DecisionOnRecord(request[r]) = {DecisionOf(request[r], choice[r])}
                      /\ \A s \in Run \ {r} :
                           Told(s) /\ request[s].tenant = request[r].tenant
                           => request[s].key # request[r].key
    BY DEF RecordedOnce, Told
  <2> DEFINE d == DecisionOf(request[r], choice[r])
  <2>1. d \in rows /\ ReplayKey(d) = <<request[r].tenant, DecisionKey(request[r])>>
    BY DecisionKeys DEF Recorded
  <2>2. d.tenant = request[r].tenant /\ d.key = DecisionKey(request[r])
    BY DEF DecisionOf
  <2>3. ASSUME NEW e \in rows, e.tenant = request[r].tenant, e.key = DecisionKey(request[r])
        PROVE  e = d
    BY <2>1, <2>3 DEF Recorded, ReplayKey
  <2>4. DecisionOnRecord(request[r]) = {d}
    BY <2>1, <2>2, <2>3 DEF DecisionOnRecord
  <2> QED
    BY <2>4 DEF Recorded
<1> QED
  BY <1>1, RecordedAlways, Typing, PTL

Accounted(r) ==
  \/ DecisionOnRecord(request[r]) # {}
  \/ /\ Backend = "sqlite"
     /\ ~recorded[r].decision
     /\ PositionTaken(rows, DecisionOf(request[r], choice[r]))

(* On either backend a run that answers either leaves or finds a decision  *)
(* under its key, or has met another event at its position on SQLite.      *)
THEOREM RepliesExplained == Spec => []RepliesAccounted
<1>1. Init => RepliesAccounted
  BY DEF Init, RepliesAccounted
<1>2. ASSUME TypeOK, RepliesAccounted, [Next]_vars, NEW r \in Run, pc'[r] = "replied"
      PROVE  Accounted(r)'
  <2> DEFINE d == DecisionOf(request[r], choice[r])
  <2>1. request'[r] = request[r] /\ choice'[r] = choice[r] /\ rows \subseteq rows'
    BY <1>2, ReplyOrigin, RowsGrow
  <2>2. CASE Decide(r)
    <3>1. rows' = RowsAfter(rows, d, StoreAnswer(d)) /\ StoreAnswer(d) \in {"true", "false"}
      BY <2>2 DEF Decide
    <3>2. recorded'[r].decision = (StoreAnswer(d) = "true")
      BY <1>2, <2>2, Zenon DEF Decide, TypeOK
    <3>3. CASE KeyTaken(rows', d)
      <4>1. PICK e \in rows' : ReplayKey(e) = <<request[r].tenant, DecisionKey(request[r])>>
        BY <3>3, DecisionKeys DEF KeyTaken
      <4>2. e.tenant = request[r].tenant /\ e.key = DecisionKey(request[r])
        BY <4>1 DEF ReplayKey
      <4> QED
        BY <2>1, <4>2 DEF DecisionOnRecord, Accounted
    <3>4. CASE ~KeyTaken(rows', d)
      <4>1. StoreAnswer(d) = "false"
        BY <3>1, <3>4 DEF RowsAfter, KeyTaken
      <4>2. ~KeyTaken(rows, d)
        BY <2>1, <3>4 DEF KeyTaken
      <4>3. Backend = "sqlite" /\ PositionTaken(rows, d)
        BY <4>1, <4>2, AnswerTrue
      <4>4. PositionTaken(rows', d)
        BY <2>1, <4>3 DEF PositionTaken
      <4>5. ~recorded'[r].decision
        BY <3>2, <4>1
      <4> QED
        BY <2>1, <4>3, <4>4, <4>5 DEF Accounted
    <3> QED
      BY <3>3, <3>4
  <2>3. CASE pc[r] = "replied" /\ recorded'[r] = recorded[r]
    <3>1. CASE DecisionOnRecord(request[r]) # {}
      BY <2>1, <3>1 DEF DecisionOnRecord, Accounted
    <3>2. CASE ~recorded[r].decision /\ Backend = "sqlite" /\ PositionTaken(rows, d)
      <4>1. PositionTaken(rows', d)
        BY <2>1, <3>2 DEF PositionTaken
      <4> QED
        BY <2>1, <2>3, <3>2, <4>1 DEF Accounted
    <3>3. Accounted(r)
      BY <1>2, <2>3 DEF RepliesAccounted, Accounted
    <3> QED
      BY <3>1, <3>2, <3>3 DEF Accounted
  <2> QED
    BY <1>2, <2>2, <2>3, ReplyOrigin
<1>3. TypeOK /\ RepliesAccounted /\ [Next]_vars => RepliesAccounted'
  BY <1>2 DEF RepliesAccounted, Accounted
<1> QED
  BY <1>1, <1>3, Typing, PTL DEF Spec

-----------------------------------------------------------------------------
(***************************************************************************)
(* Pairs.                                                                  *)
(***************************************************************************)

(* The key of the observation is taken, and by it where nobody else may    *)
(* use that key (agent.py:61-71).                                          *)
Observed(q) ==
  /\ KeyTaken(rows, ObservationOf(q))
  /\ KeyIsOwn(q) => ObservationOf(q) \in rows

(* The observation a decision on record, or on its way there, goes with.   *)
Preceded(d) ==
  \E q \in Request :
    /\ ReplayKey(d) = <<q.tenant, DecisionKey(q)>>
    /\ d.incident = q.incident /\ d.sequence = q.sequence + 1
    /\ Observed(q)

Paired ==
  /\ \A d \in (rows \union inflight) \ posts : d.kind = "decision" => Preceded(d)
  /\ \A r \in Run : pc[r] = "decide" => Observed(request[r])

(* A key that is a request's own leads to its observation only.            *)
LEMMA ObservationsByKey ==
  ASSUME NEW stored \in SUBSET Event, NEW q \in Request, KeyIsOwn(q),
         KeyTaken(stored, ObservationOf(q))
  PROVE  ObservationOf(q) \in stored
<1>1. PICK e \in stored : e.tenant = q.tenant /\ e.key = q.key
  BY EventKinds DEF KeyTaken, ReplayKey
<1>2. e \notin Postable
  BY <1>1 DEF KeyIsOwn, ReplayKey
<1>3. ASSUME NEW p \in Request, NEW chosen \in Choice
      PROVE  e # DecisionOf(p, chosen)
  <2>1. DecisionOf(p, chosen).tenant = p.tenant /\ DecisionOf(p, chosen).key = DecisionKey(p)
    BY DEF DecisionOf
  <2> QED BY <1>1, <2>1 DEF KeyIsOwn
<1>4. PICK p \in Request : e = ObservationOf(p)
  BY <1>2, <1>3 DEF Event
<1>5. p = q
  <2>1. p.key = q.key /\ p.tenant = q.tenant
    BY <1>1, <1>4, EventKinds
  <2> QED
    BY <2>1 DEF KeyIsOwn
<1> QED
  BY <1>4, <1>5

(* On CockroachDB every step keeps each decision behind its observation.   *)
LEMMA PairedStep ==
  ASSUME Backend = "cockroach", TypeOK, Paired, [Next]_vars
  PROVE  Paired'
<1> USE DEF TypeOK
<1>0. \A q : Observed(q) => Observed(q)'
  BY RowsGrow DEF Observed, KeyTaken, KeyIsOwn
<1>1. \A d : Preceded(d) => Preceded(d)'
  BY <1>0 DEF Preceded
<1>2. ASSUME NEW r \in Run, Observe(r)
      PROVE  Observed(request[r])'
  <2> DEFINE o == ObservationOf(request[r])
  <2>1. rows' = RowsAfter(rows, o, StoreAnswer(o)) /\ StoreAnswer(o) \in {"true", "false"}
        /\ request' = request
    BY <1>2 DEF Observe
  <2>2. KeyTaken(rows', o)
    BY <2>1 DEF StoreAnswer, CockroachAnswer, RowsAfter, KeyTaken
  <2>3. ASSUME KeyIsOwn(request[r])
        PROVE  o \in rows'
    <3>1. TypeOK'
      BY TypingStep
    <3> QED BY <2>2, <2>3, <3>1, ObservationsByKey
  <2> QED
    BY <2>1, <2>2, <2>3 DEF Observed, KeyIsOwn
<1>3. ASSUME NEW r \in Run, pc[r] = "decide"
      PROVE  Preceded(DecisionOf(request[r], choice[r]))
  <2>1. Observed(request[r]) /\ request[r] \in Request /\ choice[r] \in Choice
    BY <1>3 DEF Paired
  <2>2. DecisionOf(request[r], choice[r]).tenant = request[r].tenant
        /\ DecisionOf(request[r], choice[r]).key = DecisionKey(request[r])
        /\ DecisionOf(request[r], choice[r]).incident = request[r].incident
        /\ DecisionOf(request[r], choice[r]).sequence = request[r].sequence + 1
    BY DEF DecisionOf
  <2> QED BY <2>1, <2>2 DEF Preceded, ReplayKey
<1>4. \A d \in (rows' \union inflight') \ posts' : d.kind = "decision" => Preceded(d)'
  <2>0. posts \subseteq posts'
    BY PostsGrow
  <2>1. CASE UNCHANGED vars
    BY <1>1, <2>1 DEF vars, Paired
  <2>2. ASSUME NEW r \in Run, Observe(r)
        PROVE  rows' \subseteq rows \union {ObservationOf(request[r])} /\ UNCHANGED inflight
    BY <2>2 DEF Observe, RowsAfter
  <2>3. ASSUME NEW r \in Run, Decide(r)
        PROVE  /\ rows' \subseteq rows \union {DecisionOf(request[r], choice[r])}
               /\ UNCHANGED inflight /\ pc[r] = "decide"
    BY <2>3 DEF Decide, RowsAfter, Move
  <2>4. ASSUME NEW r \in Run, LoseCommit(r)
        PROVE  /\ UNCHANGED rows
               /\ \/ inflight' = inflight \union {ObservationOf(request[r])}
                  \/ /\ pc[r] = "decide"
                     /\ inflight' = inflight \union {DecisionOf(request[r], choice[r])}
    BY <2>4 DEF LoseCommit, Pending
  <2>5. \A r \in Run : ObservationOf(request[r]).kind = "observation"
    BY EventKinds
  <2>6. ASSUME NEW e \in Postable, RecordEvent(e) \/ LoseEvent(e)
        PROVE  /\ rows' \union inflight' \subseteq (rows \union inflight) \union {e}
               /\ e \in posts'
    BY <2>6 DEF RecordEvent, LoseEvent
  <2>7. ASSUME NEW r \in Run,
               (\E q \in Request : Start(r, q)) \/ Recall(r) \/ RejectDecision(r) \/ PositionClash(r) \/ Interrupt(r)
        PROVE  UNCHANGED <<rows, inflight>>
    BY <2>7 DEF Start, Recall, RejectDecision, PositionClash, Interrupt
  <2>8. ASSUME NEW e \in inflight, LateCommit(e) \/ LateAbort(e)
        PROVE  rows' \union inflight' \subseteq rows \union inflight
    BY <2>8 DEF LateCommit, LateAbort
  <2> QED
    BY <1>1, <1>3, <2>0, <2>1, <2>2, <2>3, <2>4, <2>5, <2>6, <2>7, <2>8 DEF Next, RunStep, Paired
<1>5. ASSUME NEW r \in Run, pc'[r] = "decide"
      PROVE  Observed(request[r])'
  <2>1. CASE pc[r] = "decide"
    <3>1. request'[r] = request[r]
      BY <2>1, RunKeepsRequest
    <3>2. Observed(request[r])
      BY <2>1 DEF Paired
    <3> QED BY <3>1, <3>2, RowsGrow DEF Observed, KeyTaken, KeyIsOwn
  <2>2. CASE Observe(r)
    BY <1>2, <2>2
  <2>3. CASE pc[r] # "decide" /\ ~Observe(r)
    <3>1. ~ Unmoved(r) /\ ~ \E q \in Request : Start(r, q)
      BY <1>5, <2>3 DEF Unmoved, Start, Move
    <3>2. ~ (Recall(r) \/ Decide(r) \/ RejectDecision(r))
      BY <1>5 DEF Recall, Decide, RejectDecision, Move
    <3>3. ~ (PositionClash(r) \/ Interrupt(r) \/ LoseCommit(r))
      BY <1>5 DEF PositionClash, Interrupt, LoseCommit
    <3> QED
      BY <2>3, <3>1, <3>2, <3>3, OneRunMoves DEF RunStep
  <2> QED
    BY <2>1, <2>2, <2>3
<1> QED
  BY <1>4, <1>5 DEF Paired

(* On CockroachDB a run never leaves a decision without the observation it *)
(* was taken on, or whatever else a client has put under its key: a run    *)
(* decides only after the key of its observation is taken, by itself, by   *)
(* an earlier run or by a client (agent.py:61-89).                         *)
THEOREM DecisionsPaired ==
  ASSUME Backend = "cockroach"
  PROVE  Spec => []DecisionsFollowObservations
<1>1. Init => Paired
  BY DEF Init, Paired
<1>2. TypeOK /\ Paired /\ [Next]_vars => Paired'
  BY PairedStep
<1>3. Paired => DecisionsFollowObservations
  BY DEF Paired, Preceded, Observed, DecisionsFollowObservations
<1> QED
  BY <1>1, <1>2, <1>3, Typing, PTL DEF Spec

-----------------------------------------------------------------------------
(***************************************************************************)
(* Half pairs.                                                             *)
(***************************************************************************)

Underway == {"decide", "interrupted"}

(* Why an observation has no decision yet, or never will have.             *)
Settles(r) ==
  \/ DecisionOnRecord(request[r]) # {}
  \/ PositionTaken(rows, DecisionOf(request[r], choice[r]))
  \/ pc[r] \in Underway
  \/ DecisionRefused(r)

(* Every observation, on record or on its way there, that no client has    *)
(* posted is that of a run that has offered it and whose decision is       *)
(* accounted for.                                                          *)
HalvesExplained ==
  \A o \in (rows \union inflight) \ posts : o.kind = "observation" =>
    \E r \in Run : /\ pc[r] \notin {"idle", "recall", "observe"}
                   /\ ObservationOf(request[r]) = o
                   /\ Settles(r)

(* The decision that was appended is on record, or something else is where *)
(* it should be (agent.py:78-89).                                          *)
LEMMA DecideSettles ==
  ASSUME TypeOK, NEW r \in Run, Decide(r)
  PROVE  \/ \E d \in rows' : d.tenant = request[r].tenant /\ d.key = DecisionKey(request[r])
         \/ PositionTaken(rows', DecisionOf(request[r], choice[r]))
<1> DEFINE d == DecisionOf(request[r], choice[r])
<1>1. rows' = RowsAfter(rows, d, StoreAnswer(d)) /\ StoreAnswer(d) \in {"true", "false"}
  BY DEF Decide
<1>2. KeyTaken(rows', d) \/ PositionTaken(rows', d)
  BY <1>1, AnswerTrue DEF RowsAfter, KeyTaken, PositionTaken
<1>3. ASSUME KeyTaken(rows', d)
      PROVE  \E e \in rows' : e.tenant = request[r].tenant /\ e.key = DecisionKey(request[r])
  <2>1. ReplayKey(d) = <<request[r].tenant, DecisionKey(request[r])>>
    BY EventKinds DEF ReplayKey, DecisionKey, DecisionOf
  <2> HIDE DEF d
  <2>2. PICK e \in rows' : ReplayKey(e) = <<request[r].tenant, DecisionKey(request[r])>>
    BY <1>3, <2>1 DEF KeyTaken
  <2> QED BY <2>2 DEF ReplayKey
<1> QED BY <1>2, <1>3

(* A run whose decision is accounted for stays so.                         *)
LEMMA SettledStays ==
  ASSUME TypeOK, [Next]_vars, NEW r \in Run, pc[r] \notin {"idle", "recall", "observe"}, Settles(r)
  PROVE  /\ pc'[r] \notin {"idle", "recall", "observe"}
         /\ request'[r] = request[r]
         /\ Settles(r)'
<1> USE DEF Underway
<1>1. request'[r] = request[r] /\ choice'[r] = choice[r]
  BY RunKeepsRequest
<1>2. pc'[r] \notin {"idle", "recall", "observe"}
  <2>1. ~ (Recall(r) \/ \E q \in Request : Start(r, q))
    BY DEF Recall, Start, Move
  <2>2. CASE Unmoved(r)
    BY <2>2 DEF Unmoved
  <2>3. CASE Observe(r) \/ Decide(r) \/ RejectDecision(r)
    BY <2>3 DEF Observe, Decide, RejectDecision, Move, TypeOK
  <2>4. CASE PositionClash(r) \/ Interrupt(r) \/ LoseCommit(r)
    BY <2>4 DEF PositionClash, Interrupt, LoseCommit, TypeOK
  <2> QED BY <2>1, <2>2, <2>3, <2>4, OneRunMoves DEF RunStep
<1>3. CASE DecisionOnRecord(request[r]) # {}
  BY <1>1, <1>2, <1>3, RowsGrow DEF Settles, DecisionOnRecord
<1>4. CASE PositionTaken(rows, DecisionOf(request[r], choice[r]))
  BY <1>1, <1>2, <1>4, RowsGrow DEF Settles, PositionTaken
<1>5. CASE DecisionRefused(r)
  BY <1>1, <1>2, <1>5 DEF Settles, DecisionRefused, CitationRefused
<1>6. CASE pc[r] \in Underway
  <2>1. CASE Unmoved(r)
    BY <1>6, <2>1 DEF Settles, Unmoved
  <2>2. CASE Decide(r)
    BY <1>1, <1>2, <2>2, DecideSettles DEF Settles, DecisionOnRecord
  <2>3. CASE RejectDecision(r)
    BY <1>5, <2>3 DEF RejectDecision
  <2>4. CASE PositionClash(r)
    <3>1. StoreAnswer(DecisionOf(request[r], choice[r])) = "23505"
      BY <1>6, <2>4 DEF PositionClash, Pending
    <3>2. PositionTaken(rows, DecisionOf(request[r], choice[r]))
      BY <3>1 DEF StoreAnswer, SqliteAnswer, CockroachAnswer
    <3> QED BY <1>4, <3>2
  <2>5. CASE Interrupt(r) \/ LoseCommit(r)
    BY <2>5 DEF Interrupt, LoseCommit, Settles, TypeOK
  <2>6. ~ (Recall(r) \/ Observe(r) \/ \E q \in Request : Start(r, q))
    BY <1>6 DEF Recall, Observe, Start, Move
  <2> QED BY <2>1, <2>2, <2>3, <2>4, <2>5, <2>6, OneRunMoves DEF RunStep
<1> QED BY <1>1, <1>2, <1>3, <1>4, <1>5, <1>6 DEF Settles

(* A new observation is that of a run that is about to decide, or has been *)
(* cut off (agent.py:61-71).                                               *)
LEMMA NewObservation ==
  ASSUME TypeOK, [Next]_vars, NEW o \in (rows' \union inflight') \ (rows \union inflight),
         o \notin posts', o.kind = "observation"
  PROVE  \E r \in Run : /\ pc'[r] \in Underway
                        /\ request'[r] = request[r] /\ ObservationOf(request[r]) = o
<1> USE DEF TypeOK
<1>1. ASSUME NEW r \in Run, Observe(r)
      PROVE  o = ObservationOf(request[r]) /\ pc'[r] = "decide" /\ request' = request
  BY <1>1 DEF Observe, Move, RowsAfter
<1>2. ASSUME NEW r \in Run, Decide(r)
      PROVE  FALSE
  BY <1>2, EventKinds DEF Decide, RowsAfter
<1>3. ASSUME NEW r \in Run, LoseCommit(r)
      PROVE  o = ObservationOf(request[r]) /\ pc'[r] = "interrupted" /\ request' = request
  BY <1>3, EventKinds DEF LoseCommit, Pending
<1>4. ASSUME NEW e \in Postable, RecordEvent(e) \/ LoseEvent(e)
      PROVE  FALSE
  BY <1>4 DEF RecordEvent, LoseEvent
<1>5. ASSUME NEW e \in inflight, LateCommit(e) \/ LateAbort(e)
      PROVE  FALSE
  BY <1>5 DEF LateCommit, LateAbort
<1>6. ASSUME NEW r \in Run, \/ \E q \in Request : Start(r, q)
                            \/ Recall(r) \/ RejectDecision(r) \/ PositionClash(r) \/ Interrupt(r)
      PROVE  FALSE
  BY <1>6 DEF Start, Recall, RejectDecision, PositionClash, Interrupt
<1>7. CASE UNCHANGED vars
  BY <1>7 DEF vars
<1> QED BY <1>1, <1>2, <1>3, <1>4, <1>5, <1>6, <1>7 DEF Next, RunStep, Underway

(* However runs overlap, are cut off or sent again, on either backend: an  *)
(* observation without a decision is that of a run that was about to       *)
(* decide or was refused, or another event is where the decision should    *)
(* be, and but for that last case nobody was answered (agent.py:71-89).    *)
THEOREM HalfPairs == Spec => []HalfPairsExplained
<1>1. Init => HalvesExplained
  BY DEF Init, HalvesExplained
<1>2. ASSUME TypeOK, HalvesExplained, [Next]_vars
      PROVE  HalvesExplained'
  <2> SUFFICES ASSUME NEW o \in (rows' \union inflight') \ posts', o.kind = "observation"
               PROVE  \E r \in Run : /\ pc'[r] \notin {"idle", "recall", "observe"}
                                     /\ ObservationOf(request'[r]) = o
                                     /\ Settles(r)'
    BY DEF HalvesExplained
  <2>1. CASE o \in rows \union inflight
    <3>1. PICK r \in Run : /\ pc[r] \notin {"idle", "recall", "observe"}
                          /\ ObservationOf(request[r]) = o
                          /\ Settles(r)
      BY <1>2, <2>1, PostsGrow DEF HalvesExplained
    <3> QED BY <1>2, <3>1, SettledStays
  <2>2. CASE o \notin rows \union inflight
    <3>1. PICK r \in Run : /\ pc'[r] \in Underway
                          /\ request'[r] = request[r] /\ ObservationOf(request[r]) = o
      BY <1>2, <2>2, NewObservation
    <3> QED BY <3>1 DEF Settles, Underway
  <2> QED BY <2>1, <2>2
<1>3. ASSUME HalvesExplained, RepliesAccounted
      PROVE  HalfPairsExplained
  <2> SUFFICES ASSUME NEW r \in Run, Settles(r),
                      ~(DecisionOnRecord(request[r]) # {}),
                      ~PositionTaken(rows, DecisionOf(request[r], choice[r]))
               PROVE  /\ pc[r] \in {"decide", "interrupted"} \/ DecisionRefused(r)
                      /\ \A s \in Run : request[s] = request[r] => pc[s] # "replied"
    BY <1>3 DEF HalvesExplained, HalfPairsExplained
  <2>1. ASSUME NEW s \in Run, request[s] = request[r], pc[s] = "replied"
        PROVE  FALSE
    <3>1. Position(DecisionOf(request[s], choice[s])) = Position(DecisionOf(request[r], choice[r]))
      BY <2>1 DEF Position, DecisionOf
    <3> QED BY <1>3, <2>1, <3>1 DEF RepliesAccounted, PositionTaken
  <2> QED BY <2>1 DEF Settles, Underway
<1> QED BY <1>1, <1>2, <1>3, Typing, RepliesExplained, PTL DEF Spec

-----------------------------------------------------------------------------
(***************************************************************************)
(* SQLite.                                                                 *)
(***************************************************************************)

(* Over SQLite the agent behaves as SqliteSpec says: append turns every    *)
(* violation into False and no COMMIT outlives its process                 *)
(* (store.py:59-61).                                                       *)
THEOREM OverSqlite ==
  ASSUME Backend = "sqlite"
  PROVE  Spec => SqliteSpec
<1> DEFINE Settled == inflight = {}
<1>1. Init => Settled
  BY DEF Init
<1>2. Settled /\ [Next]_vars => Settled' /\ [SqliteNext]_vars
  <2> SUFFICES ASSUME inflight = {}, [Next]_vars
               PROVE  inflight' = {} /\ [SqliteNext]_vars
    OBVIOUS
  <2>1. ASSUME NEW r \in Run, PositionClash(r) \/ LoseCommit(r)
        PROVE  FALSE
    BY <2>1 DEF PositionClash, LoseCommit, StoreAnswer, SqliteAnswer
  <2>2. ASSUME NEW r \in Run, \/ \E q \in Request : Start(r, q)
                              \/ Recall(r) \/ Observe(r) \/ Decide(r)
                              \/ RejectDecision(r) \/ Interrupt(r)
        PROVE  inflight' = {} /\ SqliteNext
    BY <2>2 DEF SqliteNext, Start, Recall, Observe, Decide, RejectDecision, Interrupt
  <2>3. ASSUME NEW e \in Postable, RecordEvent(e)
        PROVE  inflight' = {} /\ SqliteNext
    BY <2>3 DEF SqliteNext, RecordEvent
  <2>4. ASSUME NEW e \in inflight \union Postable, LateCommit(e) \/ LateAbort(e) \/ LoseEvent(e)
        PROVE  FALSE
    BY <2>4 DEF LateCommit, LateAbort, LoseEvent
  <2>5. CASE UNCHANGED vars
    BY <2>5 DEF vars
  <2> QED BY <2>1, <2>2, <2>3, <2>4, <2>5 DEF Next, RunStep
<1> HIDE DEF Settled
<1> QED BY <1>1, <1>2, PTL DEF Spec, SqliteSpec
=============================================================================
