------------------------ MODULE LambdaHandler_proofs ------------------------
(***************************************************************************)
(* Proofs about LambdaHandler, for any invocations, tenants and            *)
(* identities, on either backend.                                          *)
(***************************************************************************)
EXTENDS LambdaHandler, ContinuityAgent_proofs

(* What the handler's variables are.                                       *)
HandlerTyping ==
  /\ envelope \in [Invocation -> [claim : Tenant \union Unverified, named : BOOLEAN]]
  /\ DOMAIN posted = Post /\ \A p \in Post : "tenant" \in DOMAIN posted[p]
  /\ DOMAIN status = Invocation
  /\ DOMAIN pc = Run
  /\ DOMAIN request = Run /\ \A r \in Run : "tenant" \in DOMAIN request[r]
  /\ DOMAIN choice = Run
  /\ recorded \in [Run -> [observation : BOOLEAN, decision : BOOLEAN]]

(* A run that has begun is one of the verified tenant and was not refused. *)
Accepted ==
  \A r \in Run :
    /\ status[r] \in {"none", "400", "401", "403"}
    /\ pc[r] # "idle" => /\ status[r] = "none"
                         /\ Authorized(r) /\ request[r].tenant = envelope[r].claim
    /\ pc[r] \in {"idle", "recall", "observe"} => ~recorded[r].observation

Chosen(r) == pc[r] \notin {"idle", "recall"}

(* Where a row, on record or under way, can come from.                     *)
WrittenBy(i, e) ==
  /\ Authorized(i) /\ envelope[i].claim = e.tenant
  /\ \/ i \in Post /\ e = EventOf(i) /\ status[i] \in {"inserted", "replay", "raised"}
     \/ i \in Run /\ Chosen(i) /\ e \in {ObservationOf(request[i]), DecisionOf(request[i], choice[i])}

HaveWriter == \A e \in rows \union inflight : \E i \in Invocation : WrittenBy(i, e)

(* Who was told that his event was inserted has it on record, and two have *)
(* not one key.                                                            *)
TellsTrue ==
  /\ \A i \in Invocation : ToldInserted(i) => ToldOf(i) \in rows
  /\ \A i, j \in Invocation :
       i # j /\ ToldInserted(i) /\ ToldInserted(j) => ReplayKey(ToldOf(i)) # ReplayKey(ToldOf(j))

PostsSettled ==
  \A p \in Post : status[p] \in {"inserted", "replay"} =>
    \/ KeyTaken(rows, EventOf(p))
    \/ Backend = "sqlite" /\ status[p] = "replay" /\ PositionTaken(rows, EventOf(p))

HandlerInv == HandlerTyping /\ Accepted /\ HaveWriter /\ TellsTrue /\ PostsSettled

-----------------------------------------------------------------------------
(* Who is authorized is so for the tenant of his claims; who is not is     *)
(* answered with a refusal (lambda_handler.py:117-135).                    *)
LEMMA ClaimDecides ==
  ASSUME HandlerTyping, NEW i \in Invocation
  PROVE  /\ Authorized(i) => AuthorizedTenant(i) = envelope[i].claim /\ envelope[i].claim \in Tenant
         /\ ~Authorized(i) => AuthorizedTenant(i) \in {"401", "403"}
<1>1. envelope[i].claim \in Tenant \union Unverified
  BY DEF HandlerTyping
<1>2. "401" \notin Tenant /\ "403" \notin Tenant
  BY TenantAssumption
<1> QED BY <1>1, <1>2 DEF Authorized, AuthorizedTenant, Unverified

(* The event that is posted carries the verified tenant                    *)
(* (lambda_handler.py:79).                                                 *)
LEMMA PostedTenant ==
  ASSUME HandlerTyping, NEW p \in Post, Authorized(p)
  PROVE  EventOf(p).tenant = envelope[p].claim
<1>1. AuthorizedTenant(p) = envelope[p].claim
  BY ClaimDecides DEF Invocation
<1>2. "tenant" \in DOMAIN posted[p]
  BY DEF HandlerTyping
<1> QED BY <1>1, <1>2 DEF EventOf

(* Nothing is on record and nobody was answered.                           *)
LEMMA HandlerInvInit == HandlerInit => HandlerInv
<1> SUFFICES ASSUME HandlerInit PROVE HandlerInv
  OBVIOUS
<1> USE DEF HandlerInit, Init
<1>1. HandlerTyping
  <2>1. \A p \in Post : "tenant" \in DOMAIN posted[p]
    BY FieldAssumption
  <2>2. \A r \in Run : "tenant" \in DOMAIN request[r]
    BY FieldAssumption
  <2>3. envelope \in [Invocation -> [claim : Tenant \union Unverified, named : BOOLEAN]]
    BY EnvelopeAssumption
  <2> QED BY <2>1, <2>2, <2>3 DEF HandlerTyping
<1>2. Accepted
  BY DEF Accepted, Invocation
<1>3. HaveWriter
  BY DEF HaveWriter
<1>4. TellsTrue
  BY InvocationAssumption DEF TellsTrue, ToldInserted, Invocation
<1>5. PostsSettled
  BY DEF PostsSettled, Invocation
<1> QED BY <1>1, <1>2, <1>3, <1>4, <1>5 DEF HandlerInv

-----------------------------------------------------------------------------
(* What no step does: rows and answers stay, and so does what an           *)
(* invocation that has been accepted or told carries.                      *)
Onward ==
  /\ UNCHANGED <<envelope, posted>>
  /\ rows \subseteq rows'
  /\ \A i \in Invocation : Authorized(i) => Authorized(i)'
  /\ \A p \in Post : status[p] # "none" => status'[p] = status[p]
  /\ \A r \in Run : /\ pc[r] # "idle" => request'[r] = request[r]
                    /\ Chosen(r) => choice'[r] = choice[r] /\ Chosen(r)'

(* A step that goes onward keeps the invariant where the rows it adds have *)
(* their writer, and where the one it tells had his key free.              *)
LEMMA OnwardKeeps ==
  ASSUME HandlerInv, Onward, HandlerTyping', Accepted',
         \A e \in (rows' \union inflight') \ (rows \union inflight) :
           \E i \in Invocation : WrittenBy(i, e)',
         \A i \in Invocation : ToldInserted(i)' =>
           \/ ToldInserted(i)
           \/ ToldOf(i)' \in rows' /\ Free(rows, ToldOf(i)'),
         \A i, j \in Invocation :
           ToldInserted(i)' /\ ~ToldInserted(i) /\ ToldInserted(j)' /\ ~ToldInserted(j) => i = j,
         \A p \in Post : status[p] = "none" /\ status'[p] \in {"inserted", "replay"} =>
           \/ KeyTaken(rows', EventOf(p)')
           \/ Backend = "sqlite" /\ status'[p] = "replay" /\ PositionTaken(rows', EventOf(p)')
  PROVE  HandlerInv'
<1> USE DEF HandlerInv
<1>0. \A p \in Post : EventOf(p)' = EventOf(p)
  BY DEF Onward, EventOf, AuthorizedTenant, BodyTenant
<1>1. HaveWriter'
  <2> SUFFICES ASSUME NEW e \in rows \union inflight
               PROVE  \E i \in Invocation : WrittenBy(i, e)'
    BY DEF HaveWriter
  <2>1. PICK i \in Invocation : WrittenBy(i, e)
    BY DEF HaveWriter
  <2>2. WrittenBy(i, e)'
    BY <1>0, <2>1 DEF WrittenBy, Onward, Chosen
  <2> QED BY <2>2
<1>2. \A i \in Invocation : ToldInserted(i) => ToldOf(i)' = ToldOf(i) /\ ToldOf(i) \in rows
  BY <1>0 DEF ToldInserted, ToldOf, Onward, TellsTrue, Invocation
<1>3. \A i \in Invocation : ToldInserted(i)' => ToldOf(i)' \in rows'
  BY <1>2 DEF Onward
<1>4. ASSUME NEW i \in Invocation, NEW j \in Invocation, i # j, ToldInserted(i)', ToldInserted(j)'
      PROVE  ReplayKey(ToldOf(i)') # ReplayKey(ToldOf(j)')
  <2>1. CASE ToldInserted(i) /\ ToldInserted(j)
    BY <1>2, <1>4, <2>1 DEF TellsTrue
  <2>2. CASE ToldInserted(i) /\ ~ToldInserted(j)
    BY <1>2, <1>4, <2>2 DEF Free, KeyTaken
  <2>3. CASE ~ToldInserted(i) /\ ToldInserted(j)
    BY <1>2, <1>4, <2>3 DEF Free, KeyTaken
  <2> QED BY <1>4, <2>1, <2>2, <2>3
<1>5. TellsTrue'
  BY <1>3, <1>4 DEF TellsTrue, ReplayKey
<1>6. PostsSettled'
  BY <1>0 DEF PostsSettled, Onward, KeyTaken, PositionTaken
<1> QED BY <1>1, <1>5, <1>6

-----------------------------------------------------------------------------
(* A refusal or a bad request answers and does nothing else                *)
(* (lambda_handler.py:77-99, 117-135).                                     *)
LEMMA RefusalStep ==
  ASSUME HandlerInv, NEW i \in Invocation, Refuse(i) \/ BadRequest(i)
  PROVE  HandlerInv'
<1> USE DEF HandlerInv
<1>a. /\ UNCHANGED <<rows, inflight, pc, request, choice, recorded, envelope, posted>>
      /\ status[i] = "none" /\ (i \in Run => pc[i] = "idle")
      /\ \A j \in Invocation \ {i} : status'[j] = status[j]
      /\ status'[i] \in {"400", "401", "403"}
      /\ DOMAIN status' = Invocation
  <2>1. ~Authorized(i) => AuthorizedTenant(i) \in {"401", "403"}
    BY ClaimDecides
  <2> QED BY <2>1 DEF Refuse, BadRequest, Answered, Waiting, UnchangedRuns, HandlerTyping
<1>1. HandlerTyping'
  BY <1>a DEF HandlerTyping
<1>b. \A j \in Invocation : Authorized(j)' <=> Authorized(j)
  BY <1>a DEF Authorized, AuthorizedTenant, BodyTenant
<1>2. Accepted'
  BY <1>a, <1>b DEF Accepted, Invocation
<1>3. Onward
  BY <1>a, <1>b DEF Onward, Chosen, Invocation
<1>4. \A k \in Invocation : ToldInserted(k)' => ToldInserted(k)
  BY <1>a DEF ToldInserted, Invocation
<1>5. \A p \in Post : status[p] = "none" => status'[p] \notin {"inserted", "replay"}
  BY <1>a DEF Invocation
<1>6. \A e \in (rows' \union inflight') \ (rows \union inflight) :
        \E k \in Invocation : WrittenBy(k, e)'
  BY <1>a
<1>7. HandlerTyping' /\ Accepted'
  BY <1>1, <1>2
<1> HIDE DEF HandlerInv
<1> QED BY <1>3, <1>4, <1>5, <1>6, <1>7, OnwardKeeps

(* A post appends the event of its verified tenant, and is told what the   *)
(* append answered, or nothing (lambda_handler.py:77-84).                  *)
LEMMA PostStep ==
  ASSUME HandlerInv, NEW p \in Post, RecordPost(p) \/ PostRaises(p) \/ PostLosesCommit(p)
  PROVE  HandlerInv'
<1> USE DEF HandlerInv
<1> DEFINE answer == StoreAnswer(EventOf(p))
<1>a. /\ UNCHANGED <<pc, request, choice, recorded, envelope, posted>>
      /\ Authorized(p)
      /\ status[p] = "none"
      /\ \A j \in Invocation \ {p} : status'[j] = status[j]
      /\ \/ status'[p] = "raised"
         \/ status'[p] = PostStatus(answer) /\ rows' = RowsAfter(rows, EventOf(p), answer)
      /\ status'[p] \in {"inserted", "replay", "raised"}
      /\ rows' = rows \/ rows' = RowsAfter(rows, EventOf(p), answer)
      /\ inflight' \subseteq inflight \union {EventOf(p)}
      /\ DOMAIN status' = Invocation
  BY DEF RecordPost, PostRaises, PostLosesCommit, LoseEvent, PostStatus, Answered, Waiting, UnchangedRuns,
         HandlerTyping, Invocation
<1>n. p \notin Run /\ p \in Invocation
  BY InvocationAssumption DEF Invocation
<1>c. EventOf(p)' = EventOf(p) /\ \A j \in Invocation : Authorized(j)' <=> Authorized(j)
  BY <1>a DEF Authorized, AuthorizedTenant, BodyTenant, EventOf
<1>d. rows \subseteq rows' /\ rows' \subseteq rows \union {EventOf(p)}
  BY <1>a DEF RowsAfter
<1>e. EventOf(p).tenant = envelope[p].claim
  BY <1>a, PostedTenant
<1>f. /\ answer = "true" <=> Free(rows, EventOf(p))
      /\ answer = "false" => KeyTaken(rows, EventOf(p)) \/ (Backend = "sqlite" /\ PositionTaken(rows, EventOf(p)))
  BY AnswerTrue
<1>g. /\ status'[p] = "inserted" => answer = "true" /\ EventOf(p) \in rows'
      /\ status'[p] = "replay" => answer = "false"
  BY <1>a DEF PostStatus, RowsAfter
<1> HIDE DEF answer
<1>1. HandlerTyping'
  BY <1>a DEF HandlerTyping
<1>2. Accepted'
  BY <1>a, <1>c, <1>n DEF Accepted, Invocation
<1>3. Onward
  BY <1>a, <1>c, <1>d DEF Onward, Chosen, Invocation
<1>4. ASSUME NEW d, d = EventOf(p)
      PROVE  WrittenBy(p, d)'
  <2>1. Authorized(p)' /\ envelope'[p].claim = d.tenant /\ d = EventOf(p)'
    BY <1>a, <1>c, <1>e, <1>n, <1>4
  <2> QED BY <1>a, <2>1 DEF WrittenBy
<1>5. \A j \in Invocation : ToldInserted(j)' /\ ~ToldInserted(j) => j = p /\ status'[p] = "inserted"
  BY <1>a, <1>n DEF ToldInserted, Invocation
<1>6. status'[p] = "inserted" => ToldOf(p)' \in rows' /\ Free(rows, ToldOf(p)')
  BY <1>c, <1>f, <1>g DEF ToldOf
<1>7. \A q \in Post : status[q] = "none" /\ status'[q] \in {"inserted", "replay"} =>
        q = p /\ (\/ KeyTaken(rows', EventOf(p)')
                  \/ Backend = "sqlite" /\ status'[q] = "replay" /\ PositionTaken(rows', EventOf(p)'))
  <2>1. \A q \in Post : status[q] = "none" /\ status'[q] \in {"inserted", "replay"} => q = p
    BY <1>a DEF Invocation
  <2>2. status'[p] = "inserted" => KeyTaken(rows', EventOf(p)')
    BY <1>c, <1>g DEF KeyTaken
  <2>3. status'[p] = "replay" => \/ KeyTaken(rows', EventOf(p)')
                                 \/ Backend = "sqlite" /\ PositionTaken(rows', EventOf(p)')
    BY <1>c, <1>d, <1>f, <1>g DEF KeyTaken, PositionTaken
  <2> QED BY <2>1, <2>2, <2>3
<1>8. \A d \in (rows' \union inflight') \ (rows \union inflight) :
        \E i \in Invocation : WrittenBy(i, d)'
  <2>1. \A d \in (rows' \union inflight') \ (rows \union inflight) : d = EventOf(p)
    BY <1>a, <1>d
  <2> QED BY <1>4, <1>n, <2>1
<1>9. \A i \in Invocation : ToldInserted(i)' =>
        \/ ToldInserted(i)
        \/ ToldOf(i)' \in rows' /\ Free(rows, ToldOf(i)')
  BY <1>5, <1>6
<1> HIDE DEF HandlerInv
<1> QED BY <1>1, <1>2, <1>3, <1>5, <1>7, <1>8, <1>9, OnwardKeeps

(* A run begins for the verified tenant (lambda_handler.py:95-103).        *)
LEMMA AcceptStep ==
  ASSUME HandlerInv, NEW r \in Run, Accept(r)
  PROVE  HandlerInv'
<1> USE DEF HandlerInv
<1>n. r \notin Post /\ r \in Invocation
  BY InvocationAssumption DEF Invocation
<1>a. /\ UNCHANGED <<rows, inflight, choice, recorded, envelope, posted, status>>
      /\ status[r] = "none" /\ Authorized(r) /\ pc[r] = "idle" /\ pc'[r] = "recall"
      /\ \A s \in Run \ {r} : pc'[s] = pc[s] /\ request'[s] = request[s]
      /\ DOMAIN pc' = Run /\ DOMAIN request' = Run
      /\ request'[r] = [request[r] EXCEPT !.tenant = AuthorizedTenant(r)]
  BY DEF Accept, Start, Waiting, Move, HandlerTyping
<1>b. AuthorizedTenant(r) = envelope[r].claim /\ envelope[r].claim \in Tenant
  BY <1>a, <1>n, ClaimDecides
<1>c. request'[r].tenant = envelope[r].claim /\ "tenant" \in DOMAIN request'[r]
  BY <1>a, <1>b DEF HandlerTyping
<1>d. Authorized(r)'
  BY <1>a, <1>b, <1>c, <1>n DEF Authorized, AuthorizedTenant, BodyTenant
<1>e. \A j \in Invocation \ {r} : Authorized(j)' <=> Authorized(j)
  BY <1>a DEF Authorized, AuthorizedTenant, BodyTenant, Invocation
<1>1. HandlerTyping'
  BY <1>a, <1>c DEF HandlerTyping
<1>2. Accepted'
  BY <1>a, <1>c, <1>d, <1>e DEF Accepted, Invocation
<1>3. Onward
  BY <1>a, <1>d, <1>e DEF Onward, Chosen, Invocation
<1>4. \A i \in Invocation : ToldInserted(i)' => ToldInserted(i)
  BY <1>a DEF ToldInserted, Invocation, Accepted
<1>5. \A e \in (rows' \union inflight') \ (rows \union inflight) :
        \E i \in Invocation : WrittenBy(i, e)'
  BY <1>a
<1>6. \A p \in Post : status'[p] = status[p]
  BY <1>a
<1> HIDE DEF HandlerInv
<1> QED BY <1>1, <1>2, <1>3, <1>4, <1>5, <1>6, OnwardKeeps

(* A step of a run moves that run on, and adds or sends only rows of its   *)
(* request and its choice (agent.py:57-98).                                *)
LEMMA RunEffect ==
  ASSUME HandlerInv, NEW r \in Run, RunStep(r) \/ Interrupt(r) \/ LoseCommit(r)
  PROVE  /\ UNCHANGED request
         /\ pc[r] \in {"recall", "observe", "decide"} /\ Chosen(r)'
         /\ \A s \in Run \ {r} : pc'[s] = pc[s] /\ choice'[s] = choice[s] /\ recorded'[s] = recorded[s]
         /\ DOMAIN pc' = Run /\ DOMAIN choice' = Run
         /\ recorded' \in [Run -> [observation : BOOLEAN, decision : BOOLEAN]]
         /\ rows \subseteq rows'
         /\ Chosen(r) => choice'[r] = choice[r]
         /\ \A e \in (rows' \union inflight') \ (rows \union inflight) :
              e \in {ObservationOf(request'[r]), DecisionOf(request'[r], choice'[r])}
         /\ pc'[r] = "observe" => recorded'[r] = recorded[r] /\ pc[r] = "recall"
         /\ recorded'[r].observation => \/ recorded[r].observation
                                        \/ /\ ObservationOf(request[r]) \in rows'
                                           /\ Free(rows, ObservationOf(request[r]))
<1> USE DEF HandlerInv, HandlerTyping, Move, Chosen
<1>1. CASE Recall(r)
  <2>1. PICK chosen : choice' = [choice EXCEPT ![r] = chosen]
    BY <1>1 DEF Recall
  <2> QED BY <1>1, <2>1 DEF Recall
<1>2. CASE Observe(r)
  <2>1. StoreAnswer(ObservationOf(request[r])) = "true" <=> Free(rows, ObservationOf(request[r]))
    BY AnswerTrue
  <2> QED BY <1>2, <2>1 DEF Observe, RowsAfter
<1>3. CASE Decide(r)
  BY <1>3 DEF Decide, RowsAfter
<1>4. CASE RejectDecision(r) \/ PositionClash(r) \/ Interrupt(r)
  BY <1>4 DEF RejectDecision, PositionClash, Interrupt
<1>5. CASE LoseCommit(r)
  BY <1>5 DEF LoseCommit, Pending
<1> QED BY <1>1, <1>2, <1>3, <1>4, <1>5 DEF RunStep

(* So a step of a run keeps the invariant.                                 *)
LEMMA RunKeeps ==
  ASSUME HandlerInv, NEW r \in Run, RunStep(r) \/ Interrupt(r) \/ LoseCommit(r),
         UNCHANGED <<envelope, posted, status>>
  PROVE  HandlerInv'
<1> USE DEF HandlerInv
<1>n. r \notin Post /\ r \in Invocation
  BY InvocationAssumption DEF Invocation
<1>a. /\ UNCHANGED request
      /\ pc[r] \in {"recall", "observe", "decide"} /\ Chosen(r)'
      /\ \A s \in Run \ {r} : pc'[s] = pc[s] /\ choice'[s] = choice[s] /\ recorded'[s] = recorded[s]
      /\ DOMAIN pc' = Run /\ DOMAIN choice' = Run
      /\ recorded' \in [Run -> [observation : BOOLEAN, decision : BOOLEAN]]
      /\ rows \subseteq rows'
      /\ Chosen(r) => choice'[r] = choice[r]
      /\ \A e \in (rows' \union inflight') \ (rows \union inflight) :
           e \in {ObservationOf(request'[r]), DecisionOf(request'[r], choice'[r])}
      /\ pc'[r] = "observe" => recorded'[r] = recorded[r] /\ pc[r] = "recall"
      /\ recorded'[r].observation => \/ recorded[r].observation
                                     \/ /\ ObservationOf(request[r]) \in rows'
                                        /\ Free(rows, ObservationOf(request[r]))
  BY RunEffect
<1>b. \A j \in Invocation : Authorized(j)' <=> Authorized(j)
  BY <1>a DEF Authorized, AuthorizedTenant, BodyTenant
<1>c. Authorized(r) /\ request[r].tenant = envelope[r].claim
  BY <1>a DEF Accepted
<1>1. HandlerTyping'
  BY <1>a DEF HandlerTyping
<1>2. Accepted'
  BY <1>a, <1>b DEF Accepted, Chosen, Invocation
<1>3. Onward
  BY <1>a, <1>b DEF Onward, Chosen
<1>4. \A e \in (rows' \union inflight') \ (rows \union inflight) :
        \E i \in Invocation : WrittenBy(i, e)'
  <2> SUFFICES ASSUME NEW e \in (rows' \union inflight') \ (rows \union inflight)
               PROVE  WrittenBy(r, e)'
    BY <1>n
  <2>1. e \in {ObservationOf(request'[r]), DecisionOf(request'[r], choice'[r])}
    BY <1>a
  <2>2. e.tenant = request'[r].tenant
    BY <2>1 DEF ObservationOf, DecisionOf
  <2> QED BY <1>a, <1>b, <1>c, <1>n, <2>1, <2>2 DEF WrittenBy
<1>5. \A i \in Invocation : ToldInserted(i)' /\ ~ToldInserted(i) => i = r
  BY <1>a DEF ToldInserted, Invocation
<1>6. ToldInserted(r)' => \/ ToldInserted(r)
                          \/ ToldOf(r)' \in rows' /\ Free(rows, ToldOf(r)')
  BY <1>a, <1>n DEF ToldInserted, ToldOf
<1>7. \A i \in Invocation : ToldInserted(i)' =>
        \/ ToldInserted(i)
        \/ ToldOf(i)' \in rows' /\ Free(rows, ToldOf(i)')
  BY <1>5, <1>6
<1>8. \A p \in Post : status'[p] = status[p]
  OBVIOUS
<1> HIDE DEF HandlerInv
<1> QED BY <1>1, <1>2, <1>3, <1>4, <1>5, <1>7, <1>8, OnwardKeeps

(* And so does the server, when it applies a COMMIT whose client has gone, *)
(* and a step that changes nothing.                                        *)
LEMMA LateKeeps ==
  ASSUME HandlerInv, UNCHANGED <<pc, request, choice, recorded, envelope, posted, status>>,
         rows \subseteq rows', rows' \union inflight' \subseteq rows \union inflight
  PROVE  HandlerInv'
<1> USE DEF HandlerInv
<1>b. \A j \in Invocation : Authorized(j)' <=> Authorized(j)
  BY DEF Authorized, AuthorizedTenant, BodyTenant
<1>1. HandlerTyping'
  BY DEF HandlerTyping
<1>2. Accepted'
  BY <1>b DEF Accepted, Invocation
<1>3. Onward
  BY <1>b DEF Onward, Chosen
<1>4. \A i \in Invocation : ToldInserted(i)' => ToldInserted(i)
  BY DEF ToldInserted
<1>5. \A e \in (rows' \union inflight') \ (rows \union inflight) :
        \E i \in Invocation : WrittenBy(i, e)'
  OBVIOUS
<1>6. \A p \in Post : status'[p] = status[p]
  OBVIOUS
<1> HIDE DEF HandlerInv
<1> QED BY <1>1, <1>2, <1>3, <1>4, <1>5, <1>6, OnwardKeeps

(* Every step of the handler, the agent and the server keeps HandlerInv.   *)
LEMMA HandlerInvStep == HandlerInv /\ [HandlerNext]_handlerVars => HandlerInv'
<1> SUFFICES ASSUME HandlerInv, [HandlerNext]_handlerVars PROVE HandlerInv'
  OBVIOUS
<1>1. ASSUME NEW i \in Invocation, Refuse(i) \/ BadRequest(i) PROVE HandlerInv'
  BY <1>1, RefusalStep
<1>2. ASSUME NEW p \in Post, RecordPost(p) \/ PostRaises(p) \/ PostLosesCommit(p) PROVE HandlerInv'
  BY <1>2, PostStep
<1>3. ASSUME NEW r \in Run, Accept(r) PROVE HandlerInv'
  BY <1>3, AcceptStep
<1>4. CASE AgentStep
  <2>1. ASSUME NEW r \in Run, RunStep(r) \/ Interrupt(r) \/ LoseCommit(r)
        PROVE  HandlerInv'
    BY <1>4, <2>1, RunKeeps DEF AgentStep
  <2>2. ASSUME NEW e \in inflight, LateCommit(e) \/ LateAbort(e)
        PROVE  HandlerInv'
    <3>1. /\ UNCHANGED <<pc, request, choice, recorded, envelope, posted, status>>
          /\ rows \subseteq rows' /\ rows' \union inflight' \subseteq rows \union inflight
      BY <1>4, <2>2 DEF AgentStep, LateCommit, LateAbort
    <3> QED BY <3>1, LateKeeps
  <2> QED BY <1>4, <2>1, <2>2 DEF AgentStep
<1>5. CASE UNCHANGED handlerVars
  <2>1. /\ UNCHANGED <<pc, request, choice, recorded, envelope, posted, status>>
        /\ rows \subseteq rows' /\ rows' \union inflight' \subseteq rows \union inflight
    BY <1>5 DEF handlerVars
  <2> QED BY <2>1, LateKeeps
<1> QED BY <1>1, <1>2, <1>3, <1>4, <1>5 DEF HandlerNext

(* HandlerInv holds of every reachable state.                              *)
LEMMA HandlerInvAlways == HandlerSpec => []HandlerInv
BY HandlerInvInit, HandlerInvStep, PTL DEF HandlerSpec

-----------------------------------------------------------------------------
(* RowsHaveVerifiedWriter: what is on record, or may still come to be, was *)
(* written for a verified tenant, on either backend and whatever fails     *)
(* (lambda_handler.py:77-83, 98-99, 117-135).                              *)
THEOREM RowsVerified == HandlerSpec => []RowsHaveVerifiedWriter
<1>1. HandlerInv => RowsHaveVerifiedWriter
  <2> SUFFICES ASSUME HandlerInv, NEW e \in rows \union inflight
               PROVE  \E i \in Invocation :
                        /\ Authorized(i) /\ envelope[i].claim = e.tenant /\ e \in Writes(i)
                        /\ Status(i) \notin {"401", "403"}
                        /\ i \in Post => Status(i) # "400"
    BY DEF RowsHaveVerifiedWriter
  <2>1. PICK i \in Invocation : WrittenBy(i, e)
    BY DEF HandlerInv, HaveWriter
  <2>2. CASE i \in Post
    BY <2>1, <2>2, InvocationAssumption DEF WrittenBy, Writes, Status
  <2>3. CASE i \in Run
    <3>1. i \notin Post /\ Chosen(i) /\ e \in Writes(i)
      BY <2>1, <2>3, InvocationAssumption DEF WrittenBy, Writes
    <3>2. status[i] = "none"
      BY <2>3, <3>1 DEF HandlerInv, Accepted, Chosen
    <3>3. Status(i) \in {"200", "400", "raised", "none"}
      BY <3>1, <3>2 DEF Status
    <3> QED BY <2>1, <3>1, <3>3 DEF WrittenBy
  <2> QED BY <2>2, <2>3 DEF Invocation
<1> QED BY <1>1, HandlerInvAlways, PTL

(* CreatedOnce: one invocation at most is told that the event of a key was *)
(* inserted, for any number of them (lambda_handler.py:81-84 and 95-115).  *)
THEOREM ToldOnce == HandlerSpec => []CreatedOnce
<1>1. HandlerInv => CreatedOnce
  <2> SUFFICES ASSUME HandlerInv, NEW i \in Invocation, ToldInserted(i)
               PROVE  /\ ToldOf(i) \in rows
                      /\ \A j \in Invocation \ {i} :
                           ToldInserted(j) => ReplayKey(ToldOf(j)) # ReplayKey(ToldOf(i))
    BY DEF CreatedOnce
  <2> QED BY DEF HandlerInv, TellsTrue
<1> QED BY <1>1, HandlerInvAlways, PTL

(* AcknowledgedIsSettled: who is answered without an error need not send   *)
(* his request again (store.py:59, lambda_handler.py:84).                  *)
THEOREM AnswersSettle == HandlerSpec => []AcknowledgedIsSettled
<1>1. HandlerInv => AcknowledgedIsSettled
  <2> SUFFICES ASSUME HandlerInv PROVE AcknowledgedIsSettled
    OBVIOUS
  <2>1. ASSUME NEW r \in Run, Status(r) = "200", recorded[r].observation
        PROVE  ObservationOf(request[r]) \in rows
    <3>1. r \notin Post /\ r \in Invocation
      BY InvocationAssumption DEF Invocation
    <3>2. pc[r] = "replied"
      BY <2>1, <3>1 DEF Status, HandlerInv, Accepted
    <3>3. ToldInserted(r)
      BY <2>1, <3>1, <3>2 DEF ToldInserted
    <3> QED BY <3>1, <3>3 DEF HandlerInv, TellsTrue, ToldOf
  <2> QED BY <2>1 DEF AcknowledgedIsSettled, HandlerInv, PostsSettled
<1> QED BY <1>1, HandlerInvAlways, PTL

-----------------------------------------------------------------------------
(***************************************************************************)
(* The handler runs the agent.                                             *)
(***************************************************************************)

(* Whom a verified caller may write for, he may write anything for: the    *)
(* events and requests the handler passes on are ones the agent and the    *)
(* store may be given (lambda_handler.py:79 and 98-103).                   *)
LEMMA PassedOn ==
  ASSUME HandlerTyping
  PROVE  /\ \A p \in Post : Authorized(p) /\ posted[p] \in Postable => EventOf(p) \in Postable
         /\ \A r \in Run : Authorized(r) /\ request[r] \in Request =>
              [request[r] EXCEPT !.tenant = AuthorizedTenant(r)] \in Request
BY ClosedAssumption DEF Authorized, EventOf

Posted == \A p \in Post : posted[p] \in Postable

(* Every step of the handler is a step of the agent or none of it: a post  *)
(* is an event recorded, or lost under its COMMIT, and an accepted run     *)
(* starts with the request of its verified tenant                          *)
(* (lambda_handler.py:77-103).                                             *)
LEMMA HandlerStepIsAgents ==
  ASSUME HandlerTyping, Posted, TypeOK, [HandlerNext]_handlerVars
  PROVE  [Next]_vars /\ Posted'
<1>1. ASSUME NEW i \in Invocation, Refuse(i) \/ BadRequest(i)
      PROVE  UNCHANGED vars /\ UNCHANGED posted
  BY <1>1 DEF Refuse, BadRequest, UnchangedRuns, vars
<1>2. ASSUME NEW p \in Post, RecordPost(p) \/ PostRaises(p)
      PROVE  [Next]_vars /\ UNCHANGED posted
  <2>1. /\ Authorized(p) /\ UnchangedRuns /\ UNCHANGED posted
        /\ posts' = posts \union (rows' \ rows)
    BY <1>2 DEF RecordPost, PostRaises
  <2>2. rows' = rows \/ (Free(rows, EventOf(p)) /\ rows' = rows \union {EventOf(p)})
    BY <1>2, AnswerTrue DEF RecordPost, PostRaises, RowsAfter
  <2>3. EventOf(p) \in Postable
    BY <2>1, PassedOn DEF Posted
  <2>4. CASE rows' = rows
    BY <2>1, <2>4 DEF UnchangedRuns, vars
  <2>5. CASE Free(rows, EventOf(p)) /\ rows' = rows \union {EventOf(p)}
    <3>0. EventOf(p) \notin rows
      BY <2>5 DEF Free, KeyTaken
    <3>1. rows' \ rows = {EventOf(p)}
      BY <2>5, <3>0
    <3> RecordEvent(EventOf(p))
      BY <2>1, <2>5, <3>1 DEF RecordEvent, UnchangedRuns
    <3> QED BY <2>1, <2>3 DEF Next
  <2> QED BY <2>2, <2>4, <2>5
<1>3. ASSUME NEW p \in Post, PostLosesCommit(p)
      PROVE  [Next]_vars /\ UNCHANGED posted
  <2>1. EventOf(p) \in Postable
    BY <1>3, PassedOn DEF PostLosesCommit, Posted
  <2> QED BY <1>3, <2>1 DEF PostLosesCommit, Next
<1>4. ASSUME NEW r \in Run, Accept(r)
      PROVE  [Next]_vars /\ UNCHANGED posted
  <2>1. request[r] \in Request
    BY DEF TypeOK
  <2>2. [request[r] EXCEPT !.tenant = AuthorizedTenant(r)] \in Request
    BY <1>4, <2>1, PassedOn DEF Accept
  <2> QED BY <1>4, <2>2 DEF Accept, Next
<1>5. ASSUME AgentStep
      PROVE  Next /\ UNCHANGED posted
  BY <1>5 DEF AgentStep, Next
<1>6. ASSUME UNCHANGED handlerVars
      PROVE  UNCHANGED vars /\ UNCHANGED posted
  BY <1>6 DEF handlerVars, vars
<1> QED BY <1>1, <1>2, <1>3, <1>4, <1>5, <1>6 DEF HandlerNext, Posted

(* Whatever is posted, refused, retried or lost: behind the handler the    *)
(* agent behaves as ContinuityAgent says (lambda_handler.py:77-103).  What *)
(* is proved of the agent holds of the handler.                            *)
THEOREM HandlerRunsAgent == HandlerSpec => Spec
<1>1. HandlerInit => Init /\ Posted
  BY DEF HandlerInit, Posted
<1>2. Init => TypeOK
  BY DEF Init, TypeOK, Abstain, Choice, Action
<1>3. HandlerInv /\ Posted /\ TypeOK /\ [HandlerNext]_handlerVars => [Next]_vars /\ Posted'
  BY HandlerStepIsAgents DEF HandlerInv
<1>4. TypeOK /\ [Next]_vars => TypeOK'
  BY TypingStep
<1> QED BY <1>1, <1>2, <1>3, <1>4, HandlerInvAlways, PTL DEF HandlerSpec, Spec

(* However requests are posted, refused, sent again or cut off, and        *)
(* whichever backend: at most one run of a key is told that it recorded    *)
(* the decision, and what it answered is on record (agent.py:89-98).       *)
THEOREM HandlerRecordsOnce == HandlerSpec => []RecordedOnce
BY HandlerRunsAgent, RecordedAtMostOnce, PTL

(* And whatever clients post, no run answers with, or records, a citation  *)
(* of another tenant's memory or of what is no handoff (agent.py:28-32 and *)
(* 111, lambda_handler.py:117-135).                                        *)
THEOREM HandlerCitesHandoffs == HandlerSpec => []CitationsGrounded
BY HandlerRunsAgent, Citations, PTL

(* And over CockroachDB a run that is answered has a decision on record,   *)
(* and no run's decision is there without its observation, or what else    *)
(* clients have put under its key (agent.py:61-89).                        *)
THEOREM HandlerLeavesPairs ==
  ASSUME Backend = "cockroach"
  PROVE  HandlerSpec => []ReplyIsOnRecord /\ []DecisionsFollowObservations
BY HandlerRunsAgent, RepliesOnRecord, DecisionsPaired, PTL
=============================================================================
