--------------------------- MODULE LambdaHandler ----------------------------
(***************************************************************************)
(* The protected routes of the Lambda function (lambda_handler.py): many   *)
(* invocations of POST /events and POST /agent/run over one ledger.        *)
(*                                                                         *)
(* The tenant is the one of the caller's verified claims.  A body may      *)
(* name its tenant, but then it must be that one; it is never what is      *)
(* written.  What append and run return or raise becomes a status, or      *)
(* leaves the handler as an exception of the driver, which the gateway     *)
(* answers with a 5xx and the client with the same request again: that is  *)
(* another invocation with an equal body here.  What /events records may   *)
(* be of any kind, and under any key: also a decision, or a run's key.     *)
(*                                                                         *)
(* An append is one step, as in ContinuityAgent: SqliteStore and           *)
(* CockroachStore show that for stores which do not outlive their request. *)
(***************************************************************************)
EXTENDS ContinuityAgent

CONSTANTS
  Post,       \* invocations of /events
  Tenant,     \* tenant ids that match the pattern
  Envelopes   \* what invocations may carry: the verified tenant, if any, and
              \* whether the body names the tenant of its event or request

Unverified == {"absent", "malformed"}

Invocation == Run \union Post

ASSUME InvocationAssumption == Post \intersect Run = {}

(* A status is no tenant id (_TENANT_ID wants a letter first).             *)
ASSUME TenantAssumption == {"401", "403"} \intersect Tenant = {}

(* What has a tenant is a record with that field.                          *)
ASSUME FieldAssumption == \A e \in Request \union Postable : "tenant" \in DOMAIN e

(* What one tenant may send, every other may send too. *)
ASSUME ClosedAssumption ==
  \A t \in Tenant :
    /\ \A q \in Request : [q EXCEPT !.tenant = t] \in Request
    /\ \A e \in Postable : [e EXCEPT !.tenant = t] \in Postable

ASSUME EnvelopeAssumption ==
  Envelopes \subseteq [Invocation -> [claim : Tenant \union Unverified, named : BOOLEAN]]

VARIABLES
  envelope,   \* what an invocation carries beside its event or request
  posted,     \* the event in the body of /events
  status      \* how an invocation was answered, as far as the handler decides

handlerVars ==
  <<rows, inflight, pc, request, choice, recorded, posts, envelope, posted, status>>

HandlerInit ==
  /\ Init
  /\ envelope \in Envelopes
  /\ posted \in [Post -> Postable]
  /\ status = [i \in Invocation |-> "none"]

UnchangedRuns == UNCHANGED <<inflight, pc, request, choice, recorded>>

(***************************************************************************)
(* _authorized_tenant: a tenant, or the status of the refusal.             *)
(***************************************************************************)

BodyTenant(i) == IF i \in Post THEN posted[i].tenant ELSE request[i].tenant

(* Mutant of AuthorizedTenant: a tenant named in the body is believed. *)
BelievedTenant(i) ==
  IF envelope[i].claim = "absent" THEN "401"
  ELSE IF envelope[i].claim = "malformed" THEN "403"
  ELSE IF envelope[i].named THEN BodyTenant(i)
  ELSE envelope[i].claim

AuthorizedTenant(i) ==
  IF envelope[i].claim = "absent" THEN "401"
  ELSE IF envelope[i].claim = "malformed" THEN "403"
  ELSE IF envelope[i].named /\ BodyTenant(i) # envelope[i].claim THEN "403"
  ELSE envelope[i].claim

Authorized(i) == AuthorizedTenant(i) \in Tenant

Waiting(i) == status[i] = "none" /\ (i \in Run => pc[i] = "idle")

Answered(i, reply) == Waiting(i) /\ status' = [status EXCEPT ![i] = reply]

Refuse(i) ==
  /\ ~Authorized(i)
  /\ Answered(i, AuthorizedTenant(i))
  /\ UNCHANGED <<rows, posts, envelope, posted>> /\ UnchangedRuns

(* A body that is no object; a service that cannot be built; a field that  *)
(* is missing or refused: ValueError and its like become a 400.            *)
BadRequest(i) ==
  /\ Answered(i, "400")
  /\ UNCHANGED <<rows, posts, envelope, posted>> /\ UnchangedRuns

(***************************************************************************)
(* POST /events.                                                           *)
(***************************************************************************)

(* record_payload["tenant_id"] = tenant_id. *)
EventOf(p) == [posted[p] EXCEPT !.tenant = AuthorizedTenant(p)]

(* Mutant of PostStatus: 201 says inserted whenever append returns. *)
PostStatusCreated(answer) == IF answer = "23505" THEN "raised" ELSE "inserted"

PostStatus(answer) ==
  IF answer = "true" THEN "inserted" ELSE IF answer = "false" THEN "replay" ELSE "raised"

RecordPost(p) ==
  /\ Authorized(p)
  /\ Answered(p, PostStatus(StoreAnswer(EventOf(p))))
  /\ rows' = RowsAfter(rows, EventOf(p), StoreAnswer(EventOf(p)))
  /\ posts' = posts \union (rows' \ rows)
  /\ UNCHANGED <<envelope, posted>> /\ UnchangedRuns

(* The driver raises, or the invocation ends: with nothing in the store,   *)
(* or with the row committed and nobody told.                              *)
PostRaises(p) ==
  /\ Authorized(p)
  /\ Answered(p, "raised")
  /\ rows' \in {rows, RowsAfter(rows, EventOf(p), StoreAnswer(EventOf(p)))}
  /\ posts' = posts \union (rows' \ rows)
  /\ UNCHANGED <<envelope, posted>> /\ UnchangedRuns

(* The row is still to come. *)
PostLosesCommit(p) ==
  /\ Authorized(p)
  /\ Answered(p, "raised")
  /\ LoseEvent(EventOf(p))
  /\ UNCHANGED <<envelope, posted>>

(***************************************************************************)
(* POST /agent/run.                                                        *)
(***************************************************************************)

(* The agent runs for the verified tenant. *)
Accept(r) ==
  /\ Waiting(r) /\ Authorized(r)
  /\ Start(r, [request[r] EXCEPT !.tenant = AuthorizedTenant(r)])
  /\ UNCHANGED <<envelope, posted, status>>

AgentStep ==
  /\ \/ \E r \in Run : RunStep(r) \/ Interrupt(r) \/ LoseCommit(r)
     \/ \E e \in inflight : LateCommit(e) \/ LateAbort(e)
  /\ UNCHANGED <<envelope, posted, status>>

(* How an invocation is answered: a citation is refused with a ValueError, *)
(* before the store sees the decision; a sequence beyond the column and a  *)
(* taken position are exceptions of the driver.                            *)
Status(i) ==
  IF i \in Post \/ status[i] # "none" THEN status[i]
  ELSE IF pc[i] = "replied" THEN "200"
  ELSE IF pc[i] = "rejected" /\ CitationRefused(i) THEN "400"
  ELSE IF pc[i] \in {"rejected", "clashed", "interrupted"} THEN "raised"
  ELSE "none"

HandlerNext ==
  \/ \E i \in Invocation : Refuse(i) \/ BadRequest(i)
  \/ \E p \in Post : RecordPost(p) \/ PostRaises(p) \/ PostLosesCommit(p)
  \/ \E r \in Run : Accept(r)
  \/ AgentStep

HandlerSpec == HandlerInit /\ [][HandlerNext]_handlerVars

-----------------------------------------------------------------------------
(***************************************************************************)
(* Properties.                                                             *)
(***************************************************************************)

(* The events an invocation may write. *)
Writes(i) ==
  IF i \in Post THEN {EventOf(i)}
  ELSE {ObservationOf(request[i]), DecisionOf(request[i], choice[i])}

(* Every row on record, or still to come, was written for an invocation    *)
(* whose verified identity is the row's tenant and which was not refused,  *)
(* whatever tenant a body names (lambda_handler.py:77-83, 98-99, 117-135). *)
RowsHaveVerifiedWriter ==
  \A e \in rows \union inflight :
    \E i \in Invocation :
      /\ Authorized(i) /\ envelope[i].claim = e.tenant /\ e \in Writes(i)
      /\ Status(i) \notin {"401", "403"}
      /\ i \in Post => Status(i) # "400"

(* The event that the answer of an invocation is about first. *)
ToldOf(i) == IF i \in Post THEN EventOf(i) ELSE ObservationOf(request[i])

ToldInserted(i) ==
  IF i \in Post THEN status[i] = "inserted"
  ELSE pc[i] # "idle" /\ recorded[i].observation

(* However often a request is sent again, over however many invocations    *)
(* and on either route, one of them at most is told that the event of its  *)
(* key was inserted, and then that very event is on record                 *)
(* (lambda_handler.py:81-84 and 95-115).                                   *)
CreatedOnce ==
  \A i \in Invocation : ToldInserted(i) =>
    /\ ToldOf(i) \in rows
    /\ \A j \in Invocation \ {i} :
         ToldInserted(j) => ReplayKey(ToldOf(j)) # ReplayKey(ToldOf(i))

(* A client that is answered 201, or 200 by the agent, need not send its   *)
(* request again: the key it used is taken, except where SQLite says so of *)
(* a position that another event holds (store.py:59, lambda_handler.py:84).*)
AcknowledgedIsSettled ==
  /\ \A p \in Post : status[p] \in {"inserted", "replay"} =>
       \/ KeyTaken(rows, EventOf(p))
       \/ Backend = "sqlite" /\ status[p] = "replay" /\ PositionTaken(rows, EventOf(p))
  /\ \A r \in Run : Status(r) = "200" /\ recorded[r].observation =>
       ObservationOf(request[r]) \in rows
=============================================================================
