# Continuity Ledger: a TLA+ verification of the code

Continuity Ledger keeps an append-only record of (fictional) operational
incidents, recalls earlier records of a tenant by similarity, chooses a bounded
action from what it recalled, and records that decision. It runs as an AWS
Lambda function over CockroachDB, with a SQLite store as its local reference,
and comes with a public demo and with scripts that deploy and verify it.

This directory models the parts of that program where something can go wrong
between two steps. Paths below are relative to `src/` of the repository;
`continuity_ledger/` stands for `src/continuity_ledger/` in it.

* [The system](#the-system)
* [Modules and the code they model](#modules-and-the-code-they-model)
* [Runs](#runs)
* [Where the code and its documents disagree](#where-the-code-and-its-documents-disagree)
* [Fairness](#fairness)
* [Proofs](#proofs)
* [What is not modelled](#what-is-not-modelled)
* [Plan](#plan)

## The system

### Components

| Component | State it keeps | Operations | Interacts with |
|---|---|---|---|
| CockroachDB store (`cockroach.py`) | table `ledger_events`: primary key `(tenant, incident, sequence)`, unique `(tenant, idempotency_key)` | `append` under `run_with_serialization_retry`, `search`, `initialize` | one new connection and transaction per attempt |
| SQLite store (`store.py`) | the same table in a file or in memory; an open transaction and its locks | `append`, `search`, `close` | one connection shared by all calls of a store; SQLite's file locks |
| Events and service (`models.py`, `service.py`) | none | validation, `record`, `recall` | forward to a store |
| Agent (`agent.py`) | none of its own | `run`: recall, choose, record observation, record decision | two `service.record` calls, two transactions |
| Public demo (`demo.py`) | none of its own | `seed_demo_memory`, `run_demo_scenario` | service and agent, always in the tenant `demo` |
| Lambda handler (`lambda_handler.py`) | none | routes, tenant check, statuses | builds a service per request, which it never closes |
| AWS configuration (`aws_config.py`, `put_aws_database_parameter.py`) | the SSM parameter, its receipt, one cached URL per environment | put, resolve | handler, operator |
| Managed evidence verifier (`managed_evidence.py`, `verify_managed_stack.py`) | a temporary file and the receipt | bootstrap, hosted and direct round trips, MCP inspection, receipt | hosted demo, database, MCP endpoint |
| Managed schema bootstrap (`managed_bootstrap.py`, `bootstrap_managed_schema.py`) | schema, receipt | create, examine, write receipt | store, CockroachDB's schema jobs |
| Managed MCP client (`mcp.py`, `verify_managed_mcp.py`) | receipt | inspect one read-only tool in one session | external MCP service |
| Local verifier (`verify_local_cockroach.py`) | a container, receipt | digest, run, assert the contract, remove, write receipt | docker, store |
| Public release builder (`release.py`) | a directory of copies and its manifest | list, copy, describe | the source tree |
| Feature hashing, privacy patterns (`embedding.py`, `privacy.py`) | none | pure functions | stores, events |
| Container smoke test (`smoke_lambda_container.py`) | none | a linear script | docker, demo |

### What is hard in it

Lambda runs any number of environments at once, each request may be retried by
its client, and any of them may be cut off by the 15 second timeout
(`deployment/template.yaml:39`). The code has no locks: it relies on two
constraints of one table, on `ON CONFLICT ... DO NOTHING` naming only one of
them, and on replay keys that make repeated work harmless. From that follow the
questions the models ask:

* **Concurrency and ordering.** Overlapping appends of one key or one position;
  overlapping runs of one incident; overlapping seedings; two verifiers that
  share a temporary file; clients who post events of any kind and under any key
  while runs go on; two release builders at one destination; two
  executions of a script that write one receipt in place; processes that wait
  for each other's lock on a SQLite file.
* **Failure in the middle.** A connection lost under COMMIT leaves the row in
  doubt; a run ends between its observation and its decision; a seeding ends
  between two of its three transactions; a build ends half way; an append on
  SQLite times out with its transaction open; `docker run` is interrupted.
* **Retry.** Serialization retries in the store, requests that are resent to
  either protected route after an exception or a lost answer, an append that is
  sent again to a store that is still in its failed transaction, repeated
  scenario runs and verifications.
* **Stale reads.** The agent recalls before it writes; the demo looks up its
  prior in one search and cites it from another, or answers that it is missing
  when it no longer is; an environment remembers the URL it resolved first; the
  release builder looks at files long before it copies them, and only the look
  refuses links;
  the local verifier looks up the digest of a tag that may move; the schema check
  goes by names.

### What makes each component correct

* Store: rows unique under both constraints; `True` only for the call that put
  the row there; `False` only for a replay of somebody else's row; a definite
  error leaves no row; every call ends.
* SQLite file: `True` is durable, `False` has a reason, locks are released with
  the store, and where no store outlives an exception it promises what the cloud
  store does.
* Handler: a row is written for a verified tenant only; a client is told once
  that its event was inserted, and need not resend what was acknowledged.
* Agent: whatever clients post beside it, the decision of a run cites only a
  handoff of its own tenant and comes after its observation; an answered run has
  a decision on record; one run per key is told it recorded the decision, and
  answered what is on record.
* Demo: seeding counts a prior once, and who looks for his prior once a seeding
  was answered finds it;
  a 200 cites the scenario's own prior; scenarios meet their fixed contract.
* Verifier: a published receipt is whole, and true of the ledger; a replay is
  not reported as a failure.
* Release: a manifest describes exactly the tree beside it, a finished
  candidate stays as it is, and a link is followed only if it was made after the
  builder had looked.
* Configuration: a failure to resolve is not remembered; a refusal can only come
  from a URL that was rotated away; a receipt names its own put.
* Evidence scripts: a receipt on the path is true of what it is about; one that
  is torn does not go unnoticed; a container that stays behind has a known reason.

## Modules and the code they model

```
LedgerRows ──┬── Ledger  (abstract: what append promises)
             ├── CockroachStore  (refines Ledger) ── CockroachStore_proofs
             ├── SqliteStore  (refines Ledger) ── SqliteStore_proofs
             ├── ContinuityAgent ──┬── ContinuityAgent_proofs
             │                     ├── LambdaHandler ── LambdaHandler_proofs
             │                     └── Demo ── ManagedEvidence ── ManagedEvidence_proofs
             └── LocalVerifier ─────┐
ReceiptFile ──┬── (LocalVerifier) ──┤
              ├── SchemaBootstrap ──┼── EvidenceScripts ── EvidenceScripts_proofs
              └── ManagedMCP ───────┘
PublicRelease ── PublicRelease_proofs
DatabaseParameter ── DatabaseParameter_proofs
```

Every `MC` module gives the constants of its module small values; every `.cfg`
is named after the run it configures. A definition whose comment says "Mutant of
X" is no part of the specification: it is X with a plausible bug, kept to show
that the property named for it in `PROJECT.json` notices that bug.

**LedgerRows** holds what the two constraints mean: `Position` and `ReplayKey`
of an event, `Free`, and how one whole append is answered by either backend
(`SqliteAnswer`, `CockroachAnswer`).

**CockroachStore** is `append` statement by statement. `pc` is the place in
`operation()` and in the retry loop (`connect`, `execute`, `commit`, `await`,
`rollback`, `backoff`; `left` is a process that ended, or a caller that saw its
connection break). `txn` is the server's side of the attempt. An insert waits
while another open transaction holds a clashing row (`Intents`); a COMMIT that
was sent is applied or refused by the server whether or not the client is still
there (`ServerCommits`, `ServerAborts`). `RollbackFails` is `rollback()` raising
on a broken connection: it replaces the first exception, so nothing is retried.
`answers` is a history variable. The server's actions are external: they are the
behaviour cockroach.py relies on (serializable isolation, 40001 only where
nothing was committed).

**SqliteStore** is `append`, `search` and `close` statement by statement for
processes that share one file. `pc` is the place in the store; `begun` and
`pending` are the transaction Python opened before the INSERT; `lock` is the
connection's lock in SQLite's rollback-journal protocol, which is external
(`Blocked`, `AwaitReaders`, `Recover`). An append that waited five seconds raises
`OperationalError`, which `append` does not catch: its transaction stays open.
`Raise` has the two callers there can be: the request handler drops its store
with the exception, another caller (`kept`) goes on with it.
`DroppedStoresKeepPromise` is the refinement of `Ledger` for the first kind.

**Ledger** is the abstract specification: a call takes effect at most once, at
one instant, where both constraints are free; a definite answer is honest about
that and closes the call, and only a lost connection or process leaves a call
that may still take effect. It mentions neither connections nor retries.
`CockroachStore!LedgerPromise` and `SqliteStore!DroppedStoresKeepPromise` are the
refinements; they are what lets the modules above take an append as one step.

**ContinuityAgent** is `ContinuityAgent.run`: `Recall` (search and
`_choose_action`), `Observe`, `Decide`, and their ends. An append is one step
with the answers the store gives; `inflight` holds COMMITs whose client has gone
and which may still be applied. Ranking is `Score`, any function of observation
and event; ties follow SQLite's position order or, on CockroachDB, no order at
all (`ORDER BY` distance only). An event's text is abstracted to the keywords
`_choose_action` looks for; `Unspeakable` incident ids are those whose citation
`incident:sequence` reads as a credential to `assert_synthetic_text`. A client
that resends its request is another `Run` with an equal `Request`.

POST /events takes an event of any kind under any key (`lambda_handler.py:81-85`,
`models.py:33-41`), so `RecordEvent` and `LoseEvent` record any member of
`Postable`: handoffs, but also what reads as the observation or decision of a run,
at its position or under its key. Nothing stops a client from posting a decision
that cites what is not there; so the properties of citations and pairs are about
what runs record, `rows \ posts`, whatever is posted. The history variable `posts`
holds the events that clients put on record or left under a COMMIT. Two more
properties say less for it: `DecisionsFollowObservations` promises the very
observation only where nobody uses its key for anything else (`KeyIsOwn`), and
`ReplyIsOnRecord` a row under the decision's key, which a client may have put there.

**LambdaHandler** is the protected routes over the agent: `AuthorizedTenant` is
`_authorized_tenant`, whose result replaces whatever tenant the body names;
`RecordPost` is POST /events, `Accept` hands POST /agent/run with that tenant to the
agent (`Start(r, q)` with the request `q` that results), whose
ends `Status` turns into 200, 400 (a citation that validation refuses) or an
exception of the driver that no `except` of the handler names (a taken position, a
sequence beyond the column, a lost connection). `PostRaises` and `PostLosesCommit` are the two ways such an
exception relates to the row: committed or not by then, or still to come. An
invocation that is resent is another invocation with an equal body.

**Demo** adds the two demo routes to the agent: seeding as three appends in
dictionary order, a scenario run that searches for its prior, runs the agent, and
compares the action only afterwards. Its texts are fixed, so `PriorRank`,
`ObservationRank` and `DecisionRank` are the order of the similarities that
`feature_hash` and `cosine` give for them, worked out exactly (a rank of equal
numbers is an exact tie). `FixedAssumption`, `RecallAssumption` and
`ScoreAssumption` say that the agent underneath is the one demo.py builds: its
requests and what is posted are those of the scenarios, its recall holds three rows,
and its scores are these ranks. A run that misses its prior (`MissPrior`) never
starts the agent; it is answered 409 in a step of its own (`AnswerMissing`), before
which a seeding may be answered. So `SeededMeansAvailable` is an action property
about the search: a run that looks after a seeding was answered finds its prior.

**ManagedEvidence** puts verifiers beside the demo's visitors: `phase` follows
`collect_managed_stack_evidence`; the hosted requests run as demo invocations
whose result the verifier reads, or no longer reads after a timeout; the direct
round trip runs through a connection of its own; the receipt goes to
`<receipt>.tmp`, is read back, and is renamed. Whoever of `Run` and `Seeder` is no
invocation of a verifier is a visitor, who runs and seeds when he likes. Its phases for the bootstrap and
the MCP inspection stand for one execution of SchemaBootstrap and ManagedMCP.

**ReceiptFile** is the one way in which three scripts write their receipts:
truncate in place, write, read back. A receipt is its size here, since a short one
does not cover a long one. Only the receipts of the MCP inspection differ in size,
with what the service advertised (`mcp.py:190-198`); those of the other two
scripts have one size each, the local one for one image reference.
**SchemaBootstrap**, **ManagedMCP** and **LocalVerifier** are those scripts up to
the receipt, each with the service it depends on as external actions:
CockroachDB's index job (`IndexJobEnds`), an MCP service that lists and answers
what it likes, docker with tags that move and containers that exit.
`ContractAsserted` evaluates the assertions the local verifier makes of `append`
with the operators of LedgerRows. **EvidenceScripts** puts executions of one of
the scripts beside each other and says what their receipts are worth.

**PublicRelease** is `build_public_release`: check, look at each file of the
allowlist (`ListFile`), `mkdir`, then per file copy and record, then the manifest,
with other builders, edits of the source and deaths in between any two of these.
Files are numbers in path order. What is at a path is a file or a symbolic link,
with the number of the edit that put it there, or nothing; an edit may replace a
file by a link at any time. The look refuses links (`Refused`, `release.py:68` and
86), while the copy follows them (`CopyFile`, `release.py:118`): a link made in
between ends up in the candidate. `looked` is a history variable, the time of the
look at each file, so that `ManifestDescribesTree` can say that this is the only way
(`LinksCameLate`), beside what it says of the files and their digests.

**DatabaseParameter** is the SSM parameter as a sequence of versions, the script
that stores them and leaves a receipt, and the environments that resolve a URL
once and remember it. Rotation of credentials at the cluster is external.

## Runs

State counts are of a complete search. All runs are exhaustive for their
instance; none uses a state constraint.

| Run | Instance | States | What it shows |
|---|---|---|---|
| `store_retries` | 2 clients, 1 call each, 4 attempts, 3 events (one, the same key elsewhere, the same position under another key) | 208,009 | rows stay unique, `True` is own and durable, `False`, 23505 and 40001 mean what they should through the whole retry loop, every call ends, and the whole refines `Ledger` |
| `sqlite_files` | 2 processes, 3 appends in all, the same 3 events; none, one or both keep a store that raised | 247,971 | `True` is durable, `False` and late rows have the reasons the code gives them, locks are released, and dropped stores refine `Ledger` |
| `agent_handler` | CockroachDB; 2 runs and 2 posts over requests of two tenants, handoffs and forged decisions under the key of a request; one invocation with another identity or none; recall limit 2 | 1,046,528 | citations, replies, pairs and single recording survive overlap, crash, late commit and resend on both routes; every row has a verified writer; what clients are told about rows is true |
| `agent_sqlite` | SQLite; 3 runs, 3 requests (two overlapping, one at the last sequence); clients post two handoffs, one of which may not be cited, an observation under a run's key and a decision under a decision key | 166,289 | types; the only answer without a row behind it is the one at a position another event holds; an observation stays without its decision only for a refused citation, the last sequence or a run that did not get to it |
| `demo_runs` | 1 seeder, 3 visitors, any scenario each | 198,578 | no answer cites another scenario's prior; what the runbook asks for works in any order |
| `managed_writers` | 2 verifiers, hence 4 seedings and 4 runs | 307,909 | the receipt file is never half-written though verifiers share the temporary file; overlapping seedings count each prior once |
| `managed_visitors` | 1 verifier, 1 visitor who seeds and runs any scenario | 692,545 | a published receipt is backed by the ledger; who looks for his prior once a seeding was answered, whosever it was, finds it |
| `release_builders` | 2 builders, 3 files (required, optional, never public), 2 edits | 2,390,715 | manifest and tree agree; a link was followed only if it was made after the look; a finished candidate is final |
| `parameter_rotation` | 2 executions, 2 URLs, 2 environments, at most 3 versions | 31,928 | receipts, refusals and recovery from an unresolved URL |
| `evidence_scripts` | 2 executions of one of the three scripts; 2 read-only tools and one that writes; a tag that moves twice | 140,575 | receipts on the path are true, torn ones are noticed, only read-only tools are called, containers are accounted for |

Two more runs (`demo_contract`, `managed_replay`) end in a counterexample; the
next section explains them.

One result needs a caution. `ReceiptIsWhole` holds because of a coincidence that
its mutant shows: the temporary file has one name for all verifiers, and two of
them could truncate and rename it under each other, but only one verifier per
ledger ever gets past the assertion that its decision was persisted. Whoever
relaxes that assertion (see `managed_replay`) should give the file a name of its
own as well.

### Why the bounds are enough to be interesting

* Two clients with clashing events reach every pair of transaction states; a
  third adds waiting chains but no new clash. `Attempts = 4` is the code's own
  value. A second call of one client would meet the rows of its first as another
  client's call does. The proofs cover any number of clients, calls and attempts.
* Three appends on a SQLite file let a process meet its own abandoned row with
  another process's append in between. `MaxCalls` and `MaxAppends` bound them.
* Two runs and two posts let each row of a run meet a posted one, be resent, and
  be written by another tenant; the positions of the requests overlap. A posted
  decision under a request's key competes with its observation, in either tenant;
  in `agent_sqlite` one under a decision key competes with the decision of a run.
* Two executions are the least that share a receipt; `MaxImages = 3` lets the tag
  move before and between the two docker commands. Symmetry and killing cover
  which of them goes first.
* In `agent_sqlite` three runs are the least that give a crashed run, its retry and an unrelated
  run in between. The recall limit is 2 in both agent runs, so that a retried run's own rows
  fill it, as three results do in the code; the demo uses the code's 3.
  `MaxSequence = 4` stands for the largest `INT8`.
* Two verifiers are the least that overlap, and bring the overlapping seedings.
  Three visitors are the least that can run every scenario. One visitor beside one
  verifier already seeds and runs between any two of its requests. Every seeding has
  the code's three priors.
* Two edits let one file change twice, or two files once, between the look
  and the copy: a file may become a link and a file again.
* Deadlock is checked in `parameter_rotation`. The other systems come to rest when the bounded number
  of calls, invocations or builders is used up, so their configurations say
  `CHECK_DEADLOCK FALSE`; that no call is left waiting for ever is
  `EveryCallEnds`.

Symmetry is declared for interchangeable runs, verifiers and builders, in runs
without liveness only.

## Where the code and its documents disagree

Two runs check a statement of a document or comment and find it violated. Each
is a short trace that was followed by hand through the code.

* `demo_contract` / `ContractHolds`. For the transcode observation all three
  priors have similarity 0; SQLite's tie order puts `prior_ingest` first, the
  agent chooses the ingest action and records it, and then the contract check
  raises: the visitor gets a 400 for good, since the decision's key is used up.
  (`RunbookScenariosHold` is the part that is true.)
* `managed_replay` / `SafeReplayIsNoFailure`. The verifier demands
  `decision_persisted`, which is true once per ledger. After the runbook's own
  step 5, or any visitor's ingest run, it rejects a healthy stack.

Five more differences came up while modelling. They are the exceptions that
properties which hold make explicit, or are described here only.

* At a position another event holds, SQLite turns the primary key violation into
  `False` (`store.py:59`), while CockroachDB raises 23505, because `ON CONFLICT`
  names the replay key only (`cockroach.py:70`). So a run on SQLite can answer 200
  with an action that is on no row, and a test on SQLite does not see what
  CockroachDB does. `RepliesAccounted` says that this is the only way, and
  `ReplyIsOnRecord`, which excludes it, is checked and proved for CockroachDB only.
* A caller that keeps a SQLite store after a locked append and sends the append
  again is told `False`, as if the row were there, and the rollback then discards
  it (`store.py:59-61`). `FalseIsExplained` says that this too is the only way;
  the handler's stores do not live that long.
* A handoff with the incident id `secret` passes validation, but its citation
  `secret:1`, quoted in the decision's evidence (`agent.py:76-88`), does not: the
  observation is committed, the decision never can be. `HalfPairsExplained` names
  this, the last sequence and a run that ended as the only reasons.
* A repeated request recalls and chooses again and answers the new choice, while
  the ledger keeps the first (`agent.py:50-98`;
  `docs/LOCAL_VERIFICATION_2026-08-11.md:21` says that repeating the scenario
  "returned the existing idempotent decision"). It is true of the row, not of the
  answer.
* `README.md:69` says that the local verifier always removes its container. It
  does once `docker run` has returned; `ContainersAccounted` lists what is left.

## Fairness

Three runs assume some, the others none:

* `store_retries` (`EveryCallEnds`): a process that can take its next statement
  takes it; an exception that is being handled propagates; the server answers a
  COMMIT it received and clears sessions whose client has gone. These are weak.
  No fairness is assumed of callers, of connection loss, of 40001 or of crashes;
  a wait on another's intent ends only because that other transaction ends.
* `sqlite_files` (`LocksReleased`): a statement that can go on does so or times
  out (the five second limit of `sqlite3.connect`), a read that runs ends, and
  whoever opens the file rolls back for a process that died. These are weak.
  Nobody is obliged to call anything, to close a store, or to live on.
* `parameter_rotation` (`ResolvesInTheEnd`): requests keep arriving at each
  environment and the parameter store answers infinitely often (strong fairness
  of `Resolve`, since `ResolveFails` may come between), and a resolved
  environment goes on to connect. Nothing obliges Lambda to recycle one.

## Proofs

`tlapm` checks everything in the eight `_proofs` modules for all values of the
constants, under the named assumptions of the modules only:

* CockroachStore and SqliteStore: `Client`, `Connection` and `Event` are not empty,
  `Attempts` and `MaxCalls` are positive;
* ContinuityAgent: a backend, a positive limit, sequences within the bound. Nothing
  is assumed of the kinds, keys and citations of what clients post;
* LambdaHandler: posts are not runs, no tenant is called like a status, bodies have a
  tenant and envelopes a claim, and what one tenant may send, any other may send too
  (`ClosedAssumption`): `_authorized_tenant` replaces the tenant a body names;
* Demo: the fixed texts (`FixedAssumption`, `RecallAssumption`, `ScoreAssumption`);
* ManagedEvidence: the invocations of the verifiers are runs and seedings
  (`InvocationAssumption`), and "absent" and "torn" are no receipts
  (`VerifierAssumption`);
* PublicRelease: files are numbered in the order of their paths; DatabaseParameter:
  every writer has a URL; EvidenceScripts needs none.

Three theorems carry results from one module to the next: `HandlerRunsAgent`
(HandlerSpec implies the agent's Spec), `DemoRunsAgent` (so does DemoSpec) and
`VerifiersRunDemo` (StackSpec implies DemoSpec). The variables of the larger module
include those of the smaller, so that the mapping is the identity; what takes a
proof is that every step of a route, a seeding or a verifier is one of the agent's
own or changes nothing the agent sees.

**Store.** `Typing` is inductive by itself. None of the others is: that two
committed rows cannot clash depends on what open transactions hold, and what an
answer means depends on where its call was. `IInv` adds

* `Session`: what the place in `append` says about the server's transaction and
  the pending error (a 40001 or 23505 in hand means an aborted transaction, a
  returned row means one that was an intent);
* `SessionRows`: what it says about the table (a transaction that read a
  duplicate has a committed row under its key; a call under way that has not
  committed has no row);
* `IntentsExclusive`: an intent clashes with no row and no other intent, the
  fact that carries `ServerCommits`;
* `StoredWellKeyed` and `HistoryOfCalls`: rows and answers belong to calls made,
  answers to calls that are over, and no call has two;
* `AttemptsLeft`, for the type of the attempt counter.

Steps that touch neither table nor history are discharged together by the frame
lemmas (`QuietStep`); `AnswerStep`, `InsertRowStep` and `ServerCommitsStep` are
the steps with content. From `IInv` follow `Uniqueness`, `TrueIsTrue`,
`FalseIsReplay`, `AtMostOnce` (which no run repeats), `DefiniteErrors`, `Duplicates`, and `StoreKeepsPromise`: the
refinement of `Ledger`, in which `InsertRow` and `SendCommit` are stutters,
`ServerCommits` is `Store`, and each end of `append` is `Answer` or `Leave`.

**SQLite file.** `StepKinds` sorts the steps into INSERT, COMMIT and quiet ones,
which store nothing and keep or end their transaction. `StoreInv` says that one
connection at a time holds a lock that writes (`OneWriter`), that rows, with the
appends that made them, are apart in the file and in a transaction together
(`RowsApart`), and where the row of an append under way is (`OwnRow`):
`KeyedWrites` and `TrueStays` follow. `LockedRide` and `FalseExplained` need the
past as well: `Numbered` orders the appends of a process, and `WaitingExplained`
says that a row which waits is that of the append at work, or of one that raised
in a store that was kept. `DroppedStoresPromise` is the refinement: where no store
outlives its exception, the INSERT that finds both keys free is a stutter, the
COMMIT is `Store`, and the end of an append is `Answer` or `Leave`. `LocksReleased`
stays with TLC.

**Agent.** All of these hold whatever clients post. `Typing` for both backends.
`Citations`, for both: the invariant `Grounded` says the same of choices not yet
written and of COMMITs in flight that are not a client's, and rests on lemmas about
`Recalls` (one tenant's rows), `Choices` (a handoff among them) and on rows never
going away. `RepliesOnRecord` and `DecisionsPaired` are proved under
`Backend = "cockroach"`; the first is false without it, and `RepliesExplained` is what holds of
both backends. `RecordedAtMostOnce`, for both as well, rests on the invariant
`Recorded`: one row per replay key, and the decision of every run that was told it
recorded one is that row. `DecisionsPaired` uses `Paired`: where a run is about to
decide, the key of its observation is taken (`Observed`), by that observation if the
key is its own (`KeyIsOwn`). `HalfPairs`, for both backends, strengthens the
property to every observation on record or under its COMMIT that no client posted:
some run that got past `Observe` with that request is under way or ended early, was
refused, or has its decision or another event where the decision belongs
(`HalvesExplained`). That nobody was answered about a half pair then follows from
`RepliesExplained`.

`agent_sqlite` runs `SqliteSpec`, the agent without the steps SQLite cannot take
(`PositionClash`, and COMMITs that outlive their process). That this is what
`Spec` amounts to there is a theorem, `OverSqlite`; those steps are taken in
`agent_handler`.

**Handler.** The three properties follow from one invariant, `HandlerInv`: a run
that has begun has the verified tenant in its request and was not refused
(`Accepted`); every row and every COMMIT in flight has an invocation that wrote it
(`HaveWriter`); who was told "inserted" has his row, and no two of them one key
(`TellsTrue`). `OnwardKeeps` says once what a step must not take back and must
show of what it adds; each action is then measured against it. `HandlerRunsAgent`
needs `ClosedAssumption` for `Accept`: the request that the agent starts with, its
tenant replaced, must be one the agent knows. `HandlerRecordsOnce`,
`HandlerCitesHandoffs` and `HandlerLeavesPairs` are then the agent's theorems for the
formulas that `agent_handler` checks.

**Demo and its verifier.** A row of the demo is known by its replay key or its
position alone (`PriorFound`, `ObservationFound`), which is why an append of one
that answers `False` has found that very row. So a seeding that has passed a prior
has it on record (`Seeded`), whoever put it there: `Available` follows, since a
search after that cannot miss, and
`SeedsCounted` because only a row that was not there is counted. `Kept` says what a
run has found and chosen at each point, and that the contract was compared with it:
`OwnPriorCited`.

`RunbookHolds` is about the ranks. The row of a prior that may be preceded by two
other rows at most is among the three recalled (`RecallsPreceded`), and is cited if
no other handoff may precede it (`CitesFirst`), however CockroachDB settles ties.
For the review scenario only its own observation ranks so high (`BeforeReview`). For
the ingest scenario, before another is run, it is its own observation and its own
decision (`BeforeIngest`); that there is one such decision only is the agent's
`Recorded` again. For the transcode scenario there is no such lemma, and
`demo_contract` shows why.

`Verified` says of a verifier past its assertions that they are still true
(`AssertedStays`), and that a temporary file which is about to be checked or renamed
is its own. Two verifiers past their assertions would both have been told that they
recorded the decision of one key, so there is one (`OnePasses`): this is the
coincidence of which the section on runs warns, and `WholeReceipt` and `TrueReceipt`
rest on it. Without the last conjunct of `DemoAsserted` neither can be proved.

**Evidence scripts.** `ReceiptsAreWhole` and `NoContainerForgotten` are inductive
once the variables are functions on the executions (`Functional`). The other
three say what was true when a receipt was built and is still true, so they share
`PathHasWriter` (who is on the path has built a receipt) and one lemma per module
about the steps that lead to a receipt (`FileSteps`, `SchemaSteps`, `McpSteps`,
`LocalSteps`); to these `SchemaWasSeen`, `McpGated` with `McpWasBacked`, and
`ImageAccounted` add what the script knew, and that nothing takes it back.

**Release.** The invariant counts what a builder has recorded, what it has still to
copy and what is in the tree, and says that they add up (`Copied`); that one builder
at a time is past `mkdir` (`OneAtWork`), which is what `exist_ok=False` buys; and
that what is still to be copied was looked at, so that a link there came after the
look (`Listed`). `LinksLate` carries the latter over to what was copied; what an
edit makes is later than every look so far, and `ListStep` is the look itself. A
written manifest is that of a builder who has finished (`FinishedStep`), hence who
looked. The next file is the first of those left, and that there is a first one is
`FirstFile`, from the well-foundedness of `<`.

**Parameter.** `VersionsNameUrls` and `RememberedWasStored` say that versions and
remembered URLs are those of the parameter's history, which only grows; a refused
environment holds a revoked URL (`RefusedIsRevoked`) and the current one is never
revoked (`CurrentAccepted`), so that the two differ.

**Model-checked only.** Liveness (`EveryCallEnds`, `LocksReleased`,
`ResolvesInTheEnd`), which is out of reach of the installed provers, and the two
runs that end in a counterexample. Every other property of a run is a theorem. What
the proofs take from outside are the rank tables: that `feature_hash` and `cosine`
order the demo's fixed texts as they say is arithmetic on floats, worked out beside
the model and assumed in it.

## What is not modelled

* Arithmetic on the 32 floats of an embedding, the approximate nature of the
  vector index, and the text of regular expressions: pure functions over data
  that ordinary tests reach. Their effect on control (ranks, ties, refusals) is
  modelled.
* The handler's GET routes, its 404 and POST /search, which change nothing.
* The tenant `demo` is also reachable through authenticated `/events`; Demo and
  ManagedEvidence leave those writers out.
* The agent over SqliteStore's single statements: an append is one step there,
  which the refinement justifies for stores that are dropped.
* What the local verifier asserts of search, the index and the retry loop is one
  assertion that holds or raises; the smoke test, the deployment template and the
  workflow are linear or declarative.
* Copies torn by an edit during `copyfile`; `is_file` and `is_symlink` of one path
  are one look.

## Plan

Done, in this order: LedgerRows, CockroachStore, Ledger; ContinuityAgent; Demo;
ManagedEvidence; PublicRelease; DatabaseParameter; SqliteStore; LambdaHandler;
ReceiptFile with the three scripts that leave a receipt. Left:

1. Demo writers from `/events` in the tenant `demo`, as LambdaHandler's posts
   beside Demo's visitors.
2. LambdaHandler composed with DatabaseParameter: the URL that `build_service`
   resolves, and refusals by the cluster in the middle of a request.
3. Proofs: ContinuityAgent's appends as calls of Ledger, which would join the two
   halves of the project: so far an append is one step there by the argument of
   `LedgerPromise`, not by a theorem.
