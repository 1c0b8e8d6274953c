--------------------------- MODULE CockroachStore ---------------------------
(***************************************************************************)
(* CockroachLedgerStore.append under run_with_serialization_retry          *)
(* (cockroach.py), run by several execution environments at once against   *)
(* one database.                                                           *)
(*                                                                         *)
(* Every attempt opens a connection, executes one INSERT ... ON CONFLICT   *)
(* (tenant_id, idempotency_key) DO NOTHING RETURNING, reads whether a row  *)
(* came back, commits, and closes.  Any exception is answered by a         *)
(* rollback and raised again; only SQLSTATE 40001 is tried again, in a new *)
(* connection, Attempts times in all.                                      *)
(*                                                                         *)
(* The server side of an attempt is the client's transaction `txn'.  It is *)
(* external code: a row inserted by a transaction that has not ended is an *)
(* intent that other inserts of the same key or position wait for, and a   *)
(* COMMIT is applied or refused by the server whether or not the client is *)
(* still there to hear of it.                                              *)
(***************************************************************************)
EXTENDS LedgerRows

CONSTANTS Client,      \* execution environments of the Lambda function
          Event,       \* events they may append
          Attempts,    \* the parameter `attempts', 4 in the code
          MaxCalls     \* bound: the calls of append one client makes

ASSUME ClientAssumption == Client # {}
ASSUME EventAssumption == Event # {}
ASSUME AttemptsAssumption == Attempts \in Nat \ {0}
ASSUME MaxCallsAssumption == MaxCalls \in Nat \ {0}

VARIABLES
  pc,         \* where the client is in append
  call,       \* the number of its current (or last) call
  event,      \* the event of that call
  attempt,    \* attempts made before the current one
  returned,   \* `inserted': the INSERT returned a row
  error,      \* the exception being handled
  txn,        \* server: the transaction of the current attempt
  stored,     \* server: committed rows, each with the call that inserted it
  answers     \* history: what each finished call returned or raised

clientVars == <<pc, call, event, attempt, returned, error>>
vars == <<pc, call, event, attempt, returned, error, txn, stored, answers>>

InCall == {"connect", "execute", "commit", "await", "rollback", "backoff"}

Rows == {s.event : s \in stored}

Tag(c) == [event |-> event[c], client |-> c, call |-> call[c]]

Stored(c) == \E s \in stored : s.client = c /\ s.call = call[c]

Answered == {"true", "false", "23505", "40001", "unreachable", "lost"}

(* The types of the variables: in particular no attempt beyond the limit,  *)
(* whatever the retry loop meets (cockroach.py:36-42).                     *)
TypeOK ==
  /\ pc \in [Client -> InCall \union {"idle", "left"}]
  /\ call \in [Client -> 0..MaxCalls]
  /\ event \in [Client -> Event]
  /\ attempt \in [Client -> 0..(Attempts - 1)]
  /\ returned \in [Client -> BOOLEAN]
  /\ error \in [Client -> {"none", "40001", "23505", "lost"}]
  /\ txn \in [Client -> {"none", "read", "intent", "sent", "committed", "aborted"}]
  /\ stored \subseteq [event : Event, client : Client, call : 0..MaxCalls]
  /\ answers \subseteq [client : Client, call : 0..MaxCalls, event : Event, answer : Answered]

Init ==
  /\ pc = [c \in Client |-> "idle"]
  /\ call = [c \in Client |-> 0]
  /\ event \in [Client -> Event]
  /\ attempt = [c \in Client |-> 0]
  /\ returned = [c \in Client |-> FALSE]
  /\ error = [c \in Client |-> "none"]
  /\ txn = [c \in Client |-> "none"]
  /\ stored = {}
  /\ answers = {}

Move(c, from, to) == pc[c] = from /\ pc' = [pc EXCEPT ![c] = to]

(***************************************************************************)
(* The server's view of uncommitted rows.                                  *)
(***************************************************************************)

(* Transactions whose row is neither committed nor given up. *)
HoldsIntent(c) == txn[c] \in {"intent", "sent"}

(* Events other clients have inserted and not committed yet: an INSERT of  *)
(* the same key or position waits until they are resolved.                 *)
Intents(c) == {event[d] : d \in {d \in Client \ {c} : HoldsIntent(d)}}

(***************************************************************************)
(* The call and its ends.                                                  *)
(***************************************************************************)

Append(c, e) ==
  /\ Move(c, "idle", "connect")
  /\ call[c] < MaxCalls
  /\ call' = [call EXCEPT ![c] = @ + 1]
  /\ event' = [event EXCEPT ![c] = e]
  /\ attempt' = [attempt EXCEPT ![c] = 0]
  /\ UNCHANGED <<returned, error, txn, stored, answers>>

Record(c, answer) ==
  answers' = answers \union
    {[client |-> c, call |-> call[c], event |-> event[c], answer |-> answer]}

(* The client is done with its session; the server forgets it. *)
Reset(c) ==
  /\ returned' = [returned EXCEPT ![c] = FALSE]
  /\ error' = [error EXCEPT ![c] = "none"]
  /\ txn' = [txn EXCEPT ![c] = "none"]

(***************************************************************************)
(* One attempt: operation().                                               *)
(***************************************************************************)

Connect(c) ==
  /\ Move(c, "connect", "execute")
  /\ UNCHANGED <<call, event, attempt, returned, error, txn, stored, answers>>

(* The connection factory raises, outside operation's try: no rollback.    *)
ConnectFails(c) ==
  /\ Move(c, "connect", "idle")
  /\ Record(c, "unreachable")
  /\ UNCHANGED <<call, event, attempt, returned, error, txn, stored>>

(* INSERT: no conflict, a row comes back. *)
InsertRow(c) ==
  /\ Move(c, "execute", "commit")
  /\ Free(Rows \union Intents(c), event[c])
  /\ returned' = [returned EXCEPT ![c] = TRUE]
  /\ txn' = [txn EXCEPT ![c] = "intent"]
  /\ UNCHANGED <<call, event, attempt, error, stored, answers>>

(* INSERT: the replay key is committed already, DO NOTHING, no row back.   *)
InsertNothing(c) ==
  /\ Move(c, "execute", "commit")
  /\ KeyTaken(Rows, event[c])
  /\ txn' = [txn EXCEPT ![c] = "read"]
  /\ UNCHANGED <<call, event, attempt, returned, error, stored, answers>>

(* Mutant of InsertDuplicate: no ON CONFLICT clause. *)
InsertViolates(c) ==
  /\ Move(c, "execute", "rollback")
  /\ KeyTaken(Rows, event[c]) \/ PositionTaken(Rows, event[c])
  /\ error' = [error EXCEPT ![c] = "23505"]
  /\ txn' = [txn EXCEPT ![c] = "aborted"]
  /\ UNCHANGED <<call, event, attempt, returned, stored, answers>>

(* INSERT: a new key at a committed position violates the primary key.     *)
InsertDuplicate(c) ==
  /\ Move(c, "execute", "rollback")
  /\ ~KeyTaken(Rows \union Intents(c), event[c])
  /\ PositionTaken(Rows, event[c])
  /\ error' = [error EXCEPT ![c] = "23505"]
  /\ txn' = [txn EXCEPT ![c] = "aborted"]
  /\ UNCHANGED <<call, event, attempt, returned, stored, answers>>

(* INSERT: the server asks for a retry. *)
InsertAborted(c) ==
  /\ Move(c, "execute", "rollback")
  /\ error' = [error EXCEPT ![c] = "40001"]
  /\ txn' = [txn EXCEPT ![c] = "aborted"]
  /\ UNCHANGED <<call, event, attempt, returned, stored, answers>>

SendCommit(c) ==
  /\ Move(c, "commit", "await")
  /\ txn' = [txn EXCEPT ![c] = IF @ = "intent" THEN "sent" ELSE @]
  /\ UNCHANGED <<call, event, attempt, returned, error, stored, answers>>

(* Mutant of CommitReturns: the answer does not wait for the COMMIT. *)
CommitReturnsEarly(c) ==
  /\ Move(c, "await", "idle")
  /\ txn[c] \in {"read", "sent", "committed"}
  /\ Record(c, IF returned[c] THEN "true" ELSE "false")
  /\ Reset(c)
  /\ UNCHANGED <<call, event, attempt, stored>>

(* commit() returns: append returns `inserted'. *)
CommitReturns(c) ==
  /\ Move(c, "await", "idle")
  /\ txn[c] \in {"read", "committed"}
  /\ Record(c, IF returned[c] THEN "true" ELSE "false")
  /\ Reset(c)
  /\ UNCHANGED <<call, event, attempt, stored>>

(* commit() raises 40001: the server had given the transaction up.         *)
CommitAborted(c) ==
  /\ Move(c, "await", "rollback")
  /\ txn[c] = "aborted"
  /\ error' = [error EXCEPT ![c] = "40001"]
  /\ UNCHANGED <<call, event, attempt, returned, txn, stored, answers>>

(* Mutant of ConnectionLost: it is reported like a serialization failure. *)
ConnectionLostAsAbort(c) ==
  /\ pc[c] \in {"execute", "commit", "await"}
  /\ pc' = [pc EXCEPT ![c] = "rollback"]
  /\ error' = [error EXCEPT ![c] = "40001"]
  /\ UNCHANGED <<call, event, attempt, returned, txn, stored, answers>>

(* The connection breaks under execute or commit; whatever the server was  *)
(* asked to do, it may or may not have done, and may yet do.               *)
ConnectionLost(c) ==
  /\ pc[c] \in {"execute", "commit", "await"}
  /\ pc' = [pc EXCEPT ![c] = "rollback"]
  /\ error' = [error EXCEPT ![c] = "lost"]
  /\ UNCHANGED <<call, event, attempt, returned, txn, stored, answers>>

(* rollback() on a broken connection raises in its turn, so the caller     *)
(* sees an error without SQLSTATE 40001 and nothing is tried again.        *)
RollbackFails(c) ==
  /\ Move(c, "rollback", "left")
  /\ Record(c, "lost")
  /\ UNCHANGED <<call, event, attempt, returned, error, txn, stored>>

(* Mutants of Retryable: one attempt too many; every error retried. *)
RetryableOnceMore(c) == error[c] = "40001" /\ attempt[c] < Attempts
RetryableAnyError(c) == attempt[c] < Attempts - 1

(* `sqlstate != "40001" or attempt == attempts - 1' is false: sleep.       *)
Retryable(c) == error[c] = "40001" /\ attempt[c] < Attempts - 1

RollbackAndRetry(c) ==
  /\ Move(c, "rollback", "backoff")
  /\ Retryable(c)
  /\ Reset(c)
  /\ UNCHANGED <<call, event, attempt, stored, answers>>

RollbackAndRaise(c) ==
  /\ Move(c, "rollback", "idle")
  /\ error[c] \in {"40001", "23505"}
  /\ ~Retryable(c)
  /\ Record(c, error[c])
  /\ Reset(c)
  /\ UNCHANGED <<call, event, attempt, stored>>

(* Mutant of NextAttempt: the attempts are not counted. *)
NextAttemptUncounted(c) ==
  /\ Move(c, "backoff", "connect")
  /\ UNCHANGED <<call, event, attempt, returned, error, txn, stored, answers>>

NextAttempt(c) ==
  /\ Move(c, "backoff", "connect")
  /\ attempt' = [attempt EXCEPT ![c] = @ + 1]
  /\ UNCHANGED <<call, event, returned, error, txn, stored, answers>>

(***************************************************************************)
(* The environment: the server, and processes that die.                    *)
(***************************************************************************)

ServerCommits(c) ==
  /\ txn[c] = "sent"
  /\ stored' = stored \union {Tag(c)}
  /\ txn' = [txn EXCEPT ![c] = "committed"]
  /\ UNCHANGED <<clientVars, answers>>

(* Contention, a lost lease, or a session whose client is gone. *)
ServerAborts(c) ==
  /\ HoldsIntent(c)
  /\ txn' = [txn EXCEPT ![c] = "aborted"]
  /\ UNCHANGED <<clientVars, stored, answers>>

(* The Lambda timeout or a lost container: nobody is answered. *)
Crash(c) ==
  /\ pc[c] \in InCall
  /\ pc' = [pc EXCEPT ![c] = "left"]
  /\ UNCHANGED <<call, event, attempt, returned, error, txn, stored, answers>>

(* The server has resolved the abandoned session; the environment's place  *)
(* is free for another invocation.                                         *)
SessionEnds(c) ==
  /\ Move(c, "left", "idle")
  /\ ~HoldsIntent(c)
  /\ Reset(c)
  /\ UNCHANGED <<call, event, attempt, stored, answers>>

-----------------------------------------------------------------------------

Progress(c) ==
  \/ Connect(c)
  \/ InsertRow(c) \/ InsertNothing(c) \/ InsertDuplicate(c)
  \/ SendCommit(c) \/ CommitReturns(c) \/ CommitAborted(c)
  \/ RollbackAndRetry(c) \/ RollbackAndRaise(c)
  \/ NextAttempt(c)

Fault(c) ==
  \/ ConnectFails(c) \/ InsertAborted(c) \/ ConnectionLost(c) \/ RollbackFails(c)
  \/ Crash(c)

Server(c) == ServerCommits(c) \/ ServerAborts(c)

Next ==
  \E c \in Client :
    \/ \E e \in Event : Append(c, e)
    \/ Progress(c)
    \/ Fault(c)
    \/ Server(c)
    \/ SessionEnds(c)

Spec == Init /\ [][Next]_vars

(* A running process takes its next step, and an exception that is being   *)
(* handled is raised; the server answers the COMMIT it was sent and clears *)
(* the sessions of clients that have gone.  Nothing makes a caller call, a *)
(* connection break, a server ask for a retry or a process die; nothing    *)
(* but the end of the other transaction ends the wait for an intent.       *)
Fairness ==
  \A c \in Client :
    /\ WF_vars(Progress(c))
    /\ WF_vars(RollbackFails(c) /\ error[c] = "lost")
    /\ WF_vars(txn[c] = "sent" /\ Server(c))
    /\ WF_vars(pc[c] = "left" /\ (ServerAborts(c) \/ SessionEnds(c)))

FairSpec == Spec /\ Fairness

-----------------------------------------------------------------------------
(***************************************************************************)
(* Properties.                                                             *)
(***************************************************************************)

(* Overlapping appends never leave two rows with one replay key or one     *)
(* position, whichever commits, aborts and retries they went through       *)
(* (cockroach.py:25-26 as relied on by lines 70 and 77).                   *)
RowsWellKeyed ==
  /\ WellKeyed(Rows)
  /\ \A s, t \in stored : s.event = t.event => s = t

(* `inserted' is true only for the call that put the row there, and the    *)
(* row is durable by then (lines 77-79).                                   *)
TrueMeansOwnRow ==
  \A a \in answers : a.answer = "true" =>
    \E s \in stored : s.event = a.event /\ s.client = a.client /\ s.call = a.call

(* append answers False only for a replay of a row some OTHER call put     *)
(* there: the retry loop never takes the row of its own earlier attempt    *)
(* for a replay (lines 33-43 and 77).                                      *)
FalseMeansReplay ==
  \A a \in answers : a.answer = "false" =>
    /\ \A s \in stored : s.client = a.client => s.call # a.call
    /\ \E s \in stored : ReplayKey(s.event) = ReplayKey(a.event)

(* However often an event is sent and by whoever, at most one call is told *)
(* that it inserted the row of a replay key.                               *)
OneTruePerKey ==
  \A a, b \in answers :
    (a.answer = "true" /\ b.answer = "true" /\ ReplayKey(a.event) = ReplayKey(b.event)) => a = b

(* A call that raised 23505 or its last 40001, or never got a connection,  *)
(* has left no row and never will: only a lost connection is ambiguous     *)
(* (lines 39-42 and 80-82).                                                *)
DefiniteErrorsLeaveNothing ==
  \A a \in answers : a.answer \in {"23505", "40001", "unreachable"} =>
    \A s \in stored : s.client = a.client => s.call # a.call

(* 23505 is raised only where another event holds the position (line 70    *)
(* names the replay key alone as the conflict to ignore).                  *)
DuplicateMeansPositionHeld ==
  \A a \in answers : a.answer = "23505" =>
    \E s \in stored : Position(s.event) = Position(a.event)

(* Every call comes to an end: no client waits for ever on another's       *)
(* intent, not even on that of a client which died, and the retries run    *)
(* out (lines 36-43).                                                      *)
EveryCallEnds == \A c \in Client : pc[c] \in InCall ~> pc[c] = "idle"

-----------------------------------------------------------------------------
(***************************************************************************)
(* The inductive invariant from which the proofs derive the properties.    *)
(***************************************************************************)

(* Only an attempt that may be followed by another one backs off. *)
AttemptsLeft == \A c \in Client : pc[c] = "backoff" => attempt[c] < Attempts - 1

(* What a client's place in append says about its transaction. *)
Session(c) ==
  /\ pc[c] \in {"idle", "connect", "execute", "backoff"} => txn[c] = "none"
  /\ pc[c] = "commit" => txn[c] \in {"read", "intent", "aborted"}
  /\ pc[c] = "await" => txn[c] \in {"read", "sent", "committed", "aborted"}
  /\ pc[c] = "rollback" => error[c] # "none"
  /\ error[c] # "none" => pc[c] \in {"rollback", "left"}
  /\ error[c] \in {"40001", "23505"} => txn[c] = "aborted"
  /\ returned[c] => txn[c] \in {"intent", "sent", "committed", "aborted"}
  /\ txn[c] \in {"intent", "sent", "committed"} => returned[c]
  /\ pc[c] # "idle" => call[c] # 0

(* What it says about the table. *)
SessionRows(c) ==
  /\ error[c] = "23505" => PositionTaken(Rows, event[c])
  /\ txn[c] = "read" => KeyTaken(Rows, event[c])
  /\ txn[c] = "committed" => Tag(c) \in stored
  /\ pc[c] # "idle" /\ txn[c] # "committed" => ~Stored(c)

Sessions == \A c \in Client : Session(c) /\ SessionRows(c)

(* An intent clashes with no row and with no other intent. *)
IntentsExclusive ==
  \A c \in Client : HoldsIntent(c) => Free(Rows \union Intents(c), event[c])

(* Rows and answers belong to calls that were made, answers to calls that  *)
(* are over, and no call has two answers.                                  *)
HistoryOfCalls ==
  /\ \A s \in stored : s.call <= call[s.client]
  /\ \A a \in answers :
       /\ a.call <= call[a.client]
       /\ a.call = call[a.client] =>
            pc[a.client] \in IF a.answer = "lost" THEN {"left", "idle"} ELSE {"idle"}
  /\ \A a, b \in answers : a.client = b.client /\ a.call = b.call => a = b

StoredWellKeyed ==
  \A s, t \in stored :
    s = t \/ (ReplayKey(s.event) # ReplayKey(t.event) /\ Position(s.event) # Position(t.event))

IInv ==
  /\ TypeOK
  /\ AttemptsLeft
  /\ Sessions
  /\ IntentsExclusive
  /\ StoredWellKeyed
  /\ HistoryOfCalls
  /\ TrueMeansOwnRow
  /\ FalseMeansReplay
  /\ DefiniteErrorsLeaveNothing
  /\ DuplicateMeansPositionHeld

-----------------------------------------------------------------------------
(* The call as Ledger sees it. *)
Phase(c) ==
  CASE pc[c] = "idle" -> "idle"
    [] pc[c] = "left" -> "left"
    [] OTHER -> "called"

Promise == INSTANCE Ledger WITH
  open <- [c \in Client |-> [phase |-> Phase(c), call |-> call[c], event |-> event[c]]]

(* The store keeps the promise of Ledger: every step of connections,       *)
(* transactions, retries and crashes is one step of it or none.            *)
LedgerPromise == Promise!LedgerSpec
=============================================================================
