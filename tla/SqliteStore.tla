---------------------------- MODULE SqliteStore -----------------------------
(***************************************************************************)
(* SQLiteLedgerStore (store.py): processes that share one database file,   *)
(* each through the connection of its own store, statement by statement.   *)
(*                                                                         *)
(* Python opens a transaction before an INSERT and closes it in commit()   *)
(* or rollback().  append catches IntegrityError and nothing else, so an   *)
(* append that waited five seconds for another process's lock raises       *)
(* OperationalError with its transaction open.  The request handler builds *)
(* a store per request and drops it with the exception; a caller that      *)
(* keeps the store continues in that open transaction.                     *)
(*                                                                         *)
(* SQLite's locks are those of its rollback journal: any number of SHARED, *)
(* one RESERVED beside them, and PENDING, which lets no new SHARED in, for *)
(* a COMMIT that waits until the file is its own.  The table exists.       *)
(***************************************************************************)
EXTENDS LedgerRows, Functions

CONSTANTS Connection,  \* processes, each with one store at a time
          Keeping,     \* which of them may be those that keep a store that raised
          Event,       \* the events they append
          MaxCalls,    \* bound: the appends of one process
          MaxAppends   \* bound: the appends of all

ASSUME ConnectionAssumption == Connection # {}
ASSUME KeepingAssumption == Keeping \subseteq SUBSET Connection
ASSUME EventAssumption == Event # {}
ASSUME CallsAssumption == MaxCalls \in Nat \ {0}

VARIABLES
  kept,      \* the processes that go on with a store that raised
  stored,    \* the file's rows, each with the append that inserted it
  pending,   \* the rows of the open transaction
  begun,     \* a transaction is open
  lock,      \* the connection's lock on the file
  pc,        \* where the process is; "gone" is one that ended inside append
  call,      \* number and event of the last append
  answers    \* what finished appends told their callers

vars == <<kept, stored, pending, begun, lock, pc, call, answers>>
callVars == <<kept, call>>

Init ==
  /\ kept \in Keeping
  /\ stored = {}
  /\ pending = [c \in Connection |-> {}]
  /\ begun = [c \in Connection |-> FALSE]
  /\ lock = [c \in Connection |-> "none"]
  /\ pc = [c \in Connection |-> "closed"]
  /\ call = [c \in Connection |-> [number |-> 0, event |-> CHOOSE e \in Event : TRUE]]
  /\ answers = {}

Rows == {s.event : s \in stored}
Sees(c) == Rows \union {s.event : s \in pending[c]}
Tag(c) == [event |-> call[c].event, client |-> c, call |-> call[c].number]

Writing == {"reserved", "pending"}
Blocked(c, locks) == \E d \in Connection \ {c} : lock[d] \in locks

Move(c, from, to) == pc[c] = from /\ pc' = [pc EXCEPT ![c] = to]
Hold(c, level) == lock' = [lock EXCEPT ![c] = level]

(* The transaction ends and its locks are given back. *)
EndTransaction(c) ==
  /\ pending' = [pending EXCEPT ![c] = {}]
  /\ begun' = [begun EXCEPT ![c] = FALSE]
  /\ Hold(c, "none")

Answer(c, answer) ==
  answers' = answers \union
    {[client |-> c, call |-> call[c].number, event |-> call[c].event,
      answer |-> answer, keyed |-> KeyTaken(Rows, call[c].event)]}

(* Mutant of Raise: the handler keeps one store for all its requests.      *)
RaiseKept(c, from, level) ==
  /\ Answer(c, "locked")
  /\ Move(c, from, "ready") /\ Hold(c, level)
  /\ begun' = [begun EXCEPT ![c] = TRUE]
  /\ UNCHANGED <<stored, pending>> /\ UNCHANGED callVars

(* OperationalError: "database is locked".  A store that is dropped takes  *)
(* its connection and its transaction with it.                             *)
Raise(c, from, level) ==
  /\ Answer(c, "locked")
  /\ \/ /\ c \in kept
        /\ Move(c, from, "ready") /\ Hold(c, level)
        /\ begun' = [begun EXCEPT ![c] = TRUE]
        /\ UNCHANGED pending
     \/ c \notin kept /\ Move(c, from, "closed") /\ EndTransaction(c)
  /\ UNCHANGED stored /\ UNCHANGED callVars

(***************************************************************************)
(* The store and its callers.                                              *)
(***************************************************************************)

(* CREATE TABLE IF NOT EXISTS reads the schema. *)
Open(c) ==
  /\ ~Blocked(c, {"pending"})
  /\ Move(c, "closed", "ready")
  /\ UNCHANGED <<stored, pending, begun, lock, answers>> /\ UNCHANGED callVars

(* Mutant of Close: closing commits what is open. *)
CloseCommits(c) ==
  /\ pc[c] \in {"ready", "read"}
  /\ pc' = [pc EXCEPT ![c] = "closed"] /\ EndTransaction(c)
  /\ stored' = stored \union pending[c]
  /\ UNCHANGED answers /\ UNCHANGED callVars

(* close(), or the end of a process outside append. *)
Close(c) ==
  /\ pc[c] \in {"ready", "read"}
  /\ pc' = [pc EXCEPT ![c] = "closed"] /\ EndTransaction(c)
  /\ UNCHANGED <<stored, answers>> /\ UNCHANGED callVars

Appends == FoldFunction(LAMBDA last, sum : last.number + sum, 0, call)

Append(c, e) ==
  /\ call[c].number < MaxCalls /\ Appends < MaxAppends
  /\ Move(c, "ready", "insert")
  /\ call' = [call EXCEPT ![c] = [number |-> @.number + 1, event |-> e]]
  /\ UNCHANGED <<kept, stored, pending, begun, lock, answers>>

Insert(c) ==
  /\ ~Blocked(c, Writing)
  /\ Free(Sees(c), call[c].event)
  /\ Move(c, "insert", "commit")
  /\ pending' = [pending EXCEPT ![c] = @ \union {Tag(c)}]
  /\ begun' = [begun EXCEPT ![c] = TRUE]
  /\ Hold(c, IF lock[c] = "pending" THEN "pending" ELSE "reserved")
  /\ UNCHANGED <<stored, answers>> /\ UNCHANGED callVars

(* IntegrityError: rollback, whatever the transaction held. *)
InsertViolates(c) ==
  /\ ~Blocked(c, Writing)
  /\ ~Free(Sees(c), call[c].event)
  /\ Answer(c, "false")
  /\ Move(c, "insert", "ready") /\ EndTransaction(c)
  /\ UNCHANGED stored /\ UNCHANGED callVars

(* Mutant of InsertLocked: every error of SQLite counts as a replay. *)
InsertLockedIsFalse(c) ==
  /\ Blocked(c, Writing)
  /\ Answer(c, "false")
  /\ Move(c, "insert", "ready") /\ EndTransaction(c)
  /\ UNCHANGED stored /\ UNCHANGED callVars

(* Five seconds of another writer. *)
InsertLocked(c) == Blocked(c, Writing) /\ Raise(c, "insert", lock[c])

(* COMMIT lets no new reader in, and waits for those that are in. *)
AwaitReaders(c) ==
  /\ pc[c] = "commit" /\ lock[c] = "reserved"
  /\ Hold(c, "pending")
  /\ UNCHANGED <<stored, pending, begun, pc, answers>> /\ UNCHANGED callVars

(* Mutant of Commit: commit() is left out. *)
CommitForgotten(c) ==
  /\ lock[c] = "pending"
  /\ Move(c, "commit", "committed")
  /\ UNCHANGED <<stored, pending, begun, lock, answers>> /\ UNCHANGED callVars

Commit(c) ==
  /\ lock[c] = "pending" /\ ~Blocked(c, {"shared"})
  /\ Move(c, "commit", "committed") /\ EndTransaction(c)
  /\ stored' = stored \union pending[c]
  /\ UNCHANGED answers /\ UNCHANGED callVars

(* Five seconds of a reader. *)
CommitLocked(c) ==
  /\ lock[c] = "pending" /\ Blocked(c, {"shared"})
  /\ Raise(c, "commit", "pending")

Return(c) ==
  /\ Move(c, "committed", "ready")
  /\ Answer(c, "true")
  /\ UNCHANGED <<stored, pending, begun, lock>> /\ UNCHANGED callVars

(* search: a SELECT takes SHARED for as long as it runs, or for as long as *)
(* an open transaction lasts.  Behind a PENDING lock it raises in the end, *)
(* and changes nothing.                                                    *)
Search(c) ==
  /\ ~Blocked(c, {"pending"})
  /\ Move(c, "ready", "read")
  /\ Hold(c, IF lock[c] = "none" THEN "shared" ELSE lock[c])
  /\ UNCHANGED <<stored, pending, begun, answers>> /\ UNCHANGED callVars

FetchAll(c) ==
  /\ Move(c, "read", "ready")
  /\ Hold(c, IF begun[c] THEN lock[c] ELSE "none")
  /\ UNCHANGED <<stored, pending, begun, answers>> /\ UNCHANGED callVars

(* The process ends inside append; what it had not committed is rolled     *)
(* back by whoever opens the file next.                                    *)
Dies(c) ==
  /\ pc[c] \in {"insert", "commit", "committed"}
  /\ pc' = [pc EXCEPT ![c] = "gone"]
  /\ UNCHANGED <<stored, pending, begun, lock, answers>> /\ UNCHANGED callVars

Recover(c) ==
  /\ Move(c, "gone", "closed") /\ EndTransaction(c)
  /\ UNCHANGED <<stored, answers>> /\ UNCHANGED callVars

AppendStep(c) ==
  \/ Insert(c) \/ InsertViolates(c) \/ InsertLocked(c)
  \/ AwaitReaders(c) \/ Commit(c) \/ CommitLocked(c) \/ Return(c)

CallerStep(c) == Open(c) \/ Close(c) \/ Search(c) \/ \E e \in Event : Append(c, e)

Next ==
  \E c \in Connection : AppendStep(c) \/ CallerStep(c) \/ FetchAll(c) \/ Dies(c) \/ Recover(c)

Spec == Init /\ [][Next]_vars

(* A statement that can go on goes on or times out, and the locks of a     *)
(* process that ended are released.  Nobody has to call anything.          *)
Fairness ==
  \A c \in Connection : WF_vars(AppendStep(c)) /\ WF_vars(FetchAll(c)) /\ WF_vars(Recover(c))

FairSpec == Spec /\ Fairness

-----------------------------------------------------------------------------
(***************************************************************************)
(* Properties.                                                             *)
(***************************************************************************)

(* Whoever has uncommitted rows holds the one write lock, and those rows   *)
(* clash neither with the file nor with each other, over any number of     *)
(* appends that joined one transaction: a COMMIT cannot break a constraint *)
(* (store.py:34-35 and 41-61).                                             *)
WritesWellKeyed ==
  \A c \in Connection :
    /\ WellKeyed(Sees(c))
    /\ pending[c] # {} => lock[c] \in Writing /\ ~Blocked(c, Writing)

Said(answer) == {a \in answers : a.answer = answer}
IsCall(a, s) == a.client = s.client /\ a.call = s.call

(* True is told about a row that is in the file and stays there, and for   *)
(* one replay key once, whatever was locked, resent or killed in between   *)
(* (store.py:57-58).                                                       *)
TrueIsDurable ==
  \A a \in Said("true") :
    /\ \E s \in stored : IsCall(a, s) /\ s.event = a.event
    /\ \A b \in Said("true") : ReplayKey(a.event) = ReplayKey(b.event) => IsCall(a, b)

(* False means that the key or the position is taken in the file, with one *)
(* exception: to a caller that kept the store it may also mean that the    *)
(* row clashed with one that the same store had failed to commit, and both *)
(* are discarded.  So a retry of a locked append may be told that the row  *)
(* is there and leave nothing (store.py:59-61).                            *)
FalseIsExplained ==
  \A a \in Said("false") :
    \/ ~Free(Rows, a.event)
    \/ /\ a.client \in kept
       /\ \E b \in Said("locked") :
            b.client = a.client /\ b.call < a.call /\ ~Free({b.event}, a.event)

(* The row of an append that raised reaches the file only where the caller *)
(* kept the store, and then only together with the row of a later append   *)
(* of that store; otherwise it is gone for good (store.py:57-61).          *)
LockedRowsRide ==
  \A a \in Said("locked"), s \in stored :
    IsCall(a, s) =>
      /\ a.client \in kept
      /\ \E t \in stored : t.client = a.client /\ t.call > a.call

(* A store that is dropped when it raises holds no lock for ever, whatever *)
(* the others do; one that is kept may (store.py:20, lambda_handler.py:33).*)
LocksReleased ==
  \A c \in Connection : c \notin kept /\ lock[c] # "none" ~> lock[c] = "none"

(***************************************************************************)
(* What append promises, where no store outlives an exception: the same as *)
(* the cloud store's (Ledger), with other names for two answers.           *)
(***************************************************************************)

LedgerAnswer(a) ==
  IF a.answer = "locked" THEN "unreachable"
  ELSE IF a.answer = "false" /\ ~a.keyed THEN "23505"
  ELSE a.answer

InAppend == {"insert", "commit", "committed"}

Promise == INSTANCE Ledger WITH
  Client <- Connection,
  open <- [c \in Connection |->
             [phase |-> IF pc[c] \in InAppend THEN "called"
                        ELSE IF pc[c] = "gone" THEN "left" ELSE "idle",
              call |-> call[c].number, event |-> call[c].event]],
  answers <- {[client |-> a.client, call |-> a.call, event |-> a.event,
               answer |-> LedgerAnswer(a)] : a \in answers}

(* As long as every caller drops a store that raised, as the handler does, *)
(* each step of the store is a step of the abstract ledger: "locked" means *)
(* that nothing was stored, and False at a position another event holds is *)
(* the cloud store's 23505 (store.py:41-61).                               *)
DroppedStoresKeepPromise ==
  /\ Promise!LedgerInit
  /\ [][kept = {} => Promise!LedgerNext]_(Promise!ledgerVars)
=============================================================================
