----------------------- MODULE CockroachStore_proofs ------------------------
(***************************************************************************)
(* Proofs about CockroachStore, for every set of clients and events and    *)
(* every number of attempts and calls.                                     *)
(***************************************************************************)
EXTENDS CockroachStore, TLAPS

USE ClientAssumption, EventAssumption, AttemptsAssumption, MaxCallsAssumption

(* Typing needs one more fact: a client backs off only while attempts are  *)
(* left.                                                                   *)
LEMMA TypingStep ==
  ASSUME TypeOK, AttemptsLeft, [Next]_vars
  PROVE  TypeOK' /\ AttemptsLeft'
<1> USE DEF TypeOK, AttemptsLeft, InCall, Answered
<1>1. ASSUME UNCHANGED vars
      PROVE  TypeOK' /\ AttemptsLeft'
  BY <1>1 DEF vars
<1>2. ASSUME NEW c \in Client, NEW e \in Event, Append(c, e)
      PROVE  TypeOK' /\ AttemptsLeft'
  BY <1>2 DEF Append, Move
<1>3. ASSUME NEW c \in Client, Progress(c)
      PROVE  TypeOK' /\ AttemptsLeft'
  <2>1. CASE Connect(c)
    BY <2>1 DEF Connect, Move
  <2>2. CASE InsertRow(c)
    BY <2>2 DEF InsertRow, Move
  <2>3. CASE InsertNothing(c)
    BY <2>3 DEF InsertNothing, Move
  <2>4. CASE InsertDuplicate(c)
    BY <2>4 DEF InsertDuplicate, Move
  <2>5. CASE SendCommit(c)
    BY <2>5 DEF SendCommit, Move
  <2>6. CASE CommitReturns(c)
    <3>1. PICK answer \in Answered : Record(c, answer)
      BY <2>6 DEF CommitReturns
    <3>2. Move(c, "await", "idle") /\ Reset(c) /\ UNCHANGED <<call, event, attempt, stored>>
      BY <2>6 DEF CommitReturns
    <3>3. answers' \subseteq [client : Client, call : 0..MaxCalls, event : Event, answer : Answered]
      BY <3>1 DEF Record
    <3> QED
      BY <3>2, <3>3 DEF Move, Reset
  <2>7. CASE CommitAborted(c)
    BY <2>7 DEF CommitAborted, Move
  <2>8. CASE RollbackAndRetry(c)
    BY <2>8 DEF RollbackAndRetry, Retryable, Move, Reset
  <2>9. CASE RollbackAndRaise(c)
    BY <2>9 DEF RollbackAndRaise, Move, Record, Reset
  <2>10. CASE NextAttempt(c)
    BY <2>10 DEF NextAttempt, Move
  <2> QED
    BY <1>3, <2>1, <2>2, <2>3, <2>4, <2>5, <2>6, <2>7, <2>8, <2>9, <2>10 DEF Progress
<1>4. ASSUME NEW c \in Client, Fault(c)
      PROVE  TypeOK' /\ AttemptsLeft'
  <2>1. CASE ConnectFails(c)
    BY <2>1 DEF ConnectFails, Move, Record
  <2>2. CASE InsertAborted(c)
    BY <2>2 DEF InsertAborted, Move
  <2>3. CASE ConnectionLost(c)
    BY <2>3 DEF ConnectionLost
  <2>4. CASE RollbackFails(c)
    BY <2>4 DEF RollbackFails, Move, Record
  <2>5. CASE Crash(c)
    BY <2>5 DEF Crash
  <2> QED
    BY <1>4, <2>1, <2>2, <2>3, <2>4, <2>5 DEF Fault
<1>5. ASSUME NEW c \in Client, Server(c)
      PROVE  TypeOK' /\ AttemptsLeft'
  BY <1>5 DEF Server, ServerCommits, ServerAborts, Tag, HoldsIntent, clientVars
<1>6. ASSUME NEW c \in Client, SessionEnds(c)
      PROVE  TypeOK' /\ AttemptsLeft'
  BY <1>6 DEF SessionEnds, Move, Reset
<1> QED
  BY <1>1, <1>2, <1>3, <1>4, <1>5, <1>6 DEF Next

(* Every variable keeps its type: in particular no attempt is numbered     *)
(* beyond the parameter of run_with_serialization_retry.                   *)
THEOREM Typing == Spec => []TypeOK
<1>1. Init => TypeOK /\ AttemptsLeft
  BY DEF Init, TypeOK, AttemptsLeft, InCall
<1>2. TypeOK /\ AttemptsLeft /\ [Next]_vars => (TypeOK /\ AttemptsLeft)'
  BY TypingStep
<1> QED
  BY <1>1, <1>2, PTL DEF Spec

-----------------------------------------------------------------------------
(***************************************************************************)
(* What a step that leaves the table and the history alone preserves.      *)
(***************************************************************************)

(* The answers are judged by the rows alone. *)
LEMMA AnswersFrame ==
  ASSUME TrueMeansOwnRow, FalseMeansReplay, DefiniteErrorsLeaveNothing,
         DuplicateMeansPositionHeld, UNCHANGED <<stored, answers>>
  PROVE  (TrueMeansOwnRow /\ FalseMeansReplay /\ DefiniteErrorsLeaveNothing
            /\ DuplicateMeansPositionHeld)'
BY DEF TrueMeansOwnRow, FalseMeansReplay, DefiniteErrorsLeaveNothing, DuplicateMeansPositionHeld

(* Intents that are only given up cannot begin to clash. *)
LEMMA IntentsFrame ==
  ASSUME IntentsExclusive, UNCHANGED stored,
         \A d \in Client : HoldsIntent(d)' => HoldsIntent(d) /\ event'[d] = event[d]
  PROVE  IntentsExclusive'
<1>1. Rows' = Rows
  BY DEF Rows
<1>2. ASSUME NEW d \in Client, HoldsIntent(d)'
      PROVE  Free(Rows' \union Intents(d)', event'[d])
  <2>1. Free(Rows \union Intents(d), event[d]) /\ event'[d] = event[d]
    BY <1>2 DEF IntentsExclusive
  <2>2. Intents(d)' \subseteq Intents(d)
    BY DEF Intents
  <2> QED
    BY <1>1, <2>1, <2>2 DEF Free, KeyTaken, PositionTaken
<1> QED
  BY <1>2 DEF IntentsExclusive, Free, KeyTaken, PositionTaken

(* The table and its clashes change only where a row is stored.            *)
LEMMA RowsFrame ==
  ASSUME UNCHANGED stored
  PROVE  /\ Rows' = Rows
         /\ \A e : KeyTaken(Rows', e) <=> KeyTaken(Rows, e)
         /\ \A e : PositionTaken(Rows', e) <=> PositionTaken(Rows, e)
BY DEF Rows

(* One client moved; the others' sessions are as they were. *)
LEMMA SessionsFrame ==
  ASSUME Sessions, UNCHANGED stored, NEW c \in Client,
         \A d \in Client \ {c} :
           /\ pc'[d] = pc[d] /\ call'[d] = call[d] /\ event'[d] = event[d]
           /\ returned'[d] = returned[d] /\ error'[d] = error[d] /\ txn'[d] = txn[d],
         Session(c)', SessionRows(c)'
  PROVE  Sessions'
<1>1. Rows' = Rows
  BY DEF Rows
<1>2. ASSUME NEW d \in Client, d # c
      PROVE  Session(d)' /\ SessionRows(d)'
  BY <1>1, <1>2 DEF Sessions, Session, SessionRows, Tag, Stored, KeyTaken, PositionTaken
<1> QED
  BY <1>2 DEF Sessions

(* Client d begins a call or goes on with the one it has. *)
CallGoesOn(d) ==
  \/ call'[d] = call[d] + 1
  \/ /\ call'[d] = call[d]
     /\ pc[d] \in {"idle", "left"} => pc'[d] \in {pc[d], "idle"}

(* Calls are numbered upwards and a finished call stays finished. *)
LEMMA HistoryFrame ==
  ASSUME TypeOK, TypeOK', HistoryOfCalls, UNCHANGED <<stored, answers>>,
         \A d \in Client : CallGoesOn(d)
  PROVE  HistoryOfCalls'
BY DEF HistoryOfCalls, TypeOK, CallGoesOn

(* A call that ends with a definite answer, or is left with "lost". *)
LEMMA HistoryRecorded ==
  ASSUME TypeOK, TypeOK', HistoryOfCalls, NEW c \in Client, NEW answer, Record(c, answer),
         pc[c] \in InCall, pc' = [pc EXCEPT ![c] = IF answer = "lost" THEN "left" ELSE "idle"],
         UNCHANGED <<stored, call>>
  PROVE  HistoryOfCalls'
BY DEF HistoryOfCalls, TypeOK, Record, InCall

-----------------------------------------------------------------------------
(***************************************************************************)
(* The inductive step, first for three kinds of step and then for every    *)
(* action.                                                                 *)
(***************************************************************************)

(* Everything a step of client c leaves alone. *)
Alone(c) ==
  \A d \in Client \ {c} :
    /\ pc'[d] = pc[d] /\ call'[d] = call[d] /\ event'[d] = event[d]
    /\ returned'[d] = returned[d] /\ error'[d] = error[d] /\ txn'[d] = txn[d]

(* A step that neither writes a row, nor takes an intent, nor answers. *)
LEMMA QuietStep ==
  ASSUME IInv, TypeOK', AttemptsLeft', UNCHANGED <<stored, answers>>,
         NEW c \in Client, Alone(c),
         Session(c)', SessionRows(c)',
         HoldsIntent(c)' => HoldsIntent(c) /\ event'[c] = event[c],
         CallGoesOn(c)
  PROVE  IInv'
<1>1. Sessions'
  BY SessionsFrame DEF IInv, Alone
<1>2. IntentsExclusive'
  BY IntentsFrame DEF IInv, Alone, HoldsIntent
<1>3. StoredWellKeyed'
  BY DEF IInv, StoredWellKeyed
<1>4. HistoryOfCalls'
  <2>1. \A d \in Client : CallGoesOn(d)
    BY DEF Alone, CallGoesOn
  <2>2. TypeOK /\ HistoryOfCalls
    BY DEF IInv
  <2> QED
    BY <2>1, <2>2, HistoryFrame
<1>5. (TrueMeansOwnRow /\ FalseMeansReplay /\ DefiniteErrorsLeaveNothing
         /\ DuplicateMeansPositionHeld)'
  BY AnswersFrame DEF IInv
<1> QED
  BY <1>1, <1>2, <1>3, <1>4, <1>5 DEF IInv

(* An answer as the ledger's promise wants it. *)
HonestAnswer(c, answer) ==
  /\ answer = "true" => Tag(c) \in stored
  /\ answer = "false" => ~Stored(c) /\ KeyTaken(Rows, event[c])
  /\ answer = "23505" => ~Stored(c) /\ PositionTaken(Rows, event[c])
  /\ answer \in {"40001", "unreachable"} => ~Stored(c)

(* The step that ends a call. *)
LEMMA AnswerStep ==
  ASSUME IInv, TypeOK', AttemptsLeft', UNCHANGED <<stored, call, event>>,
         NEW c \in Client, Alone(c), NEW answer \in Answered,
         Record(c, answer), HonestAnswer(c, answer),
         Session(c)', SessionRows(c)', HoldsIntent(c)' => HoldsIntent(c),
         pc[c] \in InCall, pc' = [pc EXCEPT ![c] = IF answer = "lost" THEN "left" ELSE "idle"]
  PROVE  IInv'
<1>1. Sessions'
  BY SessionsFrame DEF IInv, Alone
<1>2. IntentsExclusive'
  BY IntentsFrame DEF IInv, Alone, HoldsIntent
<1>3. StoredWellKeyed'
  BY DEF IInv, StoredWellKeyed
<1>4. HistoryOfCalls'
  BY HistoryRecorded DEF IInv
<1>5. TrueMeansOwnRow'
  BY DEF IInv, TrueMeansOwnRow, Record, HonestAnswer, Tag
<1>6. FalseMeansReplay'
  <2>1. answer = "false" => \E s \in stored : ReplayKey(s.event) = ReplayKey(event[c])
    BY DEF HonestAnswer, KeyTaken, Rows
  <2> QED
    BY <2>1 DEF IInv, FalseMeansReplay, Record, HonestAnswer, Stored
<1>7. DefiniteErrorsLeaveNothing'
  BY DEF IInv, DefiniteErrorsLeaveNothing, Record, HonestAnswer, Stored
<1>8. DuplicateMeansPositionHeld'
  <2>1. answer = "23505" => \E s \in stored : Position(s.event) = Position(event[c])
    BY DEF HonestAnswer, PositionTaken, Rows
  <2> QED
    BY <2>1 DEF IInv, DuplicateMeansPositionHeld, Record
<1> QED
  BY <1>1, <1>2, <1>3, <1>4, <1>5, <1>6, <1>7, <1>8 DEF IInv

(* The step that makes an intent: it waited for all that it could clash    *)
(* with.                                                                   *)
LEMMA InsertRowStep ==
  ASSUME IInv, TypeOK', AttemptsLeft', NEW c \in Client, InsertRow(c)
  PROVE  IInv'
<1> USE DEF IInv, TypeOK
<1>1. Alone(c)
  BY DEF InsertRow, Move, Alone
<1>2. Sessions'
  <2>1. Rows' = Rows
    BY DEF InsertRow, Rows
  <2>2. Session(c)'
    BY DEF InsertRow, Move, Sessions, Session
  <2>3. SessionRows(c)'
    BY <2>1 DEF InsertRow, Move, Sessions, Session, SessionRows, Stored
  <2> QED
    BY <1>1, <2>2, <2>3, SessionsFrame DEF Alone, InsertRow
<1>3. IntentsExclusive'
  <2>1. Rows' = Rows
    BY DEF InsertRow, Rows
  <2>2. ASSUME NEW d \in Client, HoldsIntent(d)', d = c
        PROVE  Free(Rows' \union Intents(d)', event'[d])
    <3>1. Intents(c)' = Intents(c)
      BY DEF InsertRow, Intents, HoldsIntent
    <3> QED
      BY <2>1, <2>2, <3>1 DEF InsertRow
  <2>3. ASSUME NEW d \in Client, HoldsIntent(d)', d # c
        PROVE  Free(Rows' \union Intents(d)', event'[d])
    <3>1. HoldsIntent(d) /\ event'[d] = event[d]
      BY <2>3 DEF InsertRow, HoldsIntent
    <3>2. Free(Rows \union Intents(d), event[d])
      BY <3>1 DEF IntentsExclusive
    <3>3. Intents(d)' \subseteq Intents(d) \union {event[c]}
      BY DEF InsertRow, Intents, HoldsIntent
    <3>4. event[d] \in Intents(c)
      BY <2>3, <3>1 DEF Intents
    <3>5. ReplayKey(event[c]) # ReplayKey(event[d]) /\ Position(event[c]) # Position(event[d])
      BY <3>4 DEF InsertRow, Free, KeyTaken, PositionTaken
    <3> QED
      BY <2>1, <3>1, <3>2, <3>3, <3>5 DEF Free, KeyTaken, PositionTaken
  <2> QED
    BY <2>2, <2>3 DEF IntentsExclusive, Free, KeyTaken, PositionTaken
<1>4. StoredWellKeyed'
  BY DEF StoredWellKeyed, InsertRow
<1>5. HistoryOfCalls'
  <2>1. \A d \in Client : CallGoesOn(d)
    BY DEF InsertRow, Move, CallGoesOn
  <2> QED
    BY <2>1, HistoryFrame DEF InsertRow
<1>6. (TrueMeansOwnRow /\ FalseMeansReplay /\ DefiniteErrorsLeaveNothing
         /\ DuplicateMeansPositionHeld)'
  BY AnswersFrame DEF InsertRow
<1> QED
  BY <1>2, <1>3, <1>4, <1>5, <1>6

(* The step that makes a row of an intent. *)
LEMMA ServerCommitsStep ==
  ASSUME IInv, TypeOK', AttemptsLeft', NEW c \in Client, ServerCommits(c)
  PROVE  IInv'
<1> USE DEF IInv, TypeOK
<1>1. /\ stored' = stored \union {Tag(c)} /\ txn[c] = "sent" /\ txn'[c] = "committed"
      /\ \A d \in Client \ {c} : txn'[d] = txn[d]
      /\ UNCHANGED <<pc, call, event, attempt, returned, error, answers>>
  BY DEF ServerCommits, clientVars
<1>2. Rows' = Rows \union {event[c]}
  <2>1. Tag(c).event = event[c]
    BY DEF Tag
  <2> QED
    BY <1>1, <2>1 DEF Rows
<1>3. pc[c] # "idle" /\ Tag(c) \notin stored
  BY <1>1 DEF Sessions, Session, SessionRows, Stored, Tag
<1>4. Free(Rows \union Intents(c), event[c])
  BY <1>1 DEF IntentsExclusive, HoldsIntent
<1>5. Sessions'
  <2>1. ASSUME NEW d \in Client, d # c
        PROVE  Session(d)' /\ SessionRows(d)'
    <3>1. Session(d) /\ SessionRows(d)
      BY DEF Sessions
    <3>2. Stored(d)' <=> Stored(d)
      BY <1>1, <2>1 DEF Stored, Tag
    <3>3. Session(d)'
      BY <1>1, <2>1, <3>1 DEF Session
    <3> QED
      BY <1>1, <1>2, <2>1, <3>1, <3>2, <3>3 DEF SessionRows, KeyTaken, PositionTaken, Tag
  <2>2. Session(c)'
    BY <1>1 DEF Sessions, Session
  <2>3. SessionRows(c)'
    BY <1>1, <1>2 DEF Sessions, Session, SessionRows, KeyTaken, PositionTaken, Tag
  <2> QED
    BY <2>1, <2>2, <2>3 DEF Sessions
<1>6. IntentsExclusive'
  <2>1. ASSUME NEW d \in Client, HoldsIntent(d)'
        PROVE  Free(Rows' \union Intents(d)', event'[d])
    <3>1. d # c /\ HoldsIntent(d) /\ event'[d] = event[d]
      BY <1>1, <2>1 DEF HoldsIntent
    <3>2. Free(Rows \union Intents(d), event[d])
      BY <3>1 DEF IntentsExclusive
    <3>3. event[c] \in Intents(d)
      BY <1>1, <3>1 DEF Intents, HoldsIntent
    <3>4. Intents(d)' \subseteq Intents(d)
      BY <1>1 DEF Intents, HoldsIntent
    <3> QED
      BY <1>2, <3>1, <3>2, <3>3, <3>4 DEF Free, KeyTaken, PositionTaken
  <2> QED
    BY <2>1 DEF IntentsExclusive, Free, KeyTaken, PositionTaken
<1>7. StoredWellKeyed'
  <2>1. \A s \in stored : ReplayKey(s.event) # ReplayKey(event[c]) /\ Position(s.event) # Position(event[c])
    BY <1>4 DEF Free, KeyTaken, PositionTaken, Rows
  <2> QED
    BY <1>1, <2>1 DEF StoredWellKeyed, Tag
<1>8. HistoryOfCalls'
  BY <1>1 DEF HistoryOfCalls, Tag
<1>9. ASSUME NEW a \in answers, a.answer # "lost"
      PROVE  a.client # c \/ a.call # call[c]
  BY <1>3, <1>9 DEF HistoryOfCalls
<1>10. (TrueMeansOwnRow /\ DuplicateMeansPositionHeld)'
  BY <1>1 DEF TrueMeansOwnRow, DuplicateMeansPositionHeld
<1>11. FalseMeansReplay'
  BY <1>1, <1>9 DEF FalseMeansReplay, Tag
<1>12. DefiniteErrorsLeaveNothing'
  BY <1>1, <1>9 DEF DefiniteErrorsLeaveNothing, Tag
<1> QED
  BY <1>5, <1>6, <1>7, <1>8, <1>10, <1>11, <1>12

(* Every action preserves the invariant. *)
LEMMA InductiveStep ==
  ASSUME IInv, [Next]_vars
  PROVE  IInv'
<1> USE DEF IInv, TypeOK
<1>1. TypeOK' /\ AttemptsLeft'
  BY TypingStep
<1>2. ASSUME UNCHANGED vars
      PROVE  IInv'
  <2>1. PICK c \in Client : TRUE
    OBVIOUS
  <2>2. Alone(c) /\ CallGoesOn(c) /\ UNCHANGED <<stored, answers>>
    BY <1>2 DEF vars, Alone, CallGoesOn
  <2>3. Session(c)' /\ SessionRows(c)' /\ (HoldsIntent(c)' => HoldsIntent(c) /\ event'[c] = event[c])
    BY <1>2, RowsFrame DEF vars, Sessions, Session, SessionRows, Stored, Tag, HoldsIntent
  <2> QED
    BY <1>1, <2>2, <2>3, QuietStep
<1>3. ASSUME NEW c \in Client, NEW e \in Event, Append(c, e)
      PROVE  IInv'
  <2>1. Alone(c)
    BY <1>3 DEF Append, Move, Alone
  <2>2. Session(c)' /\ CallGoesOn(c) /\ UNCHANGED <<stored, answers>>
    BY <1>3 DEF Append, Move, Sessions, Session, CallGoesOn
  <2>3. SessionRows(c)'
    BY <1>3 DEF Append, Move, Sessions, Session, SessionRows, Stored, HistoryOfCalls
  <2>4. HoldsIntent(c)' => HoldsIntent(c) /\ event'[c] = event[c]
    BY <1>3 DEF Append, Move, Sessions, Session, HoldsIntent
  <2> QED
    BY <1>1, <2>1, <2>2, <2>3, <2>4, QuietStep
<1>4. ASSUME NEW c \in Client, Progress(c)
      PROVE  IInv'
  <2>1. CASE Connect(c)
    <3>1. Alone(c)
      BY <2>1 DEF Connect, Move, Alone
    <3>2. Session(c)' /\ CallGoesOn(c) /\ UNCHANGED <<stored, answers>>
      BY <2>1 DEF Connect, Move, Sessions, Session, CallGoesOn
    <3>3. SessionRows(c)'
      BY <2>1, <3>2, RowsFrame DEF Connect, Move, Sessions, Session, SessionRows, Stored, Tag
    <3>4. HoldsIntent(c)' => HoldsIntent(c) /\ event'[c] = event[c]
      BY <2>1 DEF Connect, Move, HoldsIntent
    <3> QED
      BY <1>1, <3>1, <3>2, <3>3, <3>4, QuietStep
  <2>2. CASE InsertRow(c)
    BY <1>1, <2>2, InsertRowStep
  <2>3. CASE InsertNothing(c)
    <3>1. Alone(c)
      BY <2>3 DEF InsertNothing, Move, Alone
    <3>2. Session(c)' /\ CallGoesOn(c) /\ UNCHANGED <<stored, answers>>
      BY <2>3 DEF InsertNothing, Move, Sessions, Session, CallGoesOn
    <3>3. SessionRows(c)'
      BY <2>3, <3>2, RowsFrame DEF InsertNothing, Move, Sessions, Session, SessionRows, Stored, Tag
    <3>4. HoldsIntent(c)' => HoldsIntent(c) /\ event'[c] = event[c]
      BY <2>3 DEF InsertNothing, Move, HoldsIntent
    <3> QED
      BY <1>1, <3>1, <3>2, <3>3, <3>4, QuietStep
  <2>4. CASE InsertDuplicate(c)
    <3>1. Alone(c)
      BY <2>4 DEF InsertDuplicate, Move, Alone
    <3>2. Session(c)' /\ CallGoesOn(c) /\ UNCHANGED <<stored, answers>>
      BY <2>4 DEF InsertDuplicate, Move, Sessions, Session, CallGoesOn
    <3>3. SessionRows(c)'
      BY <2>4, <3>2, RowsFrame DEF InsertDuplicate, Move, Sessions, Session, SessionRows, Stored, Tag
    <3>4. HoldsIntent(c)' => HoldsIntent(c) /\ event'[c] = event[c]
      BY <2>4 DEF InsertDuplicate, Move, HoldsIntent
    <3> QED
      BY <1>1, <3>1, <3>2, <3>3, <3>4, QuietStep
  <2>5. CASE SendCommit(c)
    <3>1. Alone(c)
      BY <2>5 DEF SendCommit, Move, Alone
    <3>2. Session(c)' /\ CallGoesOn(c) /\ UNCHANGED <<stored, answers>>
      BY <2>5 DEF SendCommit, Move, Sessions, Session, CallGoesOn
    <3>3. SessionRows(c)'
      BY <2>5, <3>2, RowsFrame DEF SendCommit, Move, Sessions, Session, SessionRows, Stored, Tag
    <3>4. HoldsIntent(c)' => HoldsIntent(c) /\ event'[c] = event[c]
      BY <2>5 DEF SendCommit, Move, HoldsIntent
    <3> QED
      BY <1>1, <3>1, <3>2, <3>3, <3>4, QuietStep
  <2>6. CASE CommitReturns(c)
    <3> DEFINE answer == IF returned[c] THEN "true" ELSE "false"
    <3>1. Alone(c) /\ UNCHANGED <<stored, call, event>>
      BY <2>6 DEF CommitReturns, Move, Reset, Alone
    <3>2. answer \in Answered /\ Record(c, answer)
      BY <2>6 DEF CommitReturns, Answered
    <3>3. HonestAnswer(c, answer)
      BY <2>6 DEF CommitReturns, Move, Sessions, Session, SessionRows, HonestAnswer
    <3>4. Session(c)' /\ (HoldsIntent(c)' => HoldsIntent(c))
      BY <2>6 DEF CommitReturns, Move, Reset, Sessions, Session, HoldsIntent
    <3>5. SessionRows(c)'
      BY <2>6, <3>1, RowsFrame DEF CommitReturns, Move, Reset, Sessions, Session, SessionRows, Stored, Tag
    <3>6. pc[c] \in InCall /\ pc' = [pc EXCEPT ![c] = IF answer = "lost" THEN "left" ELSE "idle"]
      BY <2>6 DEF CommitReturns, Move, InCall
    <3> HIDE DEF answer
    <3> QED
      BY <1>1, <3>1, <3>2, <3>3, <3>4, <3>5, <3>6, AnswerStep
  <2>7. CASE CommitAborted(c)
    <3>1. Alone(c)
      BY <2>7 DEF CommitAborted, Move, Alone
    <3>2. Session(c)' /\ CallGoesOn(c) /\ UNCHANGED <<stored, answers>>
      BY <2>7 DEF CommitAborted, Move, Sessions, Session, CallGoesOn
    <3>3. SessionRows(c)'
      BY <2>7, <3>2, RowsFrame DEF CommitAborted, Move, Sessions, Session, SessionRows, Stored, Tag
    <3>4. HoldsIntent(c)' => HoldsIntent(c) /\ event'[c] = event[c]
      BY <2>7 DEF CommitAborted, Move, HoldsIntent
    <3> QED
      BY <1>1, <3>1, <3>2, <3>3, <3>4, QuietStep
  <2>8. CASE RollbackAndRetry(c)
    <3>1. Alone(c)
      BY <2>8 DEF RollbackAndRetry, Move, Reset, Retryable, Alone
    <3>2. Session(c)' /\ CallGoesOn(c) /\ UNCHANGED <<stored, answers>>
      BY <2>8 DEF RollbackAndRetry, Move, Reset, Retryable, Sessions, Session, CallGoesOn
    <3>3. SessionRows(c)'
      BY <2>8, <3>2, RowsFrame DEF RollbackAndRetry, Move, Reset, Retryable, Sessions, Session, SessionRows, Stored, Tag
    <3>4. HoldsIntent(c)' => HoldsIntent(c) /\ event'[c] = event[c]
      BY <2>8 DEF RollbackAndRetry, Move, Reset, Retryable, HoldsIntent
    <3> QED
      BY <1>1, <3>1, <3>2, <3>3, <3>4, QuietStep
  <2>9. CASE RollbackAndRaise(c)
    <3> DEFINE answer == error[c]
    <3>1. Alone(c) /\ UNCHANGED <<stored, call, event>>
      BY <2>9 DEF RollbackAndRaise, Move, Reset, Alone
    <3>2. answer \in Answered /\ Record(c, answer)
      BY <2>9 DEF RollbackAndRaise, Answered
    <3>3. HonestAnswer(c, answer)
      BY <2>9 DEF RollbackAndRaise, Move, Sessions, Session, SessionRows, HonestAnswer
    <3>4. Session(c)' /\ (HoldsIntent(c)' => HoldsIntent(c))
      BY <2>9 DEF RollbackAndRaise, Move, Reset, Sessions, Session, HoldsIntent
    <3>5. SessionRows(c)'
      BY <2>9, <3>1, RowsFrame DEF RollbackAndRaise, Move, Reset, Sessions, Session, SessionRows, Stored, Tag
    <3>6. pc[c] \in InCall /\ pc' = [pc EXCEPT ![c] = IF answer = "lost" THEN "left" ELSE "idle"]
      BY <2>9 DEF RollbackAndRaise, Move, InCall
    <3> HIDE DEF answer
    <3> QED
      BY <1>1, <3>1, <3>2, <3>3, <3>4, <3>5, <3>6, AnswerStep
  <2>10. CASE NextAttempt(c)
    <3>1. Alone(c)
      BY <2>10 DEF NextAttempt, Move, Alone
    <3>2. Session(c)' /\ CallGoesOn(c) /\ UNCHANGED <<stored, answers>>
      BY <2>10 DEF NextAttempt, Move, Sessions, Session, CallGoesOn
    <3>3. SessionRows(c)'
      BY <2>10, <3>2, RowsFrame DEF NextAttempt, Move, Sessions, Session, SessionRows, Stored, Tag
    <3>4. HoldsIntent(c)' => HoldsIntent(c) /\ event'[c] = event[c]
      BY <2>10 DEF NextAttempt, Move, HoldsIntent
    <3> QED
      BY <1>1, <3>1, <3>2, <3>3, <3>4, QuietStep
  <2> QED
    BY <1>4, <2>1, <2>2, <2>3, <2>4, <2>5, <2>6, <2>7, <2>8, <2>9, <2>10 DEF Progress
<1>5. ASSUME NEW c \in Client, Fault(c)
      PROVE  IInv'
  <2>1. CASE ConnectFails(c)
    <3> DEFINE answer == "unreachable"
    <3>1. Alone(c) /\ UNCHANGED <<stored, call, event>>
      BY <2>1 DEF ConnectFails, Move, Alone
    <3>2. answer \in Answered /\ Record(c, answer)
      BY <2>1 DEF ConnectFails, Answered
    <3>3. HonestAnswer(c, answer)
      BY <2>1 DEF ConnectFails, Move, Sessions, Session, SessionRows, HonestAnswer
    <3>4. Session(c)' /\ (HoldsIntent(c)' => HoldsIntent(c))
      BY <2>1 DEF ConnectFails, Move, Sessions, Session, HoldsIntent
    <3>5. SessionRows(c)'
      BY <2>1, <3>1, RowsFrame DEF ConnectFails, Move, Sessions, Session, SessionRows, Stored, Tag
    <3>6. pc[c] \in InCall /\ pc' = [pc EXCEPT ![c] = IF answer = "lost" THEN "left" ELSE "idle"]
      BY <2>1 DEF ConnectFails, Move, InCall
    <3> HIDE DEF answer
    <3> QED
      BY <1>1, <3>1, <3>2, <3>3, <3>4, <3>5, <3>6, AnswerStep
  <2>2. CASE InsertAborted(c)
    <3>1. Alone(c)
      BY <2>2 DEF InsertAborted, Move, Alone
    <3>2. Session(c)' /\ CallGoesOn(c) /\ UNCHANGED <<stored, answers>>
      BY <2>2 DEF InsertAborted, Move, Sessions, Session, CallGoesOn
    <3>3. SessionRows(c)'
      BY <2>2, <3>2, RowsFrame DEF InsertAborted, Move, Sessions, Session, SessionRows, Stored, Tag
    <3>4. HoldsIntent(c)' => HoldsIntent(c) /\ event'[c] = event[c]
      BY <2>2 DEF InsertAborted, Move, HoldsIntent
    <3> QED
      BY <1>1, <3>1, <3>2, <3>3, <3>4, QuietStep
  <2>3. CASE ConnectionLost(c)
    <3>1. Alone(c)
      BY <2>3 DEF ConnectionLost, Alone
    <3>2. Session(c)' /\ CallGoesOn(c) /\ UNCHANGED <<stored, answers>>
      BY <2>3 DEF ConnectionLost, Sessions, Session, CallGoesOn
    <3>3. SessionRows(c)'
      BY <2>3, <3>2, RowsFrame DEF ConnectionLost, Sessions, Session, SessionRows, Stored, Tag
    <3>4. HoldsIntent(c)' => HoldsIntent(c) /\ event'[c] = event[c]
      BY <2>3 DEF ConnectionLost, HoldsIntent
    <3> QED
      BY <1>1, <3>1, <3>2, <3>3, <3>4, QuietStep
  <2>4. CASE RollbackFails(c)
    <3> DEFINE answer == "lost"
    <3>1. Alone(c) /\ UNCHANGED <<stored, call, event>>
      BY <2>4 DEF RollbackFails, Move, Alone
    <3>2. answer \in Answered /\ Record(c, answer)
      BY <2>4 DEF RollbackFails, Answered
    <3>3. HonestAnswer(c, answer)
      BY <2>4 DEF RollbackFails, Move, Sessions, Session, SessionRows, HonestAnswer
    <3>4. Session(c)' /\ (HoldsIntent(c)' => HoldsIntent(c))
      BY <2>4 DEF RollbackFails, Move, Sessions, Session, HoldsIntent
    <3>5. SessionRows(c)'
      BY <2>4, <3>1, RowsFrame DEF RollbackFails, Move, Sessions, Session, SessionRows, Stored, Tag
    <3>6. pc[c] \in InCall /\ pc' = [pc EXCEPT ![c] = IF answer = "lost" THEN "left" ELSE "idle"]
      BY <2>4 DEF RollbackFails, Move, InCall
    <3> HIDE DEF answer
    <3> QED
      BY <1>1, <3>1, <3>2, <3>3, <3>4, <3>5, <3>6, AnswerStep
  <2>5. CASE Crash(c)
    <3>1. Alone(c)
      BY <2>5 DEF Crash, InCall, Alone
    <3>2. Session(c)' /\ CallGoesOn(c) /\ UNCHANGED <<stored, answers>>
      BY <2>5 DEF Crash, InCall, Sessions, Session, CallGoesOn
    <3>3. SessionRows(c)'
      BY <2>5, <3>2, RowsFrame DEF Crash, InCall, Sessions, Session, SessionRows, Stored, Tag
    <3>4. HoldsIntent(c)' => HoldsIntent(c) /\ event'[c] = event[c]
      BY <2>5 DEF Crash, InCall, HoldsIntent
    <3> QED
      BY <1>1, <3>1, <3>2, <3>3, <3>4, QuietStep
  <2> QED
    BY <1>5, <2>1, <2>2, <2>3, <2>4, <2>5 DEF Fault
<1>6. ASSUME NEW c \in Client, Server(c)
      PROVE  IInv'
  <2>1. CASE ServerCommits(c)
    BY <1>1, <2>1, ServerCommitsStep
  <2>2. CASE ServerAborts(c)
    <3>1. Alone(c)
      BY <2>2 DEF ServerAborts, HoldsIntent, clientVars, Alone
    <3>2. Session(c)' /\ CallGoesOn(c) /\ UNCHANGED <<stored, answers>>
      BY <2>2 DEF ServerAborts, HoldsIntent, clientVars, Sessions, Session, CallGoesOn
    <3>3. SessionRows(c)'
      BY <2>2, <3>2, RowsFrame DEF ServerAborts, HoldsIntent, clientVars, Sessions, Session, SessionRows, Stored, Tag
    <3>4. HoldsIntent(c)' => HoldsIntent(c) /\ event'[c] = event[c]
      BY <2>2 DEF ServerAborts, HoldsIntent, clientVars, HoldsIntent
    <3> QED
      BY <1>1, <3>1, <3>2, <3>3, <3>4, QuietStep
  <2> QED
    BY <1>6, <2>1, <2>2 DEF Server
<1>7. ASSUME NEW c \in Client, SessionEnds(c)
      PROVE  IInv'
  <2>1. Alone(c)
    BY <1>7 DEF SessionEnds, Move, Reset, HoldsIntent, Alone
  <2>2. Session(c)' /\ CallGoesOn(c) /\ UNCHANGED <<stored, answers>>
    BY <1>7 DEF SessionEnds, Move, Reset, HoldsIntent, Sessions, Session, CallGoesOn
  <2>3. SessionRows(c)'
    BY <1>7, <2>2, RowsFrame DEF SessionEnds, Move, Reset, HoldsIntent, Sessions, Session, SessionRows, Stored, Tag
  <2>4. HoldsIntent(c)' => HoldsIntent(c) /\ event'[c] = event[c]
    BY <1>7 DEF SessionEnds, Move, Reset, HoldsIntent, HoldsIntent
  <2> QED
    BY <1>1, <2>1, <2>2, <2>3, <2>4, QuietStep
<1> QED
  BY <1>2, <1>3, <1>4, <1>5, <1>6, <1>7 DEF Next

(* The empty table satisfies the invariant.                                *)
LEMMA InductiveInit == Init => IInv
<1> SUFFICES ASSUME Init
             PROVE  IInv
  OBVIOUS
<1>1. TypeOK /\ AttemptsLeft
  BY DEF Init, TypeOK, AttemptsLeft, InCall
<1>2. Sessions
  BY DEF Init, Sessions, Session, SessionRows
<1>3. IntentsExclusive
  BY DEF Init, IntentsExclusive, HoldsIntent
<1>4. StoredWellKeyed /\ HistoryOfCalls
  BY DEF Init, StoredWellKeyed, HistoryOfCalls
<1>5. /\ TrueMeansOwnRow /\ FalseMeansReplay
      /\ DefiniteErrorsLeaveNothing /\ DuplicateMeansPositionHeld
  BY DEF Init, TrueMeansOwnRow, FalseMeansReplay, DefiniteErrorsLeaveNothing,
         DuplicateMeansPositionHeld
<1> QED
  BY <1>1, <1>2, <1>3, <1>4, <1>5 DEF IInv

(* It holds throughout, whatever append and its retries go through.        *)
LEMMA Invariance == Spec => []IInv
<1>1. IInv /\ [Next]_vars => IInv'
  BY InductiveStep
<1> QED
  BY <1>1, InductiveInit, PTL DEF Spec

-----------------------------------------------------------------------------
(***************************************************************************)
(* The properties.                                                         *)
(***************************************************************************)

(* However appends overlap, no two rows share a replay key or a position:  *)
(* an intent is made only where no row and no other intent stands, and a   *)
(* commit turns it into a row before anything else could take its place.   *)
THEOREM Uniqueness == Spec => []RowsWellKeyed
<1>1. IInv => RowsWellKeyed
  BY DEF IInv, StoredWellKeyed, RowsWellKeyed, WellKeyed, Rows
<1> QED
  BY <1>1, Invariance, PTL

(* A call that was told True inserted the row itself.                      *)
THEOREM TrueIsTrue == Spec => []TrueMeansOwnRow
<1>1. IInv => TrueMeansOwnRow
  BY DEF IInv
<1> QED
  BY <1>1, Invariance, PTL

(* A call that was told False met the row of another call, never of its    *)
(* own earlier attempt.                                                    *)
THEOREM FalseIsReplay == Spec => []FalseMeansReplay
<1>1. IInv => FalseMeansReplay
  BY DEF IInv
<1> QED
  BY <1>1, Invariance, PTL

(* At most one call is told that it inserted the row of a replay key: its  *)
(* own row bears its name, rows are unique and a call is answered once.    *)
THEOREM AtMostOnce == Spec => []OneTruePerKey
<1>1. IInv => OneTruePerKey
  BY DEF IInv, OneTruePerKey, TrueMeansOwnRow, StoredWellKeyed, HistoryOfCalls
<1> QED
  BY <1>1, Invariance, PTL

(* A call that raised a definite error left no row and never will: its     *)
(* transaction was aborted before it was answered.                         *)
THEOREM DefiniteErrors == Spec => []DefiniteErrorsLeaveNothing
<1>1. IInv => DefiniteErrorsLeaveNothing
  BY DEF IInv
<1> QED
  BY <1>1, Invariance, PTL

(* A call that raised 23505 met a row at the position of its event: rows   *)
(* are never taken away, and intents that end without a row only delay.    *)
THEOREM Duplicates == Spec => []DuplicateMeansPositionHeld
<1>1. IInv => DuplicateMeansPositionHeld
  BY DEF IInv
<1> QED
  BY <1>1, Invariance, PTL

-----------------------------------------------------------------------------
(***************************************************************************)
(* The refinement: every step of CockroachStore is one step of Ledger or   *)
(* none.                                                                   *)
(***************************************************************************)

Open == [c \in Client |-> [phase |-> Phase(c), call |-> call[c], event |-> event[c]]]

(* The table of the two modules is the same, and so is what they say of a  *)
(* call.                                                                   *)
LEMMA SamePromise ==
  ASSUME NEW c \in Client
  PROVE  /\ Promise!Rows = Rows
         /\ Promise!Stored(c) <=> Stored(c)
         /\ \A e : Promise!KeyTaken(Rows, e) <=> KeyTaken(Rows, e)
         /\ \A e : Promise!PositionTaken(Rows, e) <=> PositionTaken(Rows, e)
         /\ \A e : Promise!Free(Rows, e) <=> Free(Rows, e)
BY DEF Promise!Rows, Rows, Promise!Stored, Stored, Promise!KeyTaken, KeyTaken,
       Promise!PositionTaken, PositionTaken, Promise!Free, Free,
       Promise!ReplayKey, ReplayKey, Promise!Position, Position

(* A step that changes no phase, call, event, row or answer is none of     *)
(* Ledger's.                                                               *)
LEMMA StutterStep ==
  ASSUME UNCHANGED <<call, event, stored, answers>>, \A d \in Client : Phase(d)' = Phase(d)
  PROVE  UNCHANGED Promise!ledgerVars
BY DEF Promise!ledgerVars

(* A step that leaves its client's call as Ledger sees it is none there.   *)
LEMMA OneClientStutters ==
  ASSUME TypeOK, NEW c \in Client, NEW from, NEW to, Move(c, from, to),
         from \notin {"idle", "left"}, to \notin {"idle", "left"},
         UNCHANGED <<call, event, stored, answers>>
  PROVE  UNCHANGED Promise!ledgerVars
<1>1. \A d \in Client : Phase(d)' = Phase(d)
  BY DEF TypeOK, Move, Phase
<1> QED
  BY <1>1, StutterStep

(* An answer of append is an answer the promise allows. *)
LEMMA AnswerRefines ==
  ASSUME IInv, NEW c \in Client, NEW answer \in Answered, pc[c] \in InCall,
         pc' = [pc EXCEPT ![c] = IF answer = "lost" THEN "left" ELSE "idle"],
         UNCHANGED <<stored, call, event>>, Record(c, answer), HonestAnswer(c, answer)
  PROVE  Promise!Answer(c, answer)
<1> USE DEF IInv, TypeOK
<1>1. Phase(c) = "called" /\ Phase(c)' = IF answer = "lost" THEN "left" ELSE "idle"
  BY DEF Phase, InCall
<1>2. \A d \in Client \ {c} : Phase(d)' = Phase(d)
  BY DEF Phase
<1>3. Promise!Honest(c, answer)
  <2>1. Tag(c) \in stored => Stored(c)
    BY DEF Tag, Stored
  <2> QED
    BY <2>1, SamePromise DEF Promise!Honest, Promise!Definite, HonestAnswer, Answered
<1>4. answers' = answers \union
        {[client |-> c, call |-> Open[c].call, event |-> Open[c].event, answer |-> answer]}
  BY DEF Record, Open
<1>5. Open' = [Open EXCEPT ![c].phase = IF answer \in Promise!Definite THEN "idle" ELSE "left"]
  BY <1>1, <1>2 DEF Open, Promise!Definite, Answered
<1> QED
  BY <1>1, <1>3, <1>4, <1>5 DEF Promise!Answer, Open

(* Every step of the store is a step of the promise. *)
LEMMA RefinementStep ==
  ASSUME IInv, [Next]_vars
  PROVE  [Promise!LedgerNext]_(Promise!ledgerVars)
<1> USE DEF IInv, TypeOK
<1>1. CASE UNCHANGED vars
  BY <1>1, StutterStep DEF vars, Phase
<1>2. ASSUME NEW c \in Client, NEW e \in Event, Append(c, e)
      PROVE  Promise!Begin(c, e)
  <2>1. Phase(c) = "idle" /\ Phase(c)' = "called" /\ \A d \in Client \ {c} : Phase(d)' = Phase(d)
    BY <1>2 DEF Append, Move, Phase
  <2>2. Open' = [Open EXCEPT ![c] = [phase |-> "called", call |-> @.call + 1, event |-> e]]
    BY <1>2, <2>1 DEF Append, Open
  <2> QED
    BY <1>2, <2>1, <2>2 DEF Promise!Begin, Append, Open
<1>3. ASSUME NEW c \in Client, Progress(c)
      PROVE  [Promise!LedgerNext]_(Promise!ledgerVars)
  <2>1. CASE Connect(c)
    BY <2>1, OneClientStutters DEF Connect
  <2>2. CASE InsertRow(c)
    BY <2>2, OneClientStutters DEF InsertRow
  <2>3. CASE InsertNothing(c)
    BY <2>3, OneClientStutters DEF InsertNothing
  <2>4. CASE InsertDuplicate(c)
    BY <2>4, OneClientStutters DEF InsertDuplicate
  <2>5. CASE SendCommit(c)
    BY <2>5, OneClientStutters DEF SendCommit
  <2>6. CASE CommitReturns(c)
    <3>1. PICK answer \in {"true", "false"} : Record(c, answer) /\ HonestAnswer(c, answer)
      BY <2>6 DEF CommitReturns, Move, Sessions, Session, SessionRows, HonestAnswer
    <3>2. Promise!Answer(c, answer)
      BY <2>6, <3>1, AnswerRefines DEF CommitReturns, Move, InCall, Answered
    <3> QED
      BY <3>1, <3>2 DEF Promise!LedgerNext, Promise!Definite
  <2>7. CASE CommitAborted(c)
    BY <2>7, OneClientStutters DEF CommitAborted
  <2>8. CASE RollbackAndRetry(c)
    BY <2>8, OneClientStutters DEF RollbackAndRetry
  <2>9. CASE RollbackAndRaise(c)
    <3>1. PICK answer \in {"40001", "23505"} : Record(c, answer) /\ HonestAnswer(c, answer)
      BY <2>9 DEF RollbackAndRaise, Move, Sessions, Session, SessionRows, HonestAnswer
    <3>2. Promise!Answer(c, answer)
      BY <2>9, <3>1, AnswerRefines DEF RollbackAndRaise, Move, InCall, Answered
    <3> QED
      BY <3>1, <3>2 DEF Promise!LedgerNext, Promise!Definite
  <2>10. CASE NextAttempt(c)
    BY <2>10, OneClientStutters DEF NextAttempt
  <2> QED
    BY <1>3, <2>1, <2>2, <2>3, <2>4, <2>5, <2>6, <2>7, <2>8, <2>9, <2>10 DEF Progress
<1>4. ASSUME NEW c \in Client, Fault(c)
      PROVE  [Promise!LedgerNext]_(Promise!ledgerVars)
  <2>1. CASE ConnectFails(c)
    <3>1. Record(c, "unreachable") /\ HonestAnswer(c, "unreachable")
      BY <2>1 DEF ConnectFails, Move, Sessions, Session, SessionRows, HonestAnswer
    <3>2. Promise!Answer(c, "unreachable")
      BY <2>1, <3>1, AnswerRefines DEF ConnectFails, Move, InCall, Answered
    <3> QED
      BY <3>2 DEF Promise!LedgerNext, Promise!Definite
  <2>2. CASE InsertAborted(c)
    BY <2>2, OneClientStutters DEF InsertAborted
  <2>3. CASE ConnectionLost(c)
    <3>1. \A d \in Client : Phase(d)' = Phase(d)
      BY <2>3 DEF ConnectionLost, Phase
    <3> QED
      BY <2>3, <3>1, StutterStep DEF ConnectionLost
  <2>4. CASE RollbackFails(c)
    <3>1. Record(c, "lost") /\ HonestAnswer(c, "lost")
      BY <2>4 DEF RollbackFails, HonestAnswer
    <3>2. Promise!Answer(c, "lost")
      BY <2>4, <3>1, AnswerRefines DEF RollbackFails, Move, InCall, Answered
    <3> QED
      BY <3>2 DEF Promise!LedgerNext
  <2>5. CASE Crash(c)
    <3>1. Phase(c) = "called" /\ Phase(c)' = "left" /\ \A d \in Client \ {c} : Phase(d)' = Phase(d)
      BY <2>5 DEF Crash, InCall, Phase
    <3>2. Open' = [Open EXCEPT ![c].phase = "left"]
      BY <2>5, <3>1 DEF Crash, Open
    <3>3. Promise!Leave(c)
      BY <2>5, <3>1, <3>2 DEF Promise!Leave, Crash, Open
    <3> QED
      BY <3>3 DEF Promise!LedgerNext
  <2> QED
    BY <1>4, <2>1, <2>2, <2>3, <2>4, <2>5 DEF Fault
<1>5. ASSUME NEW c \in Client, Server(c)
      PROVE  [Promise!LedgerNext]_(Promise!ledgerVars)
  <2>1. CASE ServerCommits(c)
    <3>1. Phase(c) # "idle" /\ ~Stored(c)
      BY <2>1 DEF ServerCommits, Sessions, Session, SessionRows, Phase
    <3>2. Free(Rows, event[c])
      BY <2>1 DEF ServerCommits, IntentsExclusive, HoldsIntent, Free, KeyTaken, PositionTaken
    <3>3. stored' = stored \union {[event |-> Open[c].event, client |-> c, call |-> Open[c].call]}
      BY <2>1 DEF ServerCommits, Tag, Open
    <3>4. UNCHANGED <<Open, answers>>
      BY <2>1 DEF ServerCommits, clientVars, Open, Phase
    <3>5. Promise!Store(c)
      BY <3>1, <3>2, <3>3, <3>4, SamePromise DEF Promise!Store, Open
    <3> QED
      BY <3>5 DEF Promise!LedgerNext
  <2>2. CASE ServerAborts(c)
    BY <2>2, StutterStep DEF ServerAborts, clientVars, Phase
  <2> QED
    BY <1>5, <2>1, <2>2 DEF Server
<1>6. ASSUME NEW c \in Client, SessionEnds(c)
      PROVE  Promise!Forget(c)
  <2>1. Phase(c) = "left" /\ Phase(c)' = "idle" /\ \A d \in Client \ {c} : Phase(d)' = Phase(d)
    BY <1>6 DEF SessionEnds, Move, Phase
  <2>2. Open' = [Open EXCEPT ![c].phase = "idle"]
    BY <1>6, <2>1 DEF SessionEnds, Open
  <2> QED
    BY <1>6, <2>1, <2>2 DEF Promise!Forget, SessionEnds, Open
<1> QED
  BY <1>1, <1>2, <1>3, <1>4, <1>5, <1>6 DEF Next, Promise!LedgerNext

(* The store keeps the ledger's promise: whatever the connections,         *)
(* transactions, retries and crashes do, a call takes effect at most once, *)
(* at one instant, and its answer is honest about it.                      *)
THEOREM StoreKeepsPromise == Spec => LedgerPromise
<1>1. Init => Promise!LedgerInit
  BY DEF Init, Promise!LedgerInit, Phase
<1>2. IInv /\ [Next]_vars => [Promise!LedgerNext]_(Promise!ledgerVars)
  BY RefinementStep
<1> QED
  BY <1>1, <1>2, Invariance, PTL DEF Spec, LedgerPromise, Promise!LedgerSpec
=============================================================================
