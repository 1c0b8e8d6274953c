------------------------- MODULE SqliteStore_proofs -------------------------
(***************************************************************************)
(* Proofs about SqliteStore, for any processes, of which any may keep a    *)
(* store that raised, any events and any bounds.                           *)
(*                                                                         *)
(* The argument: one connection at a time holds a lock that writes, only   *)
(* its transaction has rows, and an INSERT into it looks at the file and   *)
(* at those rows, over however many appends they came together.            *)
(***************************************************************************)
EXTENDS SqliteStore, TLAPS

(* What is a function on the connections stays one.                        *)
Functional ==
  /\ DOMAIN pending = Connection
  /\ DOMAIN begun = Connection
  /\ DOMAIN lock = Connection
  /\ DOMAIN pc = Connection
  /\ DOMAIN call = Connection

(* Rows wait in an open transaction under the one lock that writes.        *)
OneWriter ==
  \A c \in Connection :
    /\ pending[c] # {} => lock[c] \in Writing /\ begun[c] = TRUE
    /\ \A d \in Connection : lock[c] \in Writing /\ lock[d] \in Writing => c = d

Apart(s, t) ==
  s = t \/ (ReplayKey(s.event) # ReplayKey(t.event) /\ Position(s.event) # Position(t.event))

(* The file and a transaction, row by row with the append that made it.    *)
RowsApart == \A c \in Connection : \A s, t \in stored \union pending[c] : Apart(s, t)

(* Between INSERT and the answer, the row is where append left it.         *)
OwnRow ==
  \A c \in Connection :
    /\ pc[c] = "commit" => Tag(c) \in pending[c]
    /\ pc[c] = "committed" => Tag(c) \in stored

-----------------------------------------------------------------------------
(***************************************************************************)
(* Every step inserts, commits, or is quiet.                               *)
(***************************************************************************)

(* A quiet step of a connection stores nothing: its transaction goes on    *)
(* under the same kind of lock, or is thrown away.                         *)
Quiet(c) ==
  /\ Functional'
  /\ stored' = stored
  /\ \A d \in Connection \ {c} :
       /\ pending'[d] = pending[d] /\ begun'[d] = begun[d] /\ lock'[d] = lock[d]
       /\ pc'[d] = pc[d] /\ call'[d] = call[d]
  /\ pending'[c] \in {pending[c], {}}
  /\ lock'[c] \in Writing => lock[c] \in Writing
  /\ pending'[c] # {} => lock'[c] \in Writing /\ begun'[c] = TRUE
  /\ pc'[c] \in {"commit", "committed"} =>
       pc'[c] = pc[c] /\ call'[c] = call[c] /\ pending'[c] = pending[c]

(* So is the end of a transaction without COMMIT.                          *)
LEMMA EndIsQuiet ==
  ASSUME Functional, NEW c \in Connection, EndTransaction(c), UNCHANGED <<stored, call>>,
         NEW from, NEW to, Move(c, from, to), to # "commit", to # "committed"
  PROVE  Quiet(c)
<1> USE DEF Functional, EndTransaction, Hold, Move
<1>1. pending'[c] = {} /\ lock'[c] = "none" /\ pc'[c] = to
  OBVIOUS
<1>2. Functional'
  OBVIOUS
<1>3. ASSUME NEW d \in Connection \ {c}
      PROVE  /\ pending'[d] = pending[d] /\ begun'[d] = begun[d] /\ lock'[d] = lock[d]
             /\ pc'[d] = pc[d] /\ call'[d] = call[d]
  OBVIOUS
<1> HIDE DEF EndTransaction, Hold, Move
<1> QED BY <1>1, <1>2, <1>3 DEF Quiet, Writing

(* And an append that gives up: its store is dropped, or kept as it is.    *)
LEMMA RaiseIsQuiet ==
  ASSUME Functional, OneWriter, NEW c \in Connection, NEW from, Raise(c, from, lock[c])
  PROVE  Quiet(c)
<1>1. CASE Move(c, from, "ready") /\ Hold(c, lock[c]) /\ begun' = [begun EXCEPT ![c] = TRUE]
           /\ UNCHANGED <<pending, stored, call>>
  BY <1>1 DEF Functional, OneWriter, Move, Hold, Quiet
<1>2. CASE Move(c, from, "closed") /\ EndTransaction(c) /\ UNCHANGED <<stored, call>>
  BY <1>2, EndIsQuiet
<1> QED BY <1>1, <1>2 DEF Raise, callVars

(* And everything else but INSERT and COMMIT.                              *)
LEMMA OthersAreQuiet ==
  ASSUME Functional, OneWriter, NEW c \in Connection
  PROVE  /\ Open(c) => Quiet(c)
         /\ Close(c) => Quiet(c)
         /\ \A e \in Event : Append(c, e) => Quiet(c)
         /\ InsertViolates(c) => Quiet(c)
         /\ InsertLocked(c) => Quiet(c)
         /\ AwaitReaders(c) => Quiet(c)
         /\ CommitLocked(c) => Quiet(c)
         /\ Return(c) => Quiet(c)
         /\ Search(c) => Quiet(c)
         /\ FetchAll(c) => Quiet(c)
         /\ Dies(c) => Quiet(c)
         /\ Recover(c) => Quiet(c)
<1> USE DEF callVars
<1>1. Open(c) => Quiet(c)
  BY DEF Open, Functional, Move, Hold, Quiet, OneWriter
<1>2. Close(c) => Quiet(c)
  <2>1. ASSUME Close(c), pc[c] = "ready" PROVE Quiet(c)
    <3> Move(c, "ready", "closed") /\ EndTransaction(c) /\ UNCHANGED <<stored, call>>
      BY <2>1 DEF Close, Move
    <3> QED BY EndIsQuiet
  <2>2. ASSUME Close(c), pc[c] = "read" PROVE Quiet(c)
    <3> Move(c, "read", "closed") /\ EndTransaction(c) /\ UNCHANGED <<stored, call>>
      BY <2>2 DEF Close, Move
    <3> QED BY EndIsQuiet
  <2> QED BY <2>1, <2>2 DEF Close
<1>3. ASSUME NEW e \in Event PROVE Append(c, e) => Quiet(c)
  BY DEF Append, Functional, Move, Hold, Quiet, OneWriter
<1>4. InsertViolates(c) => Quiet(c)
  BY EndIsQuiet DEF InsertViolates
<1>5. InsertLocked(c) => Quiet(c)
  BY RaiseIsQuiet DEF InsertLocked
<1>6. AwaitReaders(c) => Quiet(c)
  BY DEF AwaitReaders, Functional, Move, Hold, Quiet, OneWriter, Writing
<1>7. CommitLocked(c) => Quiet(c)
  BY RaiseIsQuiet DEF CommitLocked
<1>8. Return(c) => Quiet(c)
  BY DEF Return, Functional, Move, Hold, Quiet, OneWriter
<1>9. Search(c) => Quiet(c)
  BY DEF Search, Functional, Move, Hold, Quiet, OneWriter, Writing
<1>10. FetchAll(c) => Quiet(c)
  BY DEF FetchAll, Functional, Move, Hold, Quiet, OneWriter, Writing
<1>11. Dies(c) => Quiet(c)
  BY DEF Dies, Functional, Move, Hold, Quiet, OneWriter
<1>12. Recover(c) => Quiet(c)
  BY EndIsQuiet DEF Recover
<1> QED BY <1>1, <1>2, <1>3, <1>4, <1>5, <1>6, <1>7, <1>8, <1>9, <1>10, <1>11, <1>12

(* Which leaves two steps to look at (store.py:43-58).                     *)
LEMMA StepKinds ==
  ASSUME Functional, OneWriter, Next
  PROVE  \E c \in Connection : Insert(c) \/ Commit(c) \/ Quiet(c)
BY OthersAreQuiet DEF Next, AppendStep, CallerStep

-----------------------------------------------------------------------------
(***************************************************************************)
(* One writer, rows apart, and every append's row in its place.            *)
(***************************************************************************)

StoreInv == Functional /\ OneWriter /\ RowsApart /\ OwnRow

(* A quiet step has nothing to break.                                      *)
LEMMA QuietKeeps ==
  ASSUME StoreInv, NEW c \in Connection, Quiet(c)
  PROVE  StoreInv'
<1>1. OneWriter'
  BY DEF StoreInv, OneWriter, Quiet
<1>2. RowsApart'
  BY DEF StoreInv, RowsApart, Quiet, Apart
<1>3. OwnRow'
  BY DEF StoreInv, OwnRow, Quiet, Tag
<1> QED BY <1>1, <1>2, <1>3 DEF StoreInv, Quiet

(* INSERT looks at the file and at the rows before it in its transaction.  *)
LEMMA InsertKeeps ==
  ASSUME StoreInv, NEW c \in Connection, Insert(c)
  PROVE  StoreInv'
<1> USE DEF StoreInv, Insert, Move, Hold, callVars
<1>1. Functional'
  BY DEF Functional
<1>2. OneWriter'
  BY DEF OneWriter, Functional, Writing, Blocked
<1>3. RowsApart'
  <2>1. \A s \in stored \union pending[c] : Apart(s, Tag(c)) /\ Apart(Tag(c), s)
    BY DEF Free, KeyTaken, PositionTaken, Sees, Rows, Tag, Apart
  <2>2. pending'[c] = pending[c] \union {Tag(c)} /\ stored' = stored
    BY DEF Functional
  <2>3. \A d \in Connection \ {c} : pending'[d] = pending[d]
    BY DEF Functional
  <2>4. ASSUME NEW s, NEW t, s \in stored \union {Tag(c)} \union pending[c],
               t \in stored \union {Tag(c)} \union pending[c]
        PROVE  Apart(s, t)
    <3>1. CASE s = t
      BY <3>1 DEF Apart
    <3>2. CASE s # t
      BY <3>2, <2>1, <2>4 DEF RowsApart
    <3> QED BY <3>1, <3>2
  <2>5. ASSUME NEW d \in Connection, d # c, NEW s \in stored \union pending[d],
               NEW t \in stored \union pending[d]
        PROVE  Apart(s, t)
    BY DEF RowsApart
  <2> HIDE DEF Insert
  <2> QED BY <2>2, <2>3, <2>4, <2>5 DEF RowsApart, Apart
<1>4. OwnRow'
  BY DEF OwnRow, Functional, Tag
<1> QED BY <1>1, <1>2, <1>3, <1>4

(* COMMIT finds that nobody else has any rows to commit.                   *)
LEMMA CommitKeeps ==
  ASSUME StoreInv, NEW c \in Connection, Commit(c)
  PROVE  StoreInv'
<1> USE DEF StoreInv, Commit, Move, Hold, EndTransaction, callVars
<1>1. Functional'
  BY DEF Functional
<1>2. OneWriter'
  BY DEF OneWriter, Functional, Writing
<1>3. RowsApart'
  <2>1. \A d \in Connection : pending'[d] = {}
    BY DEF OneWriter, Functional, Writing
  <2> QED BY <2>1 DEF RowsApart, Apart
<1>4. OwnRow'
  BY DEF OwnRow, Functional, Tag
<1> QED BY <1>1, <1>2, <1>3, <1>4

(* So the invariant holds throughout.                                      *)
LEMMA StoreInvariant == Spec => []StoreInv
<1>1. Init => StoreInv
  BY DEF Init, StoreInv, Functional, OneWriter, Writing, RowsApart, Apart, OwnRow
<1>2. StoreInv /\ [Next]_vars => StoreInv'
  <2> SUFFICES ASSUME StoreInv, [Next]_vars PROVE StoreInv'
    OBVIOUS
  <2>1. CASE Next
    BY <2>1, StepKinds, QuietKeeps, InsertKeeps, CommitKeeps DEF StoreInv
  <2>2. CASE UNCHANGED vars
    BY <2>2 DEF vars, StoreInv, Functional, OneWriter, RowsApart, Apart, OwnRow, Tag
  <2> QED BY <2>1, <2>2
<1> QED BY <1>1, <1>2, PTL DEF Spec

-----------------------------------------------------------------------------
(***************************************************************************)
(* The theorems.                                                           *)
(***************************************************************************)

(* However many processes share the file, and whichever keep a store that  *)
(* raised: only the holder of the write lock has uncommitted rows, and     *)
(* none of them can clash at COMMIT (store.py:34-35 and 41-61).            *)
THEOREM KeyedWrites == Spec => []WritesWellKeyed
<1>1. ASSUME StoreInv PROVE WritesWellKeyed
  <2>1. ASSUME NEW c \in Connection PROVE WellKeyed(Sees(c))
    BY <1>1 DEF StoreInv, RowsApart, Apart, WellKeyed, Sees, Rows
  <2>2. ASSUME NEW c \in Connection, pending[c] # {}
        PROVE  lock[c] \in Writing /\ ~Blocked(c, Writing)
    BY <1>1, <2>2 DEF StoreInv, OneWriter, Blocked
  <2> QED BY <2>1, <2>2 DEF WritesWellKeyed
<1> QED BY <1>1, StoreInvariant, PTL

(* The row of every append that returned True.                             *)
TrueHasRow == \A a \in Said("true") : \E s \in stored : IsCall(a, s) /\ s.event = a.event

(* What is stored stays, and only Return says True.                        *)
LEMMA TrueHasRowStep ==
  ASSUME StoreInv, TrueHasRow, [Next]_vars
  PROVE  TrueHasRow'
<1>1. stored \subseteq stored'
  <2>1. CASE Next
    <3>1. PICK c \in Connection : Insert(c) \/ Commit(c) \/ Quiet(c)
      BY <2>1, StepKinds DEF StoreInv
    <3> QED BY <3>1 DEF Insert, Commit, Quiet
  <2> QED BY <2>1 DEF vars
<1>2. ASSUME Said("true")' \subseteq Said("true")
      PROVE  TrueHasRow'
  BY <1>1, <1>2 DEF TrueHasRow
<1>3. ASSUME NEW c \in Connection, Return(c)
      PROVE  TrueHasRow'
  <2>1. Tag(c) \in stored
    BY <1>3 DEF StoreInv, OwnRow, Return, Move
  <2>2. ASSUME NEW a \in Said("true")', a \notin answers
        PROVE  IsCall(a, Tag(c)) /\ Tag(c).event = a.event
    BY <1>3, <2>2 DEF Return, Answer, Said, IsCall, Tag
  <2>3. ASSUME NEW a \in Said("true")', a \in answers
        PROVE  a \in Said("true")
    BY <2>3 DEF Said
  <2> QED BY <1>1, <2>1, <2>2, <2>3 DEF TrueHasRow
<1>4. ASSUME NEW c \in Connection, InsertViolates(c)
      PROVE  Said("true")' \subseteq Said("true")
  BY <1>4 DEF InsertViolates, Answer, Said
<1>5. ASSUME NEW c \in Connection, InsertLocked(c) \/ CommitLocked(c)
      PROVE  Said("true")' \subseteq Said("true")
  BY <1>5 DEF InsertLocked, CommitLocked, Raise, Answer, Said
<1>6. ASSUME UNCHANGED answers PROVE Said("true")' \subseteq Said("true")
  BY <1>6 DEF Said
<1>7. ASSUME NEW c \in Connection,
             Insert(c) \/ AwaitReaders(c) \/ Commit(c) \/ CallerStep(c) \/ FetchAll(c)
               \/ Dies(c) \/ Recover(c)
      PROVE  UNCHANGED answers
  BY <1>7 DEF Insert, AwaitReaders, Commit, CallerStep, Open, Close, Search, Append, FetchAll,
              Dies, Recover
<1>8. CASE Next
  BY <1>8, <1>2, <1>3, <1>4, <1>5, <1>6, <1>7 DEF Next, AppendStep
<1>9. CASE UNCHANGED vars
  BY <1>9, <1>2, <1>6 DEF vars
<1> QED BY <1>8, <1>9

(* However many processes share the file, whichever keep a store that      *)
(* raised, and whoever is killed: True is told about a row that is in the  *)
(* file, and once for a replay key (store.py:57-58).                       *)
THEOREM TrueStays == Spec => []TrueIsDurable
<1>1. Init => TrueHasRow
  BY DEF Init, TrueHasRow, Said
<1>2. StoreInv /\ TrueHasRow /\ [Next]_vars => TrueHasRow'
  BY TrueHasRowStep
<1>3. ASSUME StoreInv, TrueHasRow PROVE TrueIsDurable
  <2> SUFFICES ASSUME NEW a \in Said("true"), NEW b \in Said("true"),
                      ReplayKey(a.event) = ReplayKey(b.event)
               PROVE  IsCall(a, b)
    BY <1>3 DEF TrueHasRow, TrueIsDurable
  <2>1. PICK s \in stored : IsCall(a, s) /\ s.event = a.event
    BY <1>3 DEF TrueHasRow
  <2>2. PICK t \in stored : IsCall(b, t) /\ t.event = b.event
    BY <1>3 DEF TrueHasRow
  <2>3. Apart(s, t)
    BY <1>3, ConnectionAssumption DEF StoreInv, RowsApart
  <2> QED BY <2>1, <2>2, <2>3 DEF Apart, IsCall
<1> QED BY <1>1, <1>2, <1>3, StoreInvariant, PTL DEF Spec

-----------------------------------------------------------------------------
(***************************************************************************)
(* The rows of appends that raised.                                        *)
(***************************************************************************)

(* Appends are numbered; what is stored or was told is of an append that   *)
(* was called, and of an earlier one while the next is at work.            *)
Numbered ==
  /\ \A c \in Connection : call[c].number \in Nat
  /\ \A s \in stored :
       /\ s.client \in Connection /\ s.call \in Nat /\ s.call <= call[s.client].number
       /\ pc[s.client] \in {"insert", "commit"} => s.call < call[s.client].number
  /\ \A a \in Said("locked") :
       /\ a.client \in Connection /\ a.call \in Nat /\ a.call <= call[a.client].number
       /\ pc[a.client] \in {"insert", "commit", "committed"} => a.call < call[a.client].number

WasLocked(s) == \E b \in Said("locked") : IsCall(b, s) /\ b.event = s.event

(* A row that waits is the one of the append at work, or of an append that *)
(* raised in a store that was kept.                                        *)
WaitingExplained ==
  \A c \in Connection : \A s \in pending[c] :
    /\ s.client = c /\ s.call \in Nat
    /\ \/ pc[c] \in {"commit", "gone"} /\ s = Tag(c)
       \/ c \in kept /\ WasLocked(s) /\ s.call <= call[c].number

History == Numbered /\ WaitingExplained

(* Raising: the number is told, and what waits is told with it.            *)
LEMMA RaiseKeepsHistory ==
  ASSUME StoreInv, History, NEW c \in Connection, NEW from \in {"insert", "commit"},
         Raise(c, from, lock[c])
  PROVE  History'
<1>1. /\ pc[c] = from /\ UNCHANGED <<kept, call, stored>>
      /\ pc'[c] \in {"ready", "closed"}
      /\ \A d \in Connection \ {c} : pc'[d] = pc[d] /\ pending'[d] = pending[d]
      /\ pending'[c] = {} \/ (c \in kept /\ pending'[c] = pending[c])
  BY DEF Raise, Move, EndTransaction, StoreInv, Functional, callVars
<1> DEFINE told == [client |-> c, call |-> call[c].number, event |-> call[c].event,
                    answer |-> "locked", keyed |-> KeyTaken(Rows, call[c].event)]
<1>2. /\ answers' = answers \union {told}
      /\ told.client = c /\ told.call = call[c].number
      /\ told.event = call[c].event /\ told.answer = "locked"
  BY DEF Raise, Answer
<1> HIDE DEF told
<1>3. Said("locked")' = Said("locked") \union {told}
  BY <1>2 DEF Said
<1>4. Numbered'
  BY <1>1, <1>2, <1>3 DEF History, Numbered
<1>5. ASSUME NEW s, WasLocked(s) PROVE WasLocked(s)'
  BY <1>3, <1>5 DEF WasLocked, IsCall
<1>6. WasLocked(Tag(c))'
  <2>1. Tag(c)'.client = c /\ Tag(c)'.call = call[c].number /\ Tag(c)'.event = call[c].event
    BY <1>1 DEF Tag
  <2> QED BY <1>2, <1>3, <2>1 DEF WasLocked, IsCall
<1>7. ASSUME NEW d \in Connection, NEW s \in pending'[d]
      PROVE  /\ s.client = d /\ s.call \in Nat
             /\ \/ pc'[d] \in {"commit", "gone"} /\ s = Tag(d)'
                \/ d \in kept' /\ WasLocked(s)' /\ s.call <= call'[d].number
  <2>1. s \in pending[d]
    BY <1>1, <1>7
  <2>2. CASE d # c
    BY <2>1, <2>2, <1>1, <1>5 DEF History, WaitingExplained, Tag
  <2>3. CASE d = c /\ s = Tag(c)
    BY <2>1, <2>3, <1>1, <1>6, <1>7 DEF History, Numbered, Tag
  <2>4. CASE d = c /\ s # Tag(c)
    BY <2>1, <2>4, <1>1, <1>5, <1>7 DEF History, WaitingExplained
  <2> QED BY <2>2, <2>3, <2>4
<1>8. WaitingExplained'
  BY <1>7 DEF WaitingExplained
<1> QED BY <1>4, <1>8 DEF History

(* A step that tells nobody "locked" and calls nothing.                    *)
LEMMA HistoryElsewhere ==
  ASSUME StoreInv, History, NEW c \in Connection,
         UNCHANGED <<kept, call, stored>>, Said("locked")' = Said("locked"),
         \A d \in Connection \ {c} : pc'[d] = pc[d] /\ pending'[d] = pending[d],
         pending'[c] \in {pending[c], {}},
         pc'[c] = pc[c] \/ pc'[c] \notin {"insert", "commit", "committed"},
         pc'[c] = pc[c] \/ pc[c] # "commit" \/ pending'[c] = {} \/ pc'[c] = "gone",
         pc'[c] = pc[c] \/ pc[c] # "gone" \/ pending'[c] = {}
  PROVE  History'
<1>1. Numbered'
  BY DEF History, Numbered
<1>2. WaitingExplained'
  BY DEF History, WaitingExplained, WasLocked, Tag
<1> QED BY <1>1, <1>2 DEF History

(* The number of a new append is above all that was stored or told.        *)
LEMMA AppendKeepsHistory ==
  ASSUME StoreInv, History, NEW c \in Connection, NEW e \in Event, Append(c, e)
  PROVE  History'
<1>1. /\ UNCHANGED <<kept, stored, pending, answers>>
      /\ pc[c] = "ready" /\ pc'[c] = "insert" /\ call'[c].number = call[c].number + 1
      /\ \A d \in Connection \ {c} : pc'[d] = pc[d] /\ call'[d] = call[d]
  BY DEF Append, Move, StoreInv, Functional
<1>2. Said("locked")' = Said("locked")
  BY <1>1 DEF Said
<1>3. Numbered'
  BY <1>1, <1>2 DEF History, Numbered
<1>4. WaitingExplained'
  BY <1>1, <1>2 DEF History, Numbered, WaitingExplained, WasLocked, Tag
<1> QED BY <1>3, <1>4 DEF History

(* The row waits as that of the append at work.                            *)
LEMMA InsertKeepsHistory ==
  ASSUME StoreInv, History, NEW c \in Connection, Insert(c)
  PROVE  History'
<1>1. /\ UNCHANGED <<kept, call, stored, answers>>
      /\ pc[c] = "insert" /\ pc'[c] = "commit" /\ pending'[c] = pending[c] \union {Tag(c)}
      /\ \A d \in Connection \ {c} : pc'[d] = pc[d] /\ pending'[d] = pending[d]
  BY DEF Insert, Move, StoreInv, Functional, callVars
<1>2. Said("locked")' = Said("locked")
  BY <1>1 DEF Said
<1>3. Numbered'
  BY <1>1, <1>2 DEF History, Numbered
<1>4. Tag(c)' = Tag(c) /\ Tag(c).client = c /\ Tag(c).call \in Nat
  BY <1>1 DEF Tag, History, Numbered
<1>5. WaitingExplained'
  BY <1>1, <1>2, <1>4 DEF History, WaitingExplained, WasLocked, Tag
<1> QED BY <1>3, <1>5 DEF History

(* And is stored under the number of its append.                           *)
LEMMA CommitKeepsHistory ==
  ASSUME StoreInv, History, NEW c \in Connection, Commit(c)
  PROVE  History'
<1>1. /\ UNCHANGED <<kept, call, answers>> /\ stored' = stored \union pending[c]
      /\ pc[c] = "commit" /\ pc'[c] = "committed" /\ pending'[c] = {}
      /\ \A d \in Connection \ {c} : pc'[d] = pc[d] /\ pending'[d] = pending[d]
  BY DEF Commit, Move, EndTransaction, StoreInv, Functional, callVars
<1>2. Said("locked")' = Said("locked")
  BY <1>1 DEF Said
<1>3. \A s \in pending[c] : s.client = c /\ s.call \in Nat /\ s.call <= call[c].number
  BY DEF History, Numbered, WaitingExplained, Tag
<1>4. Numbered'
  BY <1>1, <1>2, <1>3 DEF History, Numbered
<1>5. WaitingExplained'
  BY <1>1, <1>2 DEF History, WaitingExplained, WasLocked, Tag
<1> QED BY <1>4, <1>5 DEF History

(* Every step.                                                             *)
LEMMA HistoryStep ==
  ASSUME StoreInv, History, [Next]_vars
  PROVE  History'
<1>1. CASE UNCHANGED vars
  BY <1>1 DEF vars, History, Numbered, WaitingExplained, WasLocked, Said, Tag, IsCall
<1>2. ASSUME NEW c \in Connection, InsertLocked(c) PROVE History'
  BY <1>2, RaiseKeepsHistory DEF InsertLocked
<1>3. ASSUME NEW c \in Connection, CommitLocked(c) PROVE History'
  BY <1>3, RaiseKeepsHistory DEF CommitLocked
<1>4. ASSUME NEW c \in Connection, InsertViolates(c) PROVE History'
  <2>1. Said("locked")' = Said("locked")
    BY <1>4 DEF InsertViolates, Answer, Said
  <2> QED BY <1>4, <2>1, HistoryElsewhere
          DEF InsertViolates, Move, EndTransaction, StoreInv, Functional, callVars
<1>5. ASSUME NEW c \in Connection, Return(c) PROVE History'
  <2>1. Said("locked")' = Said("locked")
    BY <1>5 DEF Return, Answer, Said
  <2> QED BY <1>5, <2>1, HistoryElsewhere DEF Return, Move, StoreInv, Functional, callVars
<1>6. ASSUME NEW c \in Connection, UNCHANGED answers,
             Open(c) \/ Search(c) \/ FetchAll(c) \/ Dies(c) \/ AwaitReaders(c)
      PROVE  History'
  <2>1. Said("locked")' = Said("locked")
    BY <1>6 DEF Said
  <2> QED BY <1>6, <2>1, HistoryElsewhere
          DEF Open, Search, FetchAll, Dies, AwaitReaders, Move, StoreInv, Functional, callVars
<1>7. ASSUME NEW c \in Connection, Close(c) \/ Recover(c) PROVE History'
  <2>1. Said("locked")' = Said("locked")
    BY <1>7 DEF Close, Recover, Said
  <2> QED BY <1>7, <2>1, HistoryElsewhere
          DEF Close, Recover, Move, EndTransaction, StoreInv, Functional, callVars
<1>8. ASSUME NEW c \in Connection,
             Open(c) \/ Search(c) \/ FetchAll(c) \/ Dies(c) \/ AwaitReaders(c)
      PROVE  History'
  <2>1. UNCHANGED answers
    BY <1>8 DEF Open, Search, FetchAll, Dies, AwaitReaders
  <2> QED BY <1>6, <1>8, <2>1
<1>9. CASE Next
  BY <1>9, <1>2, <1>3, <1>4, <1>5, <1>7, <1>8, AppendKeepsHistory, InsertKeepsHistory,
     CommitKeepsHistory DEF Next, AppendStep, CallerStep
<1> QED BY <1>1, <1>9

(* So the history is told as it was throughout.                            *)
LEMMA Histories == Spec => [](StoreInv /\ History)
<1>1. Init => History
  BY DEF Init, History, Numbered, WaitingExplained, Said
<1>2. StoreInv /\ History /\ [Next]_vars => History'
  BY HistoryStep
<1> QED BY <1>1, <1>2, StoreInvariant, PTL DEF Spec

(* What each step adds to the file and to what was told.                   *)
LEMMA WhatStepsTell ==
  ASSUME StoreInv, [Next]_vars
  PROVE  /\ UNCHANGED kept /\ stored \subseteq stored' /\ answers \subseteq answers'
         /\ stored' # stored => UNCHANGED answers /\ \E c \in Connection : Commit(c)
         /\ \A a \in answers' \ answers : \E c \in Connection :
              /\ a.client = c /\ a.call = call[c].number /\ a.event = call[c].event
              /\ a.answer = "locked" => pc[c] \in {"insert", "commit"}
              /\ a.answer = "false" => ~ Free(Sees(c), a.event) /\ pc[c] = "insert"
<1> DEFINE Tells(c) ==
      \A a \in answers' \ answers :
        /\ a.client = c /\ a.call = call[c].number /\ a.event = call[c].event
        /\ a.answer = "locked" => pc[c] \in {"insert", "commit"}
        /\ a.answer = "false" => ~ Free(Sees(c), a.event) /\ pc[c] = "insert"
<1> DEFINE Goal ==
      /\ UNCHANGED kept /\ stored \subseteq stored' /\ answers \subseteq answers'
      /\ stored' # stored => UNCHANGED answers /\ \E c \in Connection : Commit(c)
      /\ \E c \in Connection : Tells(c)
<1>1. CASE UNCHANGED vars
  BY <1>1, ConnectionAssumption DEF vars
<1>2. ASSUME NEW c \in Connection, Commit(c) PROVE Goal
  BY <1>2 DEF Commit, callVars
<1>3. ASSUME NEW c \in Connection, InsertLocked(c) PROVE Goal
  <2>1. Tells(c) /\ answers \subseteq answers'
    BY <1>3 DEF InsertLocked, Raise, Answer, Move
  <2> QED BY <1>3, <2>1 DEF InsertLocked, Raise, callVars
<1>4. ASSUME NEW c \in Connection, CommitLocked(c) PROVE Goal
  <2>1. Tells(c) /\ answers \subseteq answers'
    BY <1>4 DEF CommitLocked, Raise, Answer, Move
  <2> QED BY <1>4, <2>1 DEF CommitLocked, Raise, callVars
<1>5. ASSUME NEW c \in Connection, InsertViolates(c) PROVE Goal
  <2>1. Tells(c) /\ answers \subseteq answers'
    BY <1>5 DEF InsertViolates, Answer, Move
  <2> QED BY <1>5, <2>1 DEF InsertViolates, callVars
<1>6. ASSUME NEW c \in Connection, Return(c) PROVE Goal
  <2>1. Tells(c) /\ answers \subseteq answers'
    BY <1>6 DEF Return, Answer, Move
  <2> QED BY <1>6, <2>1 DEF Return, callVars
<1>7. ASSUME NEW c \in Connection,
             Insert(c) \/ AwaitReaders(c) \/ FetchAll(c) \/ Dies(c) \/ Recover(c) \/ CallerStep(c)
      PROVE  Goal
  <2>1. UNCHANGED <<kept, stored, answers>>
    BY <1>7 DEF Insert, AwaitReaders, FetchAll, Dies, Recover, CallerStep, Open, Close, Search,
                Append, callVars
  <2> QED BY <1>7, <2>1
<1>8. CASE Next
  BY <1>8, <1>2, <1>3, <1>4, <1>5, <1>6, <1>7 DEF Next, AppendStep
<1> QED BY <1>1, <1>8

(* However often a store that was kept goes on: the row of an append that  *)
(* raised is stored only there, and only before a later row of that store  *)
(* (store.py:57-61).                                                       *)
THEOREM LockedRide == Spec => []LockedRowsRide
<1>1. Init => LockedRowsRide
  BY DEF Init, LockedRowsRide, Said
<1>2. ASSUME StoreInv, History, LockedRowsRide, [Next]_vars
      PROVE  LockedRowsRide'
  <2> SUFFICES ASSUME NEW a \in Said("locked")', NEW s \in stored', IsCall(a, s)
               PROVE  a.client \in kept' /\ \E t \in stored' : t.client = a.client /\ t.call > a.call
    BY DEF LockedRowsRide, IsCall
  <2>1. CASE a \in answers /\ s \in stored
    BY <1>2, <2>1, WhatStepsTell DEF LockedRowsRide, Said
  <2>2. CASE a \notin answers
    BY <1>2, <2>2, WhatStepsTell DEF Said, History, Numbered, IsCall
  <2>3. CASE a \in answers /\ s \notin stored
    <3>1. PICK c \in Connection : Commit(c)
      BY <1>2, <2>3, WhatStepsTell
    <3>2. s \in pending[c] /\ pc[c] = "commit" /\ stored' = stored \union pending[c]
      BY <2>3, <3>1 DEF Commit, Move
    <3>3. a \in Said("locked") /\ a.client = c /\ a.call < call[c].number
      BY <1>2, <2>3, <3>2 DEF Said, History, Numbered, WaitingExplained, IsCall, Tag
    <3>4. c \in kept
      BY <1>2, <3>2, <3>3 DEF History, WaitingExplained, IsCall, Tag
    <3>5. Tag(c) \in stored' /\ Tag(c).client = c /\ Tag(c).call > a.call
      BY <1>2, <3>2, <3>3 DEF StoreInv, OwnRow, Tag, History, Numbered
    <3> QED BY <1>2, <3>3, <3>4, <3>5, WhatStepsTell
  <2> QED BY <2>1, <2>2, <2>3
<1> QED BY <1>1, <1>2, Histories, PTL DEF Spec

(* However many processes and events: False means a taken key or position, *)
(* or a clash with a row that the same kept store had failed to commit     *)
(* (store.py:59-61).                                                       *)
THEOREM FalseExplained == Spec => []FalseIsExplained
<1>1. Init => FalseIsExplained
  BY DEF Init, FalseIsExplained, Said
<1>2. ASSUME StoreInv, History, FalseIsExplained, [Next]_vars
      PROVE  FalseIsExplained'
  <2>1. \A e : ~ Free(Rows, e) => ~ Free(Rows, e)'
    BY <1>2, WhatStepsTell DEF Free, KeyTaken, PositionTaken, Rows
  <2>2. Said("locked") \subseteq Said("locked")' /\ kept' = kept
    BY <1>2, WhatStepsTell DEF Said
  <2> SUFFICES ASSUME NEW a \in Said("false")'
               PROVE  \/ ~ Free(Rows', a.event)
                      \/ /\ a.client \in kept
                         /\ \E b \in Said("locked") :
                              b.client = a.client /\ b.call < a.call /\ ~ Free({b.event}, a.event)
    BY <2>2 DEF FalseIsExplained
  <2>3. CASE a \in answers
    BY <1>2, <2>1, <2>3 DEF FalseIsExplained, Said
  <2>4. CASE a \notin answers
    <3>1. PICK c \in Connection :
            /\ a.client = c /\ a.call = call[c].number /\ pc[c] = "insert"
            /\ ~ Free(Sees(c), a.event)
      BY <1>2, <2>4, WhatStepsTell DEF Said
    <3>2. CASE ~ Free(Rows, a.event)
      BY <2>1, <3>2
    <3>3. CASE Free(Rows, a.event)
      <4>1. PICK s \in pending[c] : ~ Free({s.event}, a.event)
        BY <3>1, <3>3 DEF Sees, Free, KeyTaken, PositionTaken
      <4>2. PICK b \in Said("locked") : IsCall(b, s) /\ b.event = s.event /\ c \in kept
        BY <1>2, <3>1 DEF History, WaitingExplained, WasLocked
      <4>3. b.client = c /\ b.call < a.call
        BY <1>2, <3>1, <4>2 DEF History, Numbered, WaitingExplained, IsCall
      <4> QED BY <3>1, <4>1, <4>2, <4>3
    <3> QED BY <3>2, <3>3
  <2> QED BY <2>3, <2>4
<1> QED BY <1>1, <1>2, Histories, PTL DEF Spec

-----------------------------------------------------------------------------
(***************************************************************************)
(* The refinement: where no store outlives an exception, a step of         *)
(* SqliteStore is one step of Ledger or none.                              *)
(***************************************************************************)

Phase(c) ==
  IF pc[c] \in InAppend THEN "called" ELSE IF pc[c] = "gone" THEN "left" ELSE "idle"

OpenCalls ==
  [c \in Connection |-> [phase |-> Phase(c), call |-> call[c].number, event |-> call[c].event]]

Told(a) ==
  [client |-> a.client, call |-> a.call, event |-> a.event, answer |-> LedgerAnswer(a)]

(* The table of the two modules is the same, and so is what they say of    *)
(* it (store.py:34-35).                                                    *)
LEMMA SamePromise ==
  /\ Promise!Rows = Rows
  /\ \A e : Promise!KeyTaken(Rows, e) <=> KeyTaken(Rows, e)
  /\ \A e : Promise!PositionTaken(Rows, e) <=> PositionTaken(Rows, e)
  /\ \A e : Promise!Free(Rows, e) <=> Free(Rows, e)
BY DEF Promise!Rows, Rows, Promise!KeyTaken, KeyTaken, Promise!PositionTaken, PositionTaken,
       Promise!Free, Free, Promise!ReplayKey, ReplayKey, Promise!Position, Position

(* A step that changes no phase, call, row or answer is none of Ledger's   *)
(* (store.py:47, 66-85).                                                   *)
LEMMA StutterStep ==
  ASSUME UNCHANGED <<call, stored, answers>>, \A d \in Connection : Phase(d)' = Phase(d)
  PROVE  UNCHANGED Promise!ledgerVars
BY DEF Promise!ledgerVars, Phase, LedgerAnswer

(* An append that has not committed has stored nothing, and one that has   *)
(* committed has stored its row (store.py:43-58).                          *)
LEMMA StoredByAppend ==
  ASSUME StoreInv, History, NEW c \in Connection
  PROVE  /\ pc[c] \in {"insert", "commit"} => ~ Promise!Stored(c)
         /\ pc[c] = "committed" => Promise!Stored(c)
<1>1. ASSUME pc[c] \in {"insert", "commit"}, NEW s \in stored, s.client = c
      PROVE  s.call # call[c].number
  BY <1>1 DEF History, Numbered
<1>2. ASSUME pc[c] = "committed"
      PROVE  \E s \in stored : s.client = c /\ s.call = call[c].number
  <2>1. Tag(c) \in stored /\ Tag(c).client = c /\ Tag(c).call = call[c].number
    BY <1>2 DEF StoreInv, OwnRow, Tag
  <2> QED BY <2>1
<1> QED BY <1>1, <1>2 DEF Promise!Stored

(* What append tells its caller is an answer of Ledger's that ends the     *)
(* call (store.py:57-61).                                                  *)
LEMMA AnswerRefines ==
  ASSUME StoreInv, History, NEW c \in Connection, pc[c] \in InAppend,
         NEW to, pc' = [pc EXCEPT ![c] = to], to \in {"ready", "closed"},
         NEW answer \in {"true", "false", "locked"}, Answer(c, answer), UNCHANGED <<stored, call>>,
         answer = "true" <=> pc[c] = "committed",
         answer = "false" => ~ Free(Rows, call[c].event)
  PROVE  Promise!LedgerNext
<1> DEFINE told == [client |-> c, call |-> call[c].number, event |-> call[c].event,
                    answer |-> answer, keyed |-> KeyTaken(Rows, call[c].event)]
<1>0. PICK said : said = LedgerAnswer(told)
  OBVIOUS
<1>1. /\ said \in Promise!Definite
      /\ said = "true" <=> answer = "true"
      /\ said = "false" => KeyTaken(Rows, call[c].event)
      /\ said = "23505" => PositionTaken(Rows, call[c].event)
  BY <1>0 DEF LedgerAnswer, Promise!Definite, Free
<1>2. /\ {Told(a) : a \in answers}' = {Told(a) : a \in answers} \union {Told(told)}
      /\ Told(told) = [client |-> c, call |-> call[c].number, event |-> call[c].event,
                       answer |-> said]
  <2>1. answers' = answers \union {told}
    BY DEF Answer
  <2> HIDE DEF told
  <2>2. {Told(a) : a \in answers}' = {Told(a) : a \in answers} \union {Told(told)}
    BY <2>1 DEF Told, LedgerAnswer
  <2>3. told.client = c /\ told.call = call[c].number /\ told.event = call[c].event
    BY DEF told
  <2> QED BY <1>0, <2>2, <2>3 DEF Told
<1> HIDE DEF told
<1>3. Phase(c) = "called" /\ Phase(c)' = "idle" /\ \A d \in Connection \ {c} : Phase(d)' = Phase(d)
  BY DEF Phase, InAppend, StoreInv, Functional
<1>4. Promise!Honest(c, said)
  <2>1. Promise!Stored(c) <=> answer = "true"
    BY StoredByAppend DEF InAppend
  <2> QED BY <1>1, <2>1, SamePromise DEF Promise!Honest
<1>5. OpenCalls' = [OpenCalls EXCEPT ![c].phase = "idle"]
  BY <1>3 DEF OpenCalls
<1>6. Promise!Answer(c, said)
  BY <1>1, <1>2, <1>3, <1>4, <1>5 DEF Promise!Answer, OpenCalls, Phase, Told, LedgerAnswer
<1> QED BY <1>1, <1>6 DEF Promise!LedgerNext

(* As long as stores are dropped, every step of the store is a step of the *)
(* promise (store.py:41-61, lambda_handler.py:33).                         *)
LEMMA RefinementStep ==
  ASSUME StoreInv, History, [Next]_vars, kept = {}
  PROVE  [Promise!LedgerNext]_(Promise!ledgerVars)
<1> USE DEF StoreInv, Functional, callVars
<1>1. CASE UNCHANGED vars
  BY <1>1, StutterStep DEF vars, Phase
<1>2. ASSUME NEW c \in Connection, NEW e \in Event, Append(c, e)
      PROVE  Promise!Begin(c, e)
  <2>1. Phase(c) = "idle" /\ Phase(c)' = "called" /\ \A d \in Connection \ {c} : Phase(d)' = Phase(d)
    BY <1>2 DEF Append, Move, Phase, InAppend
  <2>2. OpenCalls' = [OpenCalls EXCEPT ![c] = [phase |-> "called", call |-> @.call + 1, event |-> e]]
    BY <1>2, <2>1 DEF Append, OpenCalls
  <2> QED BY <1>2, <2>1, <2>2 DEF Promise!Begin, Append, OpenCalls, Phase, LedgerAnswer
<1>3. ASSUME NEW c \in Connection, Commit(c)
      PROVE  Promise!Store(c)
  <2>1. pc[c] = "commit" /\ stored' = stored \union pending[c] /\ pc'[c] = "committed"
    BY <1>3 DEF Commit, Move
  <2>2. pending[c] = {Tag(c)}
    BY <2>1 DEF OwnRow, History, WaitingExplained
  <2>3. ~ Promise!Stored(c)
    BY <2>1, StoredByAppend
  <2>4. Free(Rows, call[c].event)
    <3>1. ASSUME NEW s \in stored PROVE s # Tag(c)
      BY <2>1, <3>1 DEF Tag, History, Numbered
    <3>2. ASSUME NEW s \in stored PROVE Apart(s, Tag(c))
      BY <2>2, <3>2 DEF RowsApart
    <3> QED BY <3>1, <3>2 DEF Free, KeyTaken, PositionTaken, Rows, Apart, Tag
  <2>5. UNCHANGED <<OpenCalls, answers>>
    <3>1. \A d \in Connection : Phase(d)' = Phase(d)
      BY <1>3 DEF Commit, Move, Phase, InAppend
    <3> QED BY <1>3, <3>1 DEF Commit, OpenCalls
  <2> QED BY <2>1, <2>2, <2>3, <2>4, <2>5, SamePromise
          DEF Promise!Store, OpenCalls, Phase, InAppend, Tag, Told
<1>4. ASSUME NEW c \in Connection, InsertViolates(c)
      PROVE  Promise!LedgerNext
  <2>1. pc[c] = "insert"
    BY <1>4 DEF InsertViolates, Move
  <2>2. ~ Free(Rows, call[c].event)
    <3>1. pending[c] = {}
      BY <2>1 DEF History, WaitingExplained
    <3> QED BY <1>4, <3>1 DEF InsertViolates, Sees, Free, KeyTaken, PositionTaken
  <2> QED BY <1>4, <2>1, <2>2, AnswerRefines DEF InsertViolates, Move, InAppend
<1>5. ASSUME NEW c \in Connection, InsertLocked(c) \/ CommitLocked(c)
      PROVE  Promise!LedgerNext
  <2>1. PICK from \in {"insert", "commit"} :
          /\ Answer(c, "locked") /\ Move(c, from, "closed")
          /\ UNCHANGED <<stored, call>>
    BY <1>5 DEF InsertLocked, CommitLocked, Raise
  <2> QED BY <2>1, AnswerRefines DEF Move, InAppend
<1>6. ASSUME NEW c \in Connection, Return(c)
      PROVE  Promise!LedgerNext
  BY <1>6, AnswerRefines DEF Return, Move, InAppend
<1>7. ASSUME NEW c \in Connection,
             Open(c) \/ Close(c) \/ Search(c) \/ FetchAll(c) \/ Insert(c) \/ AwaitReaders(c)
      PROVE  UNCHANGED Promise!ledgerVars
  <2>1. UNCHANGED <<call, stored, answers>> /\ \A d \in Connection : Phase(d)' = Phase(d)
    BY <1>7 DEF Open, Close, Search, FetchAll, Insert, AwaitReaders, Move, Phase, InAppend
  <2> QED BY <2>1, StutterStep
<1>8. ASSUME NEW c \in Connection, Dies(c)
      PROVE  Promise!Leave(c)
  <2>1. Phase(c) = "called" /\ Phase(c)' = "left" /\ \A d \in Connection \ {c} : Phase(d)' = Phase(d)
    BY <1>8 DEF Dies, Phase, InAppend
  <2>2. OpenCalls' = [OpenCalls EXCEPT ![c].phase = "left"]
    BY <1>8, <2>1 DEF Dies, OpenCalls
  <2> QED BY <1>8, <2>1, <2>2 DEF Promise!Leave, Dies, OpenCalls, Phase, LedgerAnswer
<1>9. ASSUME NEW c \in Connection, Recover(c)
      PROVE  Promise!Forget(c)
  <2>1. Phase(c) = "left" /\ Phase(c)' = "idle" /\ \A d \in Connection \ {c} : Phase(d)' = Phase(d)
    BY <1>9 DEF Recover, Move, Phase, InAppend
  <2>2. OpenCalls' = [OpenCalls EXCEPT ![c].phase = "idle"]
    BY <1>9, <2>1 DEF Recover, OpenCalls
  <2> QED BY <1>9, <2>1, <2>2 DEF Promise!Forget, Recover, OpenCalls, Phase, LedgerAnswer
<1> QED
  BY <1>1, <1>2, <1>3, <1>4, <1>5, <1>6, <1>7, <1>8, <1>9
  DEF Next, AppendStep, CallerStep, Promise!LedgerNext

(* However many processes share the file, and whoever waits for a lock or  *)
(* is killed: as long as a store that raised is dropped, the SQLite store  *)
(* keeps the same promise as the cloud store (store.py:41-61).             *)
THEOREM DroppedStoresPromise == Spec => DroppedStoresKeepPromise
<1>1. Init => Promise!LedgerInit
  BY EventAssumption DEF Init, Promise!LedgerInit, InAppend
<1>2. StoreInv /\ History /\ [Next]_vars =>
        [kept = {} => Promise!LedgerNext]_(Promise!ledgerVars)
  BY RefinementStep
<1> QED BY <1>1, <1>2, Histories, PTL DEF Spec, DroppedStoresKeepPromise
=============================================================================
