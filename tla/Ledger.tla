------------------------------- MODULE Ledger -------------------------------
(***************************************************************************)
(* What the durable ledger promises its callers, with no connection,       *)
(* transaction or retry in sight.                                          *)
(*                                                                         *)
(* A call of LedgerStore.append takes effect at most once, at one instant, *)
(* and only where both the replay key and the position of its event are    *)
(* free.  What the caller is told is about that instant: a definite answer *)
(* closes the call for good, while a caller that lost its connection (or   *)
(* its process) leaves behind a call that may still take effect.           *)
(***************************************************************************)
EXTENDS LedgerRows

CONSTANTS Client,      \* the execution environments that call append
          Event,       \* the events they may append
          MaxCalls     \* bound: the calls one client makes

(* Answers after which the call can no longer take effect. *)
Definite == {"true", "false", "23505", "40001", "unreachable"}

VARIABLES
  stored,    \* the rows, each with the call that inserted it
  open,      \* [Client -> call]: the call under way, phase "idle" when none
  answers    \* what finished calls told their callers

ledgerVars == <<stored, open, answers>>

Rows == {s.event : s \in stored}

Stored(c) == \E s \in stored : s.client = c /\ s.call = open[c].call

LedgerInit ==
  /\ stored = {}
  /\ open \in [Client -> [phase : {"idle"}, call : {0}, event : Event]]
  /\ answers = {}

Begin(c, e) ==
  /\ open[c].phase = "idle"
  /\ open[c].call < MaxCalls
  /\ open' = [open EXCEPT ![c] = [phase |-> "called", call |-> @.call + 1, event |-> e]]
  /\ UNCHANGED <<stored, answers>>

(* The one instant at which the call takes effect; it may fall after the   *)
(* caller has gone.                                                        *)
Store(c) ==
  /\ open[c].phase # "idle"
  /\ ~Stored(c)
  /\ Free(Rows, open[c].event)
  /\ stored' = stored \union {[event |-> open[c].event, client |-> c, call |-> open[c].call]}
  /\ UNCHANGED <<open, answers>>

(* What an answer may be, given what has happened to the call. *)
Honest(c, answer) ==
  /\ answer = "true" => Stored(c)
  /\ answer \in Definite \ {"true"} => ~Stored(c)
  /\ answer = "false" => KeyTaken(Rows, open[c].event)
  /\ answer = "23505" => PositionTaken(Rows, open[c].event)

Answer(c, answer) ==
  /\ open[c].phase = "called"
  /\ Honest(c, answer)
  /\ answers' = answers \union
       {[client |-> c, call |-> open[c].call, event |-> open[c].event, answer |-> answer]}
  /\ open' = [open EXCEPT ![c].phase = IF answer \in Definite THEN "idle" ELSE "left"]
  /\ UNCHANGED stored

(* The caller's process ends without an answer. *)
Leave(c) ==
  /\ open[c].phase = "called"
  /\ open' = [open EXCEPT ![c].phase = "left"]
  /\ UNCHANGED <<stored, answers>>

(* Nothing of the abandoned call is under way any more. *)
Forget(c) ==
  /\ open[c].phase = "left"
  /\ open' = [open EXCEPT ![c].phase = "idle"]
  /\ UNCHANGED <<stored, answers>>

LedgerNext ==
  \E c \in Client :
    \/ \E e \in Event : Begin(c, e)
    \/ Store(c)
    \/ \E a \in Definite \union {"lost"} : Answer(c, a)
    \/ Leave(c)
    \/ Forget(c)

LedgerSpec == LedgerInit /\ [][LedgerNext]_ledgerVars
=============================================================================
