----------------------------- MODULE LedgerRows -----------------------------
(***************************************************************************)
(* The table ledger_events seen as a set of events, and what one INSERT    *)
(* does to it in each of the two stores.                                   *)
(*                                                                         *)
(* An event is a record of class LedgerEvent (models.py).  The fields that *)
(* decide whether a row can be inserted are tenant, incident, sequence and *)
(* key; the rest of the row (kind, summary, evidence, created_at,          *)
(* embedding) is whatever the module that uses this one puts there.        *)
(***************************************************************************)
EXTENDS Naturals

(* PRIMARY KEY (tenant_id, incident_id, sequence). *)
Position(e) == <<e.tenant, e.incident, e.sequence>>

(* UNIQUE (tenant_id, idempotency_key). *)
ReplayKey(e) == <<e.tenant, e.key>>

KeyTaken(rows, e) == \E r \in rows : ReplayKey(r) = ReplayKey(e)

PositionTaken(rows, e) == \E r \in rows : Position(r) = Position(e)

(* Mutant of Free: the primary key is forgotten. *)
FreeKey(rows, e) == ~KeyTaken(rows, e)

Free(rows, e) == ~KeyTaken(rows, e) /\ ~PositionTaken(rows, e)

(* The two constraints of the table. *)
WellKeyed(rows) ==
  \A r, s \in rows : \/ r = s
                     \/ ReplayKey(r) # ReplayKey(s) /\ Position(r) # Position(s)

(***************************************************************************)
(* What append answers when nothing fails: "true" and "false" are its two  *)
(* return values, "23505" the unique_violation it raises.                  *)
(***************************************************************************)

(* SQLite turns the violation of either constraint into False. *)
SqliteAnswer(rows, e) == IF Free(rows, e) THEN "true" ELSE "false"

(* Mutant of CockroachAnswer: ON CONFLICT DO NOTHING without a target. *)
CockroachIgnoresAll(rows, e) == IF Free(rows, e) THEN "true" ELSE "false"

(* ON CONFLICT names the replay key only, so a taken position raises. *)
CockroachAnswer(rows, e) ==
  IF KeyTaken(rows, e) THEN "false"
  ELSE IF PositionTaken(rows, e) THEN "23505"
  ELSE "true"

(* Mutant of RowsAfter: the transaction is not committed. *)
RowsUncommitted(rows, e, answer) == rows

(* Either store adds the row exactly when it answers "true". *)
RowsAfter(rows, e, answer) == IF answer = "true" THEN rows \union {e} ELSE rows
=============================================================================
