----------------------------- MODULE TaskLedger -----------------------------
(***************************************************************************)
(* What the outbox promises to whoever submits a command, with no process, *)
(* queue or clock in sight: a submitted command stays open until it has    *)
(* been executed with success at least once (and then leaves the table) or *)
(* is found not to be executable (and then stays there as dead, for ever). *)
(***************************************************************************)
CONSTANT Tasks, Foreign

VARIABLES ledger, executed

ledgerVars == <<ledger, executed>>

LedgerInit ==
  /\ ledger = [t \in Tasks |-> IF t \in Foreign THEN "open" ELSE "absent"]
  /\ executed = {}

Accept(t) ==
  /\ ledger[t] = "absent"
  /\ ledger' = [ledger EXCEPT ![t] = "open"]
  /\ UNCHANGED executed

(* At least once: an open command may be executed any number of times.     *)
Perform(t) ==
  /\ ledger[t] = "open"
  /\ executed' = executed \cup {t}
  /\ UNCHANGED ledger

Complete(t) ==
  /\ ledger[t] = "open"
  /\ t \in executed
  /\ ledger' = [ledger EXCEPT ![t] = "done"]
  /\ UNCHANGED executed

Bury(t) ==
  /\ ledger[t] = "open"
  /\ ledger' = [ledger EXCEPT ![t] = "dead"]
  /\ UNCHANGED executed

LedgerNext == \E t \in Tasks : Accept(t) \/ Perform(t) \/ Complete(t) \/ Bury(t)

LedgerSpec == LedgerInit /\ [][LedgerNext]_ledgerVars
=============================================================================
