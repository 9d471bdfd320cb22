-------------------------------- MODULE Bank --------------------------------
(***************************************************************************)
(* What the Ledger promises its callers (interfaces/Bank.idl4), whatever   *)
(* the number of statements and commits it takes: a call happens at once,  *)
(* together with its row in the audit log, and is then answered.           *)
(*                                                                         *)
(* The promise ends with the first failure underneath (healthy): from then *)
(* on the accounts may hold anything, but a row that is in the log stays   *)
(* there, and so does an answer.                                           *)
(***************************************************************************)
EXTENDS Integers, Sequences, SequencesExt

CONSTANTS Names, Calls, MinToken

VARIABLES
  accounts,  \* what everybody owns
  audit,     \* the audit log
  answers,   \* the calls answered and the answers
  current,   \* the call submitted and not answered, if any
  applied,   \* it has happened
  healthy    \* nothing has failed so far

vars == <<accounts, audit, answers, current, applied, healthy>>

None == [tx_type |-> "none"]

Permitted(c) == c.token >= MinToken

\* What the sender loses and the receiver gains; withdrawals have no receiver,
\* deposits no sender, and any other type moves nothing.
Paid(c, n) == IF n = c.src /\ c.tx_type \in {"TRANSFER", "WITHDRAWAL"} THEN c.amount ELSE 0
Got(c, n)  == IF n = c.dest /\ c.tx_type \in {"TRANSFER", "DEPOSIT"}   THEN c.amount ELSE 0

-----------------------------------------------------------------------------
Init ==
  /\ accounts = [n \in Names |-> 0]
  /\ audit    = << >>
  /\ answers  = << >>
  /\ current  = None
  /\ applied  = FALSE
  /\ healthy \in BOOLEAN

Submit(c) ==
  /\ current = None
  /\ current' = c
  /\ UNCHANGED <<accounts, audit, answers, applied, healthy>>

\* All of it or nothing: the accounts of both sides and the row.
Execute ==
  /\ current # None /\ ~applied
  /\ Permitted(current)
  /\ accounts' = [n \in Names |-> accounts[n] - Paid(current, n) + Got(current, n)]
  /\ audit'    = Append(audit, [call |-> current, status |-> "APPROVED"])
  /\ applied'  = TRUE
  /\ UNCHANGED <<answers, current, healthy>>

\* A refused call leaves a row and nothing else.
Block ==
  /\ current # None /\ ~applied
  /\ ~Permitted(current)
  /\ audit'   = Append(audit, [call |-> current, status |-> "BLOCKED_INVALID_CAPABILITY"])
  /\ applied' = TRUE
  /\ UNCHANGED <<accounts, answers, current, healthy>>

Answer ==
  /\ applied
  /\ answers' = Append(answers, [call   |-> current,
                                 result |-> IF Permitted(current) THEN 0 ELSE -1])
  /\ current' = None
  /\ applied' = FALSE
  /\ UNCHANGED <<accounts, audit, healthy>>

\* Something has failed: nothing is promised but that nothing is unsaid.
Broken ==
  /\ ~healthy'
  /\ IsPrefix(audit, audit')
  /\ IsPrefix(answers, answers')

Next == (\E c \in Calls : Submit(c)) \/ Execute \/ Block \/ Answer \/ Broken

Spec == Init /\ [][Next]_vars
=============================================================================
