------------------------------- MODULE Ledger -------------------------------
(***************************************************************************)
(* The Ledger (components/Ledger/src/ledger.c): pre_init and               *)
(* bank_execute_transaction over an SQLite database.                       *)
(*                                                                         *)
(* bank_execute_transaction is not one database transaction.  It hands     *)
(* SQLite up to three statement lists, one sqlite3_exec after another, and *)
(* every statement of a list commits on its own.  todo is the rest of the  *)
(* list in execution; a statement that fails drops the rest, and what the  *)
(* list has done so far stays.  Two of the three results are ignored.      *)
(*                                                                         *)
(* A statement takes effect as a whole or fails, because it does not       *)
(* compile against the schema or because memory or the disk gave out (a    *)
(* fault).  What a fault does to the database is the outcome of module     *)
(* Storage; the one outcome left out here is an INSERT of which one page   *)
(* is undone and another is not.                                           *)
(***************************************************************************)
EXTENDS Integers, Sequences, FiniteSets

CONSTANTS
  Names,         \* account names a caller passes
  Tokens,        \* tokens a caller passes
  MinToken,      \* the least token that is let through (1000 in the source)
  MaxAmount,     \* amounts are -MaxAmount..MaxAmount, as atoi yields them
  KeyColumn,     \* the name column of accounts as pre_init creates it
  HasRandomness, \* the VFS has an xRandomness method
  MaxCalls,      \* bound: calls
  MaxFaults      \* bound: faults of memory or disk

ASSUME TokensAssumption ==
  Tokens \subseteq Int /\ MinToken \in Int
ASSUME AmountAssumption == MaxAmount \in Nat
ASSUME BoundAssumption  == MaxCalls \in Nat /\ MaxFaults \in Nat
ASSUME BuildAssumption  ==
  KeyColumn \in {"user", "username"} /\ HasRandomness \in BOOLEAN

VARIABLES
  tables,    \* the tables of the database
  balance,   \* the accounts table: account names to balances
  log,       \* the transactions table, by id
  pc,        \* where the component is
  call,      \* the arguments of the call in execution
  todo,      \* statements left of the list in execution
  rc,        \* the result of that list so far
  faults,    \* how many faults have hit
  answered,  \* history: the calls returned from and what they returned
  booked     \* history: per name, what the APPROVED rows of log add up to

database == <<tables, balance, log, booked>>
vars     == <<database, pc, call, todo, rc, faults, answered>>

AllTables == {"accounts", "transactions"}
Amounts   == -MaxAmount..MaxAmount
TxTypes   == {"TRANSFER", "DEPOSIT", "WITHDRAWAL", "OTHER"}
Calls     == [token : Tokens, src : Names, dest : Names,
              tx_type : TxTypes, amount : Amounts]
NoCall    == [tx_type |-> "none"]

-----------------------------------------------------------------------------
(* Statements.                                                             *)

CreateTable(t)  == [op |-> "create", table |-> t]
InsertName(n)   == [op |-> "insert", name |-> n]
Add(n, a)       == [op |-> "add",    name |-> n, by |-> a]
LogRow(c, s)    == [op |-> "log",    row |-> c, status |-> s]

Schema == <<CreateTable("accounts"), CreateTable("transactions")>>

\* The accounts of a call are created on demand.
JitAccounts(c) == <<InsertName(c.src), InsertName(c.dest)>>

\* Defect: the updates are appended to the text that created the accounts.
BusinessAppended(c) ==
  JitAccounts(c) \o
    (CASE c.tx_type = "TRANSFER"   -> <<Add(c.src, -c.amount), Add(c.dest, c.amount)>>
       [] c.tx_type = "DEPOSIT"    -> <<Add(c.dest, c.amount)>>
       [] c.tx_type = "WITHDRAWAL" -> <<Add(c.src, -c.amount)>>
       [] OTHER                    -> << >>)

\* The text in sql: for a type that is none of the three it is still the one
\* that created the accounts.
Business(c) ==
  CASE c.tx_type = "TRANSFER"   -> <<Add(c.src, -c.amount), Add(c.dest, c.amount)>>
    [] c.tx_type = "DEPOSIT"    -> <<Add(c.dest, c.amount)>>
    [] c.tx_type = "WITHDRAWAL" -> <<Add(c.src, -c.amount)>>
    [] OTHER                    -> JitAccounts(c)

\* Every statement but the schema's calls the name column "user".
Compiles(s) ==
  CASE s.op = "create"          -> TRUE
    [] s.op \in {"insert", "add"} -> "accounts" \in tables /\ KeyColumn = "user"
    [] s.op = "log"             -> "transactions" \in tables

\* Defect: INSERT OR REPLACE instead of INSERT OR IGNORE.
InsertedReplacing(n) == [m \in DOMAIN balance \cup {n} |-> IF m = n THEN 0 ELSE balance[m]]

\* INSERT OR IGNORE: an account that exists keeps its balance.
Inserted(n) ==
  [m \in DOMAIN balance \cup {n} |-> IF m \in DOMAIN balance THEN balance[m] ELSE 0]

\* UPDATE ... WHERE: no row, no effect, and no error either.
Updated(n, a) ==
  [m \in DOMAIN balance |-> IF m = n THEN balance[m] + a ELSE balance[m]]

\* What a call of this type is to add to the account of n.
Effect(c, n) ==
  (IF c.tx_type \in {"TRANSFER", "DEPOSIT"}    /\ n = c.dest THEN c.amount ELSE 0) -
  (IF c.tx_type \in {"TRANSFER", "WITHDRAWAL"} /\ n = c.src  THEN c.amount ELSE 0)

\* The effect of statement s on the database.
Take(s) ==
  /\ tables'  = IF s.op = "create" THEN tables \cup {s.table} ELSE tables
  /\ balance' = CASE s.op = "insert" -> Inserted(s.name)
                  [] s.op = "add"    -> Updated(s.name, s.by)
                  [] OTHER           -> balance
  /\ log'     = IF s.op = "log"
                  THEN Append(log, [call |-> s.row, status |-> s.status])
                  ELSE log
  /\ booked'  = IF s.op = "log" /\ s.status = "APPROVED"
                  THEN [n \in Names |-> booked[n] + Effect(s.row, n)]
                  ELSE booked

-----------------------------------------------------------------------------
(* sqlite3_exec, one statement at a time.                                  *)

\* The first write draws a nonce for the journal from the VFS; without the
\* method that is a call through a null pointer.
Statement ==
  /\ todo # << >>
  /\ Compiles(Head(todo))
  /\ IF HasRandomness
       THEN Take(Head(todo)) /\ todo' = Tail(todo) /\ pc' = pc
       ELSE pc' = "crashed" /\ todo' = << >> /\ UNCHANGED database
  /\ UNCHANGED <<call, rc, faults, answered>>

\* The statement names a table or a column that the schema does not have.
StatementRejected ==
  /\ todo # << >>
  /\ ~Compiles(Head(todo))
  /\ todo' = << >>
  /\ rc'   = "error"
  /\ UNCHANGED <<database, pc, call, faults, answered>>

\* Memory or disk gives out.  The statement is undone; or the failure of its
\* rollback leaves its effect in the cache, although it is reported as failed;
\* or the journal header stays where page 1 should be, the database is none any
\* more, and no later statement compiles.
StatementFaults ==
  /\ todo # << >>
  /\ faults < MaxFaults
  /\ faults' = faults + 1
  /\ todo'   = << >>
  /\ rc'     = "error"
  /\ \/ UNCHANGED database
     \/ Compiles(Head(todo)) /\ HasRandomness /\ Take(Head(todo))
     \/ tables' = {} /\ UNCHANGED <<balance, log, booked>>
  /\ UNCHANGED <<pc, call, answered>>

-----------------------------------------------------------------------------
(* pre_init.                                                               *)

\* The database opens and the schema is executed.
Open ==
  /\ pc = "boot"
  /\ pc'   = "schema"
  /\ todo' = Schema
  /\ UNCHANGED <<database, call, rc, faults, answered>>

\* It does not open: while (1).
OpenFails ==
  /\ pc = "boot"
  /\ faults < MaxFaults
  /\ faults' = faults + 1
  /\ pc'     = "halted"
  /\ UNCHANGED <<database, call, todo, rc, answered>>

\* A failed schema is printed, and the component serves calls nevertheless.
Serve ==
  /\ pc = "schema" /\ todo = << >>
  /\ pc' = "idle"
  /\ UNCHANGED <<database, call, todo, rc, faults, answered>>

-----------------------------------------------------------------------------
(* bank_execute_transaction.                                               *)

\* Defect: a refused call is not recorded.
BeginUnrecorded(c) ==
  /\ pc = "idle"
  /\ Len(answered) < MaxCalls
  /\ call' = c
  /\ rc'   = "ok"
  /\ IF c.token < MinToken
       THEN pc' = "blocked" /\ todo' = << >>
       ELSE pc' = "jit"     /\ todo' = JitAccounts(c)
  /\ UNCHANGED <<database, faults, answered>>

\* Defect: the alarm is raised and recorded, and the transaction goes on.
BeginFallsThrough(c) ==
  /\ pc = "idle"
  /\ Len(answered) < MaxCalls
  /\ call' = c
  /\ rc'   = "ok"
  /\ pc'   = "jit"
  /\ todo' = (IF c.token < MinToken THEN <<LogRow(c, "BLOCKED_INVALID_CAPABILITY")>> ELSE << >>)
              \o JitAccounts(c)
  /\ UNCHANGED <<database, faults, answered>>

\* The token decides between a BLOCKED record and the transaction.
Begin(c) ==
  /\ pc = "idle"
  /\ Len(answered) < MaxCalls
  /\ call' = c
  /\ rc'   = "ok"
  /\ IF c.token < MinToken
       THEN pc' = "blocked" /\ todo' = <<LogRow(c, "BLOCKED_INVALID_CAPABILITY")>>
       ELSE pc' = "jit"     /\ todo' = JitAccounts(c)
  /\ UNCHANGED <<database, faults, answered>>

\* Whatever became of the accounts, the business statements follow.
StartBusiness ==
  /\ pc = "jit" /\ todo = << >>
  /\ pc'   = "business"
  /\ todo' = Business(call)
  /\ rc'   = "ok"
  /\ UNCHANGED <<database, call, faults, answered>>

\* The business statements went through: record the call as approved.
Approve ==
  /\ pc = "business" /\ todo = << >> /\ rc = "ok"
  /\ pc'   = "approved"
  /\ todo' = <<LogRow(call, "APPROVED")>>
  /\ UNCHANGED <<database, call, rc, faults, answered>>

Return(result) ==
  /\ pc'       = "idle"
  /\ answered' = Append(answered, [call |-> call, result |-> result])
  /\ UNCHANGED <<database, call, todo, rc, faults>>

\* They did not: the call fails without a record.
FailBusiness ==
  /\ pc = "business" /\ todo = << >> /\ rc = "error"
  /\ Return(-1)

\* Defect: the last statement list decides the result, not the token.
FinishByLastList ==
  /\ pc \in {"blocked", "approved"} /\ todo = << >>
  /\ Return(IF rc = "ok" THEN 0 ELSE -1)

\* dump_live_contents reads and prints; the result depends on the token alone.
Finish ==
  /\ pc \in {"blocked", "approved"} /\ todo = << >>
  /\ Return(IF call.token >= MinToken THEN 0 ELSE -1)

\* The bound is reached, or the component is in its endless loop or dead.
Stopped ==
  /\ \/ pc = "idle" /\ Len(answered) = MaxCalls
     \/ pc \in {"halted", "crashed"}
  /\ UNCHANGED vars

-----------------------------------------------------------------------------
Init ==
  /\ tables   = {}
  /\ balance  = [n \in {} |-> 0]
  /\ log      = << >>
  /\ pc       = "boot"
  /\ call     = NoCall
  /\ todo     = << >>
  /\ rc       = "ok"
  /\ faults   = 0
  /\ answered = << >>
  /\ booked   = [n \in Names |-> 0]

Internal ==
  \/ Statement \/ StatementRejected \/ StatementFaults
  \/ Open \/ OpenFails \/ Serve
  \/ StartBusiness \/ Approve \/ FailBusiness \/ Finish

Next == Internal \/ (\E c \in Calls : Begin(c)) \/ Stopped

Spec == Init /\ [][Next]_vars

-----------------------------------------------------------------------------
(* The Ledger implements Bank.                                             *)

\* The balance of n; an account that does not exist yet holds nothing.
Held(n) == IF n \in DOMAIN balance THEN balance[n] ELSE 0

\* What a statement adds to the account of n, and what the list will add.
Added(s, n) == IF s.op = "add" /\ s.name = n THEN s.by ELSE 0
Pending(n) ==
  CASE Len(todo) = 0 -> 0
    [] Len(todo) = 1 -> Added(todo[1], n)
    [] Len(todo) = 2 -> Added(todo[1], n) + Added(todo[2], n)

\* How far the account of n is ahead of the audit log in the middle of a call.
Ahead(n) ==
  CASE pc = "business" /\ KeyColumn = "user" -> Effect(call, n) - Pending(n)
    [] pc = "approved" /\ todo # << >>       -> Effect(call, n)
    [] OTHER                                 -> 0

\* A call happens when its row is written: what its updates have done before
\* is subtracted again.
Serving == pc \in {"jit", "business", "approved", "blocked"}
Logged  == pc \in {"approved", "blocked"} /\ todo = << >>
Promise == INSTANCE Bank WITH
  accounts <- [n \in Names |-> Held(n) - Ahead(n)],
  audit    <- log,
  answers  <- answered,
  current  <- IF Serving THEN call ELSE NoCall,
  applied  <- Logged,
  healthy  <- faults = 0 /\ KeyColumn = "user"

-----------------------------------------------------------------------------
(* Properties.                                                             *)

Statements ==
  {CreateTable(t) : t \in AllTables} \cup {InsertName(n) : n \in Names}
    \cup {Add(n, a) : n \in Names, a \in Amounts}
    \cup {LogRow(c, s) : c \in Calls, s \in {"APPROVED", "BLOCKED_INVALID_CAPABILITY"}}

\* Every variable has its type; no statement list is longer than two.
TypeOK ==
  /\ tables \subseteq AllTables
  /\ DOMAIN balance \subseteq Names /\ balance \in [DOMAIN balance -> Int]
  /\ log \in Seq([call : Calls, status : {"APPROVED", "BLOCKED_INVALID_CAPABILITY"}])
  /\ pc \in {"boot", "schema", "idle", "jit", "business", "approved", "blocked",
             "halted", "crashed"}
  /\ call \in Calls \cup {NoCall}
  /\ todo \in Seq(Statements) /\ Len(todo) <= 2
  /\ rc \in {"ok", "error"}
  /\ faults \in 0..MaxFaults
  /\ answered \in Seq([call : Calls, result : {0, -1}])
  /\ booked \in [Names -> Int]

\* The Ledger implements Bank: although a call takes up to five commits, it
\* looks as if it happened at once when its row is written, as long as nothing
\* fails; and whatever fails, the log and the answers only grow.
ImplementsBank == Promise!Spec

\* Between calls and as long as no fault hits, the accounts hold exactly what
\* the APPROVED rows of the audit log add up to, whatever sequence of calls
\* led there: unknown types, transfers to oneself, negative amounts and
\* accounts created on demand included.
BooksBalance ==
  (pc = "idle" /\ faults = 0) => \A n \in Names : Held(n) = booked[n]

\* Between calls and as long as no fault hits, the audit log has one row per
\* call, in the order of the calls, and the row, the result and the test of the
\* token (ledger.c:186) say the same about it.  (The schema must have the column
\* the statements name.)
AuditComplete ==
  (pc = "idle" /\ faults = 0 /\ KeyColumn = "user") =>
    /\ Len(log) = Len(answered)
    /\ \A i \in 1..Len(log) :
         /\ log[i].call = answered[i].call
         /\ log[i].status = "APPROVED" <=> answered[i].result = 0
         /\ answered[i].result = 0 <=> answered[i].call.token >= MinToken

\* The updates of a transfer commit one by one and the creation of accounts
\* may fail unnoticed: a fault can part the accounts from the audit log.  Each
\* fault does so for one call only, by no more than the largest amount.
DriftBounded ==
  (pc = "idle" /\ tables = AllTables) =>
    \A n \in Names :
      LET drift == Held(n) - booked[n]
      IN  /\ drift <= faults * MaxAmount
          /\ -drift <= faults * MaxAmount

Approvals == {i \in 1..Len(log) : log[i].status = "APPROVED"}
Successes == {i \in 1..Len(answered) : answered[i].result = 0}

\* With faults, an APPROVED row still stands for a call that was answered 0,
\* and a success without its row costs a fault.
AuditGap ==
  (pc = "idle" /\ tables = AllTables) =>
    /\ Cardinality(Approvals) <= Cardinality(Successes)
    /\ Cardinality(Successes) <= Cardinality(Approvals) + faults

\* A call that the test at ledger.c:186 refuses moves nothing: whatever fails,
\* and in whichever of its steps, it changes no account, is not booked and is
\* answered -1, although it shares the end of the function with the calls that
\* were let through.  (Which tokens the test refuses is another question.)
RefusedMovesNothing ==
  [][/\ balance' # balance \/ booked' # booked => call.token >= MinToken
     /\ answered' # answered =>
          (answered'[Len(answered')].result = 0 => call.token >= MinToken)]_vars

\* ledger.c:94 "Stubbing OS-level VFS features we don't need on seL4": the
\* methods left out are never called.
StubsNotNeeded == pc # "crashed"

=============================================================================
