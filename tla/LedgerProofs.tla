---------------------------- MODULE LedgerProofs ----------------------------
(***************************************************************************)
(* Proofs about Ledger: for all names, tokens, thresholds and amounts, any *)
(* number of calls and faults, and with either name of the key column and  *)
(* with or without the missing VFS method.                                 *)
(***************************************************************************)
EXTENDS Ledger, SequenceTheorems, FiniteSetTheorems, TLAPS

Statuses == {"APPROVED", "BLOCKED_INVALID_CAPABILITY"}

\* The step from a list of statements to its rest.
LEMMA TailFacts ==
  ASSUME NEW S, NEW s \in Seq(S), s # << >>
  PROVE  /\ Len(s) \in Nat \ {0}
         /\ Head(s) = s[1] /\ Head(s) \in S
         /\ Tail(s) \in Seq(S) /\ Len(Tail(s)) = Len(s) - 1
         /\ \A i \in 1..Len(Tail(s)) : Tail(s)[i] = s[i + 1]
  OBVIOUS

\* The statement lists of a call, by length and element.
LEMMA ListFacts ==
  ASSUME NEW c \in Calls
  PROVE  /\ Len(JitAccounts(c)) = 2
         /\ JitAccounts(c)[1] = InsertName(c.src)
         /\ JitAccounts(c)[2] = InsertName(c.dest)
         /\ c.tx_type = "TRANSFER" =>
              Business(c) = <<Add(c.src, -c.amount), Add(c.dest, c.amount)>>
         /\ c.tx_type = "DEPOSIT"    => Business(c) = <<Add(c.dest, c.amount)>>
         /\ c.tx_type = "WITHDRAWAL" => Business(c) = <<Add(c.src, -c.amount)>>
         /\ c.tx_type = "OTHER"      => Business(c) = JitAccounts(c)
  BY DEF JitAccounts, Business

\* The arguments of a call have the types that the statements are made from.
LEMMA CallFacts ==
  ASSUME NEW c \in Calls
  PROVE  /\ c.src \in Names /\ c.dest \in Names
         /\ c.amount \in Amounts /\ -c.amount \in Amounts
         /\ c.amount \in Int /\ c.token \in Int
         /\ c.tx_type \in TxTypes
  <1>1. /\ c.src \in Names /\ c.dest \in Names /\ c.tx_type \in TxTypes
        /\ c.amount \in Amounts /\ c.token \in Tokens
    BY DEF Calls
  <1>2. c.amount \in Int /\ -c.amount \in Amounts
    BY <1>1, AmountAssumption DEF Amounts
  <1>3. QED
    BY <1>1, <1>2, TokensAssumption

\* The statement lists of a call are lists of statements, of one or two.
LEMMA ListsTyped ==
  ASSUME NEW c \in Calls
  PROVE  /\ JitAccounts(c) \in Seq(Statements)
         /\ Business(c) \in Seq(Statements)
         /\ Len(Business(c)) = 1 \/ Len(Business(c)) = 2
  <1>1. /\ InsertName(c.src) \in Statements /\ InsertName(c.dest) \in Statements
        /\ Add(c.src, -c.amount) \in Statements /\ Add(c.dest, c.amount) \in Statements
    BY CallFacts DEF Statements
  <1>2. \A s, t \in Statements :
          /\ <<s>> \in Seq(Statements) /\ Len(<<s>>) = 1
          /\ <<s, t>> \in Seq(Statements) /\ Len(<<s, t>>) = 2
    OBVIOUS
  <1>3. JitAccounts(c) \in Seq(Statements) /\ Len(JitAccounts(c)) = 2
    BY <1>1, <1>2 DEF JitAccounts
  <1>4. \/ Business(c) = <<Add(c.src, -c.amount), Add(c.dest, c.amount)>>
        \/ Business(c) = <<Add(c.dest, c.amount)>>
        \/ Business(c) = <<Add(c.src, -c.amount)>>
        \/ Business(c) = JitAccounts(c)
    BY ListFacts, CallFacts DEF TxTypes
  <1>5. Business(c) \in Seq(Statements) /\ (Len(Business(c)) = 1 \/ Len(Business(c)) = 2)
    BY <1>1, <1>2, <1>3, <1>4
  <1>6. QED
    BY <1>3, <1>5

\* What a call of this type is to add to an account is a number.
LEMMA EffectTyped ==
  ASSUME NEW c \in Calls, NEW n \in Names
  PROVE  Effect(c, n) \in Int
  BY CallFacts DEF Effect

-----------------------------------------------------------------------------
(* Type correctness.                                                       *)

DatabaseTyped ==
  /\ tables \subseteq AllTables
  /\ DOMAIN balance \subseteq Names /\ balance \in [DOMAIN balance -> Int]
  /\ log \in Seq([call : Calls, status : Statuses])
  /\ booked \in [Names -> Int]

\* A statement keeps the types of the database.
LEMMA TakeTyped ==
  ASSUME DatabaseTyped, NEW s \in Statements, Take(s)
  PROVE  DatabaseTyped'
  <1> USE DEF DatabaseTyped
  <1>1. CASE \E t \in AllTables : s = CreateTable(t)
    <2>1. s.op = "create" /\ s.table \in AllTables
      BY <1>1 DEF CreateTable
    <2>2. tables' = tables \cup {s.table} /\ UNCHANGED <<balance, log, booked>>
      BY <2>1 DEF Take
    <2>3. QED
      BY <2>1, <2>2
  <1>2. CASE \E n \in Names : s = InsertName(n)
    <2>1. s.op = "insert" /\ s.name \in Names
      BY <1>2 DEF InsertName
    <2>2. balance' = Inserted(s.name) /\ UNCHANGED <<tables, log, booked>>
      BY <2>1 DEF Take
    <2>3. QED
      BY <2>1, <2>2 DEF Inserted
  <1>3. CASE \E n \in Names, a \in Amounts : s = Add(n, a)
    <2>1. s.op = "add" /\ s.by \in Int
      BY <1>3, AmountAssumption DEF Add, Amounts
    <2>2. balance' = Updated(s.name, s.by) /\ UNCHANGED <<tables, log, booked>>
      BY <2>1 DEF Take
    <2>3. QED
      BY <2>1, <2>2 DEF Updated
  <1>4. CASE \E c \in Calls, t \in Statuses : s = LogRow(c, t)
    <2>1. s.op = "log" /\ s.row \in Calls /\ s.status \in Statuses
      BY <1>4 DEF LogRow
    <2>2. /\ log' = Append(log, [call |-> s.row, status |-> s.status])
          /\ UNCHANGED <<tables, balance>>
          /\ booked' = IF s.status = "APPROVED"
                         THEN [n \in Names |-> booked[n] + Effect(s.row, n)]
                         ELSE booked
      BY <2>1 DEF Take
    <2>3. \A n \in Names : booked[n] + Effect(s.row, n) \in Int
      BY <2>1, EffectTyped
    <2>4. booked' \in [Names -> Int]
      BY <2>2, <2>3
    <2>5. log' \in Seq([call : Calls, status : Statuses])
      BY <2>1, <2>2
    <2>6. QED
      BY <2>2, <2>4, <2>5
  <1>5. QED
    BY <1>1, <1>2, <1>3, <1>4 DEF Statements, Statuses

LEMMA TypeInit == Init => TypeOK
  <1> SUFFICES ASSUME Init PROVE TypeOK
    OBVIOUS
  <1>1. faults \in 0..MaxFaults
    BY BoundAssumption DEF Init
  <1>2. booked \in [Names -> Int]
    BY DEF Init
  <1>3. DOMAIN balance \subseteq Names /\ balance \in [DOMAIN balance -> Int]
    BY DEF Init
  <1>4. QED
    BY <1>1, <1>2, <1>3 DEF Init, TypeOK

\* In a call, call is one.
InCall == pc \in {"jit", "business", "approved", "blocked"} => call \in Calls

TypeInv == TypeOK /\ InCall

LEMMA TypeStep == TypeInv /\ [Next]_vars => TypeInv'
  <1> SUFFICES ASSUME TypeInv, [Next]_vars PROVE TypeInv'
    OBVIOUS
  <1> USE DEF TypeInv, InCall
  <1>1. CASE Statement
    <2>1. todo \in Seq(Statements) /\ todo # << >>
      BY <1>1 DEF Statement, TypeOK
    <2>2. Head(todo) \in Statements /\ Tail(todo) \in Seq(Statements)
          /\ Len(Tail(todo)) <= 2
      BY <2>1, TailFacts DEF TypeOK
    <2>3. CASE HasRandomness
      <3>1. DatabaseTyped'
        BY <1>1, <2>2, <2>3, TakeTyped DEF Statement, TypeOK, DatabaseTyped, Statuses
      <3>2. QED
        BY <1>1, <2>2, <2>3, <3>1 DEF Statement, TypeOK, DatabaseTyped, Statuses
    <2>4. CASE ~HasRandomness
      BY <1>1, <2>4 DEF Statement, TypeOK, database
    <2>5. QED
      BY <2>3, <2>4
  <1>2. CASE StatementRejected
    BY <1>2 DEF StatementRejected, TypeOK, database
  <1>3. CASE StatementFaults
    <2>1. todo \in Seq(Statements) /\ todo # << >>
      BY <1>3 DEF StatementFaults, TypeOK
    <2>2. Head(todo) \in Statements
      BY <2>1, TailFacts
    <2>3. DatabaseTyped
      BY DEF TypeOK, DatabaseTyped, Statuses
    <2>4. DatabaseTyped'
      <3>1. CASE Take(Head(todo))
        BY <2>2, <2>3, <3>1, TakeTyped
      <3>2. CASE UNCHANGED <<balance, log, booked>> /\ tables' \in {tables, {}}
        BY <2>3, <3>2 DEF DatabaseTyped
      <3>3. QED
        BY <1>3, <3>1, <3>2 DEF StatementFaults, database
    <2>5. /\ faults' \in 0..MaxFaults /\ todo' = << >> /\ rc' = "error"
          /\ UNCHANGED <<pc, call, answered>>
      BY <1>3, BoundAssumption DEF StatementFaults, TypeOK
    <2>6. QED
      BY <2>4, <2>5 DEF TypeOK, DatabaseTyped, Statuses
  <1>4. CASE Open
    <2>1. Schema \in Seq(Statements) /\ Len(Schema) = 2
      BY DEF Schema, Statements, AllTables
    <2>2. QED
      BY <1>4, <2>1 DEF Open, TypeOK, database
  <1>5. CASE OpenFails
    BY <1>5, BoundAssumption DEF OpenFails, TypeOK, database
  <1>6. CASE Serve
    BY <1>6 DEF Serve, TypeOK, database
  <1>7. CASE StartBusiness
    <2>1. call \in Calls
      BY <1>7 DEF StartBusiness
    <2>2. /\ Business(call) \in Seq(Statements)
          /\ Len(Business(call)) = 1 \/ Len(Business(call)) = 2
      BY <2>1, ListsTyped
    <2>3. ASSUME NEW n, n = 1 \/ n = 2 PROVE n <= 2
      BY <2>3
    <2>4. Len(Business(call)) <= 2
      BY <2>2, <2>3
    <2>5. QED
      BY <1>7, <2>1, <2>2, <2>4 DEF StartBusiness, TypeOK, database
  <1>8. CASE Approve
    <2>1. <<LogRow(call, "APPROVED")>> \in Seq(Statements)
      BY <1>8 DEF Approve, Statements
    <2>2. QED
      BY <1>8, <2>1 DEF Approve, TypeOK, database
  <1>9. CASE FailBusiness
    BY <1>9 DEF FailBusiness, Return, TypeOK, database
  <1>10. CASE Finish
    BY <1>10 DEF Finish, Return, TypeOK, database
  <1>11. ASSUME NEW c \in Calls, Begin(c) PROVE TypeInv'
    <2>1. <<LogRow(c, "BLOCKED_INVALID_CAPABILITY")>> \in Seq(Statements)
      BY DEF Statements
    <2>2. JitAccounts(c) \in Seq(Statements) /\ Len(JitAccounts(c)) = 2
      BY ListsTyped, ListFacts
    <2>3. todo' \in Seq(Statements) /\ Len(todo') <= 2
      BY <1>11, <2>1, <2>2 DEF Begin
    <2>4. QED
      BY <1>11, <2>3 DEF Begin, TypeOK, database
  <1>12. CASE UNCHANGED vars
    BY <1>12 DEF vars, database, TypeOK
  <1>13. QED
    BY <1>1, <1>2, <1>3, <1>4, <1>5, <1>6, <1>7, <1>8, <1>9, <1>10, <1>11, <1>12
    DEF Next, Internal, Stopped

\* TypeOK is an invariant of the Ledger: in particular no statement list is
\* ever longer than two.
THEOREM TypeCorrect == Spec => []TypeOK
  <1>1. Init => TypeInv
    BY TypeInit DEF Init, TypeInv, InCall
  <1>2. TypeInv => TypeOK
    BY DEF TypeInv
  <1>3. QED
    BY <1>1, <1>2, TypeStep, PTL DEF Spec

-----------------------------------------------------------------------------
(* The books balance.                                                      *)

\* What the list in execution holds in each part of the component.
ShapeInv ==
  /\ pc \in {"boot", "idle", "halted", "crashed"} => todo = << >>
  /\ pc = "schema" => \A i \in 1..Len(todo) : todo[i].op = "create"
  /\ pc = "jit"    => \A i \in 1..Len(todo) : todo[i].op = "insert"
  /\ pc = "business" =>
       \A i \in 1..Len(todo) :
         /\ todo[i].op \in {"insert", "add"}
         /\ todo[i].name \in {call.src, call.dest}
  /\ pc = "approved" => todo \in {<< >>, <<LogRow(call, "APPROVED")>>}
  /\ pc = "blocked"  => todo \in {<< >>, <<LogRow(call, "BLOCKED_INVALID_CAPABILITY")>>}
  /\ pc \in {"jit", "business", "approved"} => call.token >= MinToken
  /\ pc = "blocked" => call.token < MinToken

InService == Serving \/ pc = "idle"

\* Without a fault the schema gets complete.
SchemaInv ==
  faults = 0 =>
    /\ pc = "schema" => AllTables \subseteq tables \cup {todo[i].table : i \in 1..Len(todo)}
    /\ InService => AllTables \subseteq tables

\* Without a fault the accounts of a call exist when its updates run, if the
\* column has the name that the statements give it; if not, no update runs.
AccountsInv ==
  faults = 0 =>
    /\ (pc = "jit" /\ KeyColumn = "user") =>
         {call.src, call.dest} \subseteq
           DOMAIN balance \cup {todo[i].name : i \in 1..Len(todo)}
    /\ (pc = "business" /\ KeyColumn = "user") =>
         rc = "ok" /\ {call.src, call.dest} \subseteq DOMAIN balance
    /\ (pc = "business" /\ KeyColumn # "user") => (todo = << >> => rc = "error")
    /\ pc = "approved" => KeyColumn = "user"

BooksInv ==
  (faults = 0 /\ pc \notin {"halted", "crashed"}) =>
    \A n \in Names : Held(n) = booked[n] + Ahead(n)

\* A statement that takes effect is the first of the list, and the rest of the
\* list moves up; one that calls the missing method ends the component.
LEMMA StatementFacts ==
  ASSUME TypeOK, Statement
  PROVE  /\ Len(todo) = 1 \/ Len(todo) = 2
         /\ todo[1] \in Statements /\ Compiles(todo[1])
         /\ UNCHANGED <<call, rc, faults, answered>>
         /\ \/ /\ Take(todo[1]) /\ pc' = pc /\ todo' = Tail(todo)
               /\ Len(todo') = Len(todo) - 1
               /\ \A i \in 1..Len(todo') : todo'[i] = todo[i + 1]
            \/ pc' = "crashed" /\ todo' = << >> /\ UNCHANGED database
  <1>1. /\ todo \in Seq(Statements) /\ todo # << >> /\ Len(todo) <= 2
        /\ Compiles(Head(todo))
        /\ UNCHANGED <<call, rc, faults, answered>>
    BY DEF Statement, TypeOK
  <1>2. /\ Len(todo) \in Nat \ {0}
        /\ Head(todo) = todo[1] /\ Head(todo) \in Statements
        /\ Tail(todo) \in Seq(Statements) /\ Len(Tail(todo)) = Len(todo) - 1
        /\ \A i \in 1..Len(Tail(todo)) : Tail(todo)[i] = todo[i + 1]
    BY <1>1, TailFacts
  <1>3. Len(todo) = 1 \/ Len(todo) = 2
    BY <1>1, <1>2
  <1>4. \/ Take(Head(todo)) /\ todo' = Tail(todo) /\ pc' = pc
        \/ pc' = "crashed" /\ todo' = << >> /\ UNCHANGED database
    BY DEF Statement
  <1>5. QED
    BY <1>1, <1>2, <1>3, <1>4

LEMMA ShapeStep == TypeInv /\ ShapeInv /\ [Next]_vars => ShapeInv'
  <1> SUFFICES ASSUME TypeInv, ShapeInv, [Next]_vars PROVE ShapeInv'
    OBVIOUS
  <1> USE DEF ShapeInv
  <1>1. CASE Statement
    <2>1. CASE pc' = "crashed" /\ todo' = << >>
      BY <2>1
    <2>2. CASE pc' = pc /\ todo' = Tail(todo)
      <3>1. /\ Len(todo) = 1 \/ Len(todo) = 2
            /\ Len(todo') = Len(todo) - 1
            /\ \A i \in 1..Len(todo') : todo'[i] = todo[i + 1]
            /\ todo # << >> /\ call' = call
        <4>1. TypeOK
          BY DEF TypeInv
        <4>2. todo \in Seq(Statements) /\ todo # << >> /\ call' = call
          BY <1>1, <4>1 DEF Statement, TypeOK
        <4>3. QED
          BY <1>1, <2>2, <4>1, <4>2, StatementFacts, TailFacts
      <3>2. \A i \in 1..Len(todo') : i + 1 \in 1..Len(todo)
        BY <3>1
      <3>3. pc \in {"approved", "blocked"} => todo' = << >>
        BY <2>2, <3>1
      <3>4. pc \notin {"boot", "idle", "halted", "crashed"}
        BY <3>1
      <3>5. QED
        BY <2>2, <3>1, <3>2, <3>3, <3>4
    <2>3. QED
      BY <1>1, <2>1, <2>2, StatementFacts DEF TypeInv
  <1>2. CASE StatementRejected
    BY <1>2 DEF StatementRejected
  <1>3. CASE StatementFaults
    BY <1>3 DEF StatementFaults
  <1>4. CASE Open
    BY <1>4 DEF Open, Schema, CreateTable
  <1>5. CASE OpenFails
    BY <1>5 DEF OpenFails
  <1>6. CASE Serve
    BY <1>6 DEF Serve
  <1>7. CASE StartBusiness
    <2>1. call \in Calls
      BY <1>7 DEF StartBusiness, TypeInv, InCall
    <2>2. \A i \in 1..Len(Business(call)) :
            /\ Business(call)[i].op \in {"insert", "add"}
            /\ Business(call)[i].name \in {call.src, call.dest}
      <3>1. CASE call.tx_type = "TRANSFER"
        BY <3>1 DEF Business, Add
      <3>2. CASE call.tx_type = "DEPOSIT"
        BY <3>2 DEF Business, Add
      <3>3. CASE call.tx_type = "WITHDRAWAL"
        BY <3>3 DEF Business, Add
      <3>4. CASE call.tx_type = "OTHER"
        BY <3>4 DEF Business, JitAccounts, InsertName
      <3>5. QED
        BY <2>1, <3>1, <3>2, <3>3, <3>4, CallFacts DEF TxTypes
    <2>3. QED
      BY <1>7, <2>2 DEF StartBusiness
  <1>8. CASE Approve
    BY <1>8 DEF Approve
  <1>9. CASE FailBusiness
    BY <1>9 DEF FailBusiness, Return
  <1>10. CASE Finish
    BY <1>10 DEF Finish, Return
  <1>11. ASSUME NEW c \in Calls, Begin(c) PROVE ShapeInv'
    <2>1. CASE c.token < MinToken
      BY <1>11, <2>1 DEF Begin
    <2>2. CASE ~(c.token < MinToken)
      <3>1. c.token >= MinToken
        BY <2>2, CallFacts, TokensAssumption
      <3>2. pc' = "jit" /\ todo' = JitAccounts(c) /\ call' = c
        BY <1>11, <2>2 DEF Begin
      <3>3. QED
        BY <3>1, <3>2 DEF JitAccounts, InsertName
    <2>3. QED
      BY <2>1, <2>2
  <1>12. CASE UNCHANGED vars
    BY <1>12 DEF vars
  <1>13. QED
    BY <1>1, <1>2, <1>3, <1>4, <1>5, <1>6, <1>7, <1>8, <1>9, <1>10, <1>11, <1>12
    DEF Next, Internal, Stopped

\* What statements of each kind do to tables, accounts and books.
LEMMA TakeEffects ==
  ASSUME NEW s \in Statements, Take(s)
  PROVE  /\ tables \subseteq tables' /\ DOMAIN balance \subseteq DOMAIN balance'
         /\ s.op = "create" => tables' = tables \cup {s.table}
         /\ s.op # "add" => \A n \in Names : Held(n)' = Held(n)
         /\ s.op = "insert" => s.name \in DOMAIN balance'
         /\ (s.op = "add" /\ s.name \in DOMAIN balance) =>
              \A n \in Names : Held(n)' = IF n = s.name THEN Held(n) + s.by ELSE Held(n)
         /\ s.op # "log" => booked' = booked
  <1>1. tables \subseteq tables' /\ (s.op = "create" => tables' = tables \cup {s.table})
    BY DEF Take
  <1>2. CASE s.op = "insert"
    <2>1. balance' = Inserted(s.name)
      BY <1>2 DEF Take
    <2>2. DOMAIN balance' = DOMAIN balance \cup {s.name}
      BY <2>1 DEF Inserted
    <2>3. ASSUME NEW n \in Names PROVE Held(n)' = Held(n)
      BY <2>1, <2>2 DEF Held, Inserted
    <2>4. QED
      BY <1>1, <1>2, <2>2, <2>3 DEF Take
  <1>3. CASE s.op = "add"
    <2>1. balance' = Updated(s.name, s.by)
      BY <1>3 DEF Take
    <2>2. DOMAIN balance' = DOMAIN balance
      BY <2>1 DEF Updated
    <2>3. ASSUME NEW n \in Names, s.name \in DOMAIN balance
          PROVE  Held(n)' = IF n = s.name THEN Held(n) + s.by ELSE Held(n)
      BY <2>1, <2>2, <2>3 DEF Held, Updated
    <2>4. QED
      BY <1>1, <1>3, <2>2, <2>3 DEF Take
  <1>4. CASE s.op \notin {"insert", "add"}
    <2>1. balance' = balance
      BY <1>4 DEF Take
    <2>2. \A n \in Names : Held(n)' = Held(n)
      BY <2>1 DEF Held
    <2>3. QED
      BY <1>1, <1>4, <2>1, <2>2 DEF Take
  <1>5. QED
    BY <1>2, <1>3, <1>4

LEMMA SchemaStep == TypeInv /\ ShapeInv /\ SchemaInv /\ [Next]_vars => SchemaInv'
  <1> SUFFICES ASSUME TypeInv, ShapeInv, SchemaInv, [Next]_vars, faults' = 0
               PROVE  /\ (pc = "schema" => AllTables \subseteq
                            tables \cup {todo[i].table : i \in 1..Len(todo)})'
                      /\ (InService => AllTables \subseteq tables)'
    BY DEF SchemaInv
  <1> USE DEF SchemaInv, InService, Serving
  <1>0. faults \in Nat
    BY BoundAssumption DEF TypeInv, TypeOK
  <1>1. CASE Statement
    <2>1. CASE pc' = "crashed"
      BY <2>1
    <2>2. CASE pc' # "crashed"
      <3>1. /\ Len(todo) = 1 \/ Len(todo) = 2
            /\ todo[1] \in Statements /\ faults = 0
            /\ Take(todo[1]) /\ pc' = pc
            /\ Len(todo') = Len(todo) - 1
            /\ \A i \in 1..Len(todo') : todo'[i] = todo[i + 1]
        BY <1>1, <2>2, StatementFacts DEF TypeInv
      <3>2. tables \subseteq tables'
            /\ (todo[1].op = "create" => tables' = tables \cup {todo[1].table})
        BY <3>1, TakeEffects
      <3>3. CASE pc = "schema"
        <4>1. todo[1].op = "create"
          BY <3>1, <3>3 DEF ShapeInv
        <4>2. {todo[i].table : i \in 1..Len(todo)} \subseteq
                {todo[1].table} \cup {todo'[i].table : i \in 1..Len(todo')}
          BY <3>1
        <4>3. QED
          BY <3>1, <3>2, <3>3, <4>1, <4>2
      <3>4. CASE pc # "schema"
        BY <3>1, <3>2, <3>4
      <3>5. QED
        BY <3>3, <3>4
    <2>3. QED
      BY <2>1, <2>2
  <1>2. CASE StatementRejected
    <2>1. pc = "schema" => Compiles(todo[1])
      <3>1. todo \in Seq(Statements) /\ todo # << >>
        BY <1>2 DEF StatementRejected, TypeInv, TypeOK
      <3>2. 1 \in 1..Len(todo)
        BY <3>1
      <3>3. QED
        BY <3>2 DEF ShapeInv, Compiles
    <2>2. todo # << >> /\ Head(todo) = todo[1]
      BY <1>2, TailFacts DEF StatementRejected, TypeInv, TypeOK
    <2>3. QED
      BY <1>2, <2>1, <2>2 DEF StatementRejected, database
  <1>3. CASE StatementFaults
    BY <1>0, <1>3 DEF StatementFaults
  <1>4. CASE Open
    BY <1>4 DEF Open, Schema, CreateTable, AllTables
  <1>5. CASE OpenFails
    BY <1>0, <1>5 DEF OpenFails
  <1>6. CASE Serve
    BY <1>6 DEF Serve, database
  <1>7. CASE StartBusiness
    BY <1>7 DEF StartBusiness, database
  <1>8. CASE Approve
    BY <1>8 DEF Approve, database
  <1>9. CASE FailBusiness
    BY <1>9 DEF FailBusiness, Return, database
  <1>10. CASE Finish
    BY <1>10 DEF Finish, Return, database
  <1>11. ASSUME NEW c \in Calls, Begin(c)
         PROVE  /\ pc' # "schema"
                /\ (InService => AllTables \subseteq tables)'
    BY <1>11 DEF Begin, database
  <1>12. CASE UNCHANGED vars
    BY <1>12 DEF vars, database
  <1>13. QED
    BY <1>1, <1>2, <1>3, <1>4, <1>5, <1>6, <1>7, <1>8, <1>9, <1>10, <1>11, <1>12
    DEF Next, Internal, Stopped

\* Without a fault, a statement is rejected only for the name of the column.
LEMMA RejectionFacts ==
  ASSUME TypeInv, ShapeInv, SchemaInv, StatementRejected, faults = 0
  PROVE  pc \in {"jit", "business"} /\ KeyColumn # "user"
  <1>1. /\ todo \in Seq(Statements) /\ todo # << >> /\ ~Compiles(Head(todo))
    BY DEF StatementRejected, TypeInv, TypeOK
  <1>2. 1 \in 1..Len(todo) /\ Head(todo) = todo[1] /\ ~Compiles(todo[1])
    BY <1>1, TailFacts
  <1>3. pc \notin {"boot", "idle", "halted", "crashed"}
    BY <1>1 DEF ShapeInv
  <1>4. pc # "schema"
    BY <1>2 DEF ShapeInv, Compiles
  <1>5. AllTables \subseteq tables
    BY <1>3, <1>4 DEF SchemaInv, InService, Serving, TypeInv, TypeOK
  <1>6. pc \notin {"approved", "blocked"}
    <2>1. pc \in {"approved", "blocked"} => todo[1].op = "log"
      BY <1>1 DEF ShapeInv, LogRow
    <2>2. todo[1].op = "log" => Compiles(todo[1])
      BY <1>5 DEF Compiles, AllTables
    <2>3. QED
      BY <1>2, <2>1, <2>2
  <1>7. pc \in {"jit", "business"}
    BY <1>3, <1>4, <1>6 DEF TypeInv, TypeOK
  <1>8. todo[1].op \in {"insert", "add"}
    BY <1>2, <1>7 DEF ShapeInv
  <1>9. QED
    BY <1>2, <1>5, <1>7, <1>8 DEF Compiles, AllTables

LEMMA AccountsStep ==
  TypeInv /\ ShapeInv /\ SchemaInv /\ AccountsInv /\ [Next]_vars => AccountsInv'
  <1> SUFFICES ASSUME TypeInv, ShapeInv, SchemaInv, AccountsInv, [Next]_vars,
                      faults' = 0
               PROVE  AccountsInv'
    BY DEF AccountsInv
  <1> USE DEF AccountsInv
  <1>0. faults \in Nat
    BY BoundAssumption DEF TypeInv, TypeOK
  <1>1. CASE Statement
    <2>1. CASE pc' = "crashed"
      BY <2>1
    <2>2. CASE pc' # "crashed"
      <3>1. /\ Len(todo) = 1 \/ Len(todo) = 2
            /\ todo[1] \in Statements /\ Compiles(todo[1])
            /\ Take(todo[1]) /\ pc' = pc /\ rc' = rc /\ call' = call
            /\ faults = 0
            /\ Len(todo') = Len(todo) - 1
            /\ \A i \in 1..Len(todo') : todo'[i] = todo[i + 1]
        BY <1>1, <2>2, StatementFacts DEF TypeInv
      <3>2. /\ DOMAIN balance \subseteq DOMAIN balance'
            /\ todo[1].op = "insert" => todo[1].name \in DOMAIN balance'
        BY <3>1, TakeEffects
      <3>3. CASE pc = "jit"
        <4>1. todo[1].op = "insert"
          BY <3>1, <3>3 DEF ShapeInv
        <4>2. {todo[i].name : i \in 1..Len(todo)} \subseteq
                {todo[1].name} \cup {todo'[i].name : i \in 1..Len(todo')}
          BY <3>1
        <4>3. QED
          BY <3>1, <3>2, <3>3, <4>1, <4>2
      <3>4. CASE pc = "business"
        <4>1. todo[1].op \in {"insert", "add"}
          BY <3>1, <3>4 DEF ShapeInv
        <4>2. KeyColumn = "user"
          BY <3>1, <4>1 DEF Compiles
        <4>3. QED
          BY <3>1, <3>2, <3>4, <4>2
      <3>5. CASE pc \notin {"jit", "business"}
        BY <3>1, <3>5
      <3>6. QED
        BY <3>3, <3>4, <3>5
    <2>3. QED
      BY <2>1, <2>2
  <1>2. CASE StatementRejected
    <2>1. faults = 0
      BY <1>2 DEF StatementRejected
    <2>2. pc \in {"jit", "business"} /\ KeyColumn # "user"
      BY <1>2, <2>1, RejectionFacts
    <2>3. QED
      BY <1>2, <2>2 DEF StatementRejected
  <1>3. CASE StatementFaults
    BY <1>0, <1>3 DEF StatementFaults
  <1>4. CASE Open
    BY <1>4 DEF Open
  <1>5. CASE OpenFails
    BY <1>5 DEF OpenFails
  <1>6. CASE Serve
    BY <1>6 DEF Serve
  <1>7. CASE StartBusiness
    <2>1. call \in Calls
      BY <1>7 DEF StartBusiness, TypeInv, InCall
    <2>2. Business(call) # << >>
      <3>1. Len(Business(call)) = 1 \/ Len(Business(call)) = 2
        BY <2>1, ListsTyped
      <3>2. Len(<< >>) = 0
        OBVIOUS
      <3>3. QED
        BY <3>1, <3>2
    <2>3. {todo[i].name : i \in 1..Len(todo)} = {}
      BY <1>7 DEF StartBusiness
    <2>4. QED
      BY <1>7, <2>2, <2>3 DEF StartBusiness, database
  <1>8. CASE Approve
    BY <1>8, BuildAssumption DEF Approve
  <1>9. CASE FailBusiness
    BY <1>9 DEF FailBusiness, Return
  <1>10. CASE Finish
    BY <1>10 DEF Finish, Return
  <1>11. ASSUME NEW c \in Calls, Begin(c) PROVE AccountsInv'
    <2>1. CASE c.token < MinToken
      BY <1>11, <2>1 DEF Begin
    <2>2. CASE ~(c.token < MinToken)
      <3>1. pc' = "jit" /\ todo' = JitAccounts(c) /\ call' = c
        BY <1>11, <2>2 DEF Begin
      <3>2. {c.src, c.dest} \subseteq {todo'[i].name : i \in 1..Len(todo')}
        BY <3>1 DEF JitAccounts, InsertName
      <3>3. QED
        BY <3>1, <3>2
    <2>3. QED
      BY <2>1, <2>2
  <1>12. CASE UNCHANGED vars
    BY <1>12 DEF vars, database
  <1>13. QED
    BY <1>1, <1>2, <1>3, <1>4, <1>5, <1>6, <1>7, <1>8, <1>9, <1>10, <1>11, <1>12
    DEF Next, Internal, Stopped

\* The business statements add up to the effect of their type.
LEMMA BusinessPending ==
  ASSUME TypeOK, NEW n \in Names, call \in Calls, todo' = Business(call)
  PROVE  Pending(n)' = Effect(call, n)
  <1>1. call.amount \in Int
    BY CallFacts
  <1>2. CASE call.tx_type = "TRANSFER"
    <2>1. todo' = <<Add(call.src, -call.amount), Add(call.dest, call.amount)>>
      BY <1>2, ListFacts
    <2>2. Pending(n)' = Added(Add(call.src, -call.amount), n)
                          + Added(Add(call.dest, call.amount), n)
      BY <2>1 DEF Pending, Added, Add
    <2>3. QED
      BY <1>1, <1>2, <2>2 DEF Added, Add, Effect
  <1>3. CASE call.tx_type = "DEPOSIT"
    <2>1. todo' = <<Add(call.dest, call.amount)>>
      BY <1>3, ListFacts
    <2>2. Pending(n)' = Added(Add(call.dest, call.amount), n)
      BY <2>1 DEF Pending, Added, Add
    <2>3. QED
      BY <1>1, <1>3, <2>2 DEF Added, Add, Effect
  <1>4. CASE call.tx_type = "WITHDRAWAL"
    <2>1. todo' = <<Add(call.src, -call.amount)>>
      BY <1>4, ListFacts
    <2>2. Pending(n)' = Added(Add(call.src, -call.amount), n)
      BY <2>1 DEF Pending, Added, Add
    <2>3. QED
      BY <1>1, <1>4, <2>2 DEF Added, Add, Effect
  <1>5. CASE call.tx_type = "OTHER"
    <2>1. todo' = <<InsertName(call.src), InsertName(call.dest)>>
      BY <1>5, ListFacts DEF JitAccounts
    <2>2. Pending(n)' = 0
      BY <2>1 DEF Pending, Added, InsertName
    <2>3. QED
      BY <1>5, <2>2 DEF Effect
  <1>6. QED
    BY <1>2, <1>3, <1>4, <1>5, CallFacts DEF TxTypes

\* When the first statement is done, what is pending is less by what it added.
LEMMA PendingRest ==
  ASSUME TypeOK, NEW n \in Names,
         Len(todo) = 1 \/ Len(todo) = 2,
         Len(todo') = Len(todo) - 1,
         \A i \in 1..Len(todo') : todo'[i] = todo[i + 1]
  PROVE  /\ Pending(n) \in Int /\ Pending(n)' \in Int /\ Added(todo[1], n) \in Int
         /\ Pending(n)' = Pending(n) - Added(todo[1], n)
  <1>1. ASSUME NEW s \in Statements PROVE Added(s, n) \in Int
    BY AmountAssumption DEF Added, Statements, CreateTable, InsertName, Add, LogRow, Amounts
  <1>0. \A i \in 1..Len(todo) : todo[i] \in Statements
    <2>1. todo \in Seq(Statements)
      BY DEF TypeOK
    <2>2. QED
      BY <2>1
  <1>2. CASE Len(todo) = 1
    <2>1. todo[1] \in Statements /\ Added(todo[1], n) \in Int
      BY <1>0, <1>1, <1>2
    <2>2. Pending(n) = Added(todo[1], n) /\ Pending(n)' = 0
      BY <1>2 DEF Pending
    <2>3. QED
      BY <2>1, <2>2
  <1>3. CASE Len(todo) = 2
    <2>1. todo[1] \in Statements /\ todo[2] \in Statements
      BY <1>0, <1>3
    <2>2. Added(todo[1], n) \in Int /\ Added(todo[2], n) \in Int
      BY <1>1, <2>1
    <2>3. todo'[1] = todo[2] /\ Len(todo') = 1
      BY <1>3
    <2>4. Pending(n) = Added(todo[1], n) + Added(todo[2], n)
      BY <1>3 DEF Pending
    <2>5. Pending(n)' = Added(todo[2], n)
      BY <2>3 DEF Pending, Added
    <2>6. QED
      BY <2>2, <2>4, <2>5
  <1>4. QED
    BY <1>2, <1>3

\* The numbers of the books.
LEMMA BooksTyped ==
  ASSUME TypeInv, NEW n \in Names
  PROVE  /\ Held(n) \in Int /\ booked[n] \in Int
         /\ pc \in {"jit", "business", "approved", "blocked"} => Effect(call, n) \in Int
  BY EffectTyped DEF TypeInv, InCall, TypeOK, Held

IInv == TypeInv /\ ShapeInv /\ SchemaInv /\ AccountsInv /\ BooksInv

\* A statement that takes effect keeps the books: what it adds to an account
\* is no longer pending, and the row of an approved call books its effect.
LEMMA StatementBooks ==
  ASSUME IInv, Statement, pc' # "crashed", faults = 0, NEW n \in Names
  PROVE  Held(n)' = booked'[n] + Ahead(n)'
  <1>1. /\ Len(todo) = 1 \/ Len(todo) = 2
        /\ todo[1] \in Statements /\ Compiles(todo[1])
        /\ Take(todo[1]) /\ pc' = pc /\ call' = call
        /\ Len(todo') = Len(todo) - 1
        /\ \A i \in 1..Len(todo') : todo'[i] = todo[i + 1]
    BY StatementFacts DEF IInv, TypeInv
  <1>2. pc \notin {"boot", "idle", "halted", "crashed"}
    BY <1>1 DEF IInv, ShapeInv
  <1>3. Held(n) = booked[n] + Ahead(n) /\ Held(n) \in Int /\ booked[n] \in Int
    BY <1>2, BooksTyped DEF IInv, BooksInv
  <1>4. CASE pc \in {"schema", "jit"}
    <2>1. todo[1].op \in {"create", "insert"}
      BY <1>1, <1>4 DEF IInv, ShapeInv
    <2>2. Held(n)' = Held(n) /\ booked' = booked
      BY <1>1, <2>1, TakeEffects
    <2>3. QED
      BY <1>1, <1>3, <1>4, <2>2 DEF Ahead
  <1>5. CASE pc = "business"
    <2>1. todo[1].op \in {"insert", "add"} /\ todo[1].name \in {call.src, call.dest}
      BY <1>1, <1>5 DEF IInv, ShapeInv
    <2>2. KeyColumn = "user"
      BY <1>1, <2>1 DEF Compiles
    <2>3. todo[1].name \in DOMAIN balance
      BY <1>5, <2>1, <2>2 DEF IInv, AccountsInv
    <2>4. booked' = booked
      BY <1>1, <2>1, TakeEffects
    <2>5. /\ Pending(n) \in Int /\ Pending(n)' \in Int /\ Added(todo[1], n) \in Int
          /\ Pending(n)' = Pending(n) - Added(todo[1], n)
      BY <1>1, PendingRest DEF IInv, TypeInv
    <2>6. Held(n)' = Held(n) + Added(todo[1], n)
      <3>1. CASE todo[1].op = "insert"
        <4>1. Held(n)' = Held(n)
          BY <1>1, <3>1, TakeEffects
        <4>2. Added(todo[1], n) = 0
          BY <3>1 DEF Added
        <4>3. QED
          BY <1>3, <4>1, <4>2
      <3>2. CASE todo[1].op = "add"
        <4>1. Held(n)' = IF n = todo[1].name THEN Held(n) + todo[1].by ELSE Held(n)
          BY <1>1, <2>3, <3>2, TakeEffects
        <4>2. QED
          BY <1>3, <3>2, <4>1 DEF Added
      <3>3. QED
        BY <2>1, <3>1, <3>2
    <2>7. Effect(call, n) \in Int
      BY <1>5, BooksTyped DEF IInv
    <2>8. Ahead(n) = Effect(call, n) - Pending(n)
      BY <1>5, <2>2 DEF Ahead
    <2>9. Ahead(n)' = Effect(call, n) - Pending(n)'
      <3>1. Effect(call, n)' = Effect(call, n)
        BY <1>1 DEF Effect
      <3>2. QED
        BY <1>1, <1>5, <2>2, <3>1 DEF Ahead
    <2>10. QED
      BY <1>3, <2>4, <2>5, <2>6, <2>7, <2>8, <2>9
  <1>6. CASE pc = "approved"
    <2>1. todo = <<LogRow(call, "APPROVED")>>
      BY <1>1, <1>6 DEF IInv, ShapeInv
    <2>2. todo[1].op = "log" /\ todo[1].row = call /\ todo[1].status = "APPROVED"
      BY <2>1 DEF LogRow
    <2>3. Held(n)' = Held(n)
      BY <1>1, <2>2, TakeEffects
    <2>4. booked'[n] = booked[n] + Effect(call, n)
      BY <1>1, <2>2 DEF Take
    <2>5. Ahead(n) = Effect(call, n)
      BY <1>6, <2>1 DEF Ahead
    <2>6. todo' = << >>
      BY <1>1, <2>1
    <2>7. Ahead(n)' = 0
      BY <1>1, <1>6, <2>6 DEF Ahead
    <2>8. Effect(call, n) \in Int
      BY <1>6, BooksTyped DEF IInv
    <2>9. QED
      BY <1>3, <2>3, <2>4, <2>5, <2>7, <2>8
  <1>7. CASE pc = "blocked"
    <2>1. todo[1].op = "log" /\ todo[1].status # "APPROVED"
      BY <1>1, <1>7 DEF IInv, ShapeInv, LogRow
    <2>2. Held(n)' = Held(n)
      BY <1>1, <2>1, TakeEffects
    <2>3. booked' = booked
      BY <1>1, <2>1 DEF Take
    <2>4. QED
      BY <1>1, <1>3, <1>7, <2>2, <2>3 DEF Ahead
  <1>8. QED
    BY <1>2, <1>4, <1>5, <1>6, <1>7 DEF IInv, TypeInv, TypeOK

\* A step that leaves the accounts and the books alone keeps the invariant if
\* it leaves the account as far ahead as it was.
LEMMA SameBooks ==
  ASSUME UNCHANGED database, NEW n \in Names,
         Held(n) = booked[n] + Ahead(n), Ahead(n)' = Ahead(n)
  PROVE  Held(n)' = booked'[n] + Ahead(n)'
  BY DEF Held, database

LEMMA BooksStep == IInv /\ [Next]_vars => BooksInv'
  <1> SUFFICES ASSUME IInv, [Next]_vars, faults' = 0,
                      pc' \notin {"halted", "crashed"}, NEW n \in Names
               PROVE  Held(n)' = booked'[n] + Ahead(n)'
    BY DEF BooksInv
  <1>0. faults \in Nat
    BY BoundAssumption DEF IInv, TypeInv, TypeOK
  <1>1. CASE Statement
    <2>1. faults = 0
      BY <1>1 DEF Statement
    <2>2. QED
      BY <1>1, <2>1, StatementBooks
  <1>2. CASE StatementRejected
    <2>1. faults = 0 /\ UNCHANGED database /\ pc' = pc /\ call' = call
      BY <1>2 DEF StatementRejected
    <2>2. pc \in {"jit", "business"} /\ KeyColumn # "user"
      BY <1>2, <2>1, RejectionFacts DEF IInv
    <2>3. Held(n) = booked[n] + Ahead(n)
      BY <2>1, <2>2 DEF IInv, BooksInv
    <2>4. Ahead(n)' = Ahead(n)
      BY <2>1, <2>2 DEF Ahead
    <2>5. QED
      BY <2>1, <2>3, <2>4, SameBooks
  <1>3. CASE StatementFaults
    BY <1>0, <1>3 DEF StatementFaults
  <1>4. CASE OpenFails
    BY <1>4 DEF OpenFails
  <1>5. CASE Open \/ Serve \/ \E c \in Calls : Begin(c)
    <2>1. /\ UNCHANGED database /\ faults = 0
          /\ pc \in {"boot", "schema", "idle"}
          /\ pc' \in {"schema", "idle", "jit", "blocked"}
      BY <1>5 DEF Open, Serve, Begin
    <2>2. Ahead(n)' = 0 /\ Ahead(n) = 0
      BY <2>1 DEF Ahead
    <2>3. Held(n) = booked[n] + Ahead(n)
      BY <2>1 DEF IInv, BooksInv
    <2>4. QED
      BY <2>1, <2>2, <2>3, SameBooks
  <1>6. CASE StartBusiness
    <2>1. /\ UNCHANGED database /\ faults = 0 /\ call' = call
          /\ pc = "jit" /\ pc' = "business" /\ todo' = Business(call)
      BY <1>6 DEF StartBusiness
    <2>2. call \in Calls
      BY <2>1 DEF IInv, TypeInv, InCall
    <2>3. Pending(n)' = Effect(call, n) /\ Effect(call, n) \in Int
      BY <2>1, <2>2, BusinessPending, EffectTyped DEF IInv, TypeInv
    <2>4. Effect(call, n)' = Effect(call, n)
      BY <2>1 DEF Effect
    <2>5. Ahead(n)' = 0 /\ Ahead(n) = 0
      BY <2>1, <2>3, <2>4 DEF Ahead
    <2>6. Held(n) = booked[n] + Ahead(n)
      BY <2>1 DEF IInv, BooksInv
    <2>7. QED
      BY <2>1, <2>5, <2>6, SameBooks
  <1>7. CASE Approve
    <2>1. /\ UNCHANGED database /\ faults = 0 /\ call' = call
          /\ pc = "business" /\ todo = << >> /\ rc = "ok"
          /\ pc' = "approved" /\ todo' = <<LogRow(call, "APPROVED")>>
      BY <1>7 DEF Approve
    <2>2. KeyColumn = "user" /\ Effect(call, n) \in Int
      BY <2>1, BooksTyped DEF IInv, AccountsInv
    <2>3. Pending(n) = 0
      BY <2>1 DEF Pending
    <2>4. Effect(call, n)' = Effect(call, n)
      BY <2>1 DEF Effect
    <2>5. Ahead(n) = Effect(call, n) /\ Ahead(n)' = Effect(call, n)
      BY <2>1, <2>2, <2>3, <2>4 DEF Ahead
    <2>6. Held(n) = booked[n] + Ahead(n)
      BY <2>1 DEF IInv, BooksInv
    <2>7. QED
      BY <2>1, <2>5, <2>6, SameBooks
  <1>8. CASE FailBusiness \/ Finish
    <2>1. /\ UNCHANGED database /\ faults = 0 /\ pc' = "idle" /\ todo = << >>
          /\ \/ pc = "business" /\ rc = "error"
             \/ pc \in {"blocked", "approved"}
      BY <1>8 DEF FailBusiness, Finish, Return
    <2>2. pc = "business" => KeyColumn # "user"
      BY <2>1 DEF IInv, AccountsInv
    <2>3. Ahead(n)' = 0 /\ Ahead(n) = 0
      BY <2>1, <2>2 DEF Ahead
    <2>4. Held(n) = booked[n] + Ahead(n)
      BY <2>1 DEF IInv, BooksInv
    <2>5. QED
      BY <2>1, <2>3, <2>4, SameBooks
  <1>9. CASE UNCHANGED vars
    <2>1. UNCHANGED <<database, pc, call, todo, faults>>
      BY <1>9 DEF vars
    <2>2. Ahead(n)' = Ahead(n)
      BY <2>1 DEF Ahead, Effect, Pending, Added
    <2>3. Held(n) = booked[n] + Ahead(n)
      BY <2>1 DEF IInv, BooksInv
    <2>4. QED
      BY <2>1, <2>2, <2>3, SameBooks
  <1>10. QED
    BY <1>1, <1>2, <1>3, <1>4, <1>5, <1>6, <1>7, <1>8, <1>9
    DEF Next, Internal, Stopped

LEMMA InvInit == Init => IInv
  <1> SUFFICES ASSUME Init PROVE IInv
    OBVIOUS
  <1>1. TypeInv
    BY TypeInit DEF Init, TypeInv, InCall
  <1>2. ShapeInv /\ SchemaInv /\ AccountsInv
    BY DEF Init, ShapeInv, SchemaInv, AccountsInv, InService, Serving
  <1>3. ASSUME NEW n \in Names PROVE Held(n) = booked[n] + Ahead(n)
    BY DEF Init, Held, Ahead
  <1>4. QED
    BY <1>1, <1>2, <1>3 DEF IInv, BooksInv

LEMMA InvStep == IInv /\ [Next]_vars => IInv'
  BY TypeStep, ShapeStep, SchemaStep, AccountsStep, BooksStep DEF IInv

\* BooksBalance is an invariant: between calls that no fault has hit, every
\* account holds what the APPROVED rows add up to, for any names, amounts and
\* number of calls.
THEOREM BooksCorrect == Spec => []BooksBalance
  <1>1. IInv => BooksBalance
    <2> SUFFICES ASSUME IInv, pc = "idle", faults = 0, NEW n \in Names
                 PROVE  Held(n) = booked[n]
      BY DEF BooksBalance
    <2>1. Held(n) = booked[n] + Ahead(n) /\ Ahead(n) = 0
      BY DEF IInv, BooksInv, Ahead
    <2>2. QED
      BY <2>1, BooksTyped DEF IInv
  <1>2. QED
    BY <1>1, InvInit, InvStep, PTL DEF Spec

-----------------------------------------------------------------------------
(* The audit log is complete.                                              *)

StatusOf(p) == IF p = "approved" THEN "APPROVED" ELSE "BLOCKED_INVALID_CAPABILITY"

\* What AuditComplete says of one call.
RowAgrees(i) ==
  /\ log[i].call = answered[i].call
  /\ log[i].status = "APPROVED" <=> answered[i].result = 0
  /\ answered[i].result = 0 <=> answered[i].call.token >= MinToken

AuditInv ==
  (faults = 0 /\ KeyColumn = "user" /\ pc \notin {"halted", "crashed"}) =>
    /\ Len(log) = Len(answered) + (IF Logged THEN 1 ELSE 0)
    /\ \A i \in 1..Len(answered) : RowAgrees(i)
    /\ Logged => log[Len(log)] = [call |-> call, status |-> StatusOf(pc)]

AInv == IInv /\ AuditInv

\* A step that touches neither the log nor the answers keeps the invariant if
\* the call is neither about to return before nor after it.
LEMMA SameAudit ==
  ASSUME AuditInv, UNCHANGED <<log, answered>>, ~Logged, ~Logged',
         pc \notin {"halted", "crashed"}, faults' = 0 => faults = 0
  PROVE  AuditInv'
  BY DEF AuditInv, RowAgrees

\* A statement that takes effect writes the row of the call, or none.
LEMMA StatementAudit ==
  ASSUME AInv, Statement, pc' # "crashed", faults = 0, KeyColumn = "user"
  PROVE  AuditInv'
  <1>1. /\ Len(todo) = 1 \/ Len(todo) = 2
        /\ todo[1] \in Statements
        /\ Take(todo[1]) /\ pc' = pc /\ call' = call /\ answered' = answered
        /\ Len(todo') = Len(todo) - 1
    BY StatementFacts DEF AInv, IInv, TypeInv
  <1>2. pc \notin {"boot", "idle", "halted", "crashed"} /\ todo # << >>
    BY <1>1 DEF AInv, IInv, ShapeInv
  <1>3. /\ ~Logged
        /\ Len(log) = Len(answered)
        /\ \A i \in 1..Len(answered) : RowAgrees(i)
    <2>1. ~Logged
      BY <1>2 DEF Logged
    <2>2. Len(answered) \in Nat
      BY DEF AInv, IInv, TypeInv, TypeOK
    <2>3. QED
      BY <1>2, <2>1, <2>2 DEF AInv, AuditInv
  <1>4. CASE pc \in {"approved", "blocked"}
    <2>1. todo = <<LogRow(call, StatusOf(pc))>>
      BY <1>2, <1>4 DEF AInv, IInv, ShapeInv, StatusOf
    <2>2. todo' = << >> /\ Logged'
      <3>1. Len(todo') = 0
        BY <1>1, <2>1
      <3>2. todo' \in Seq(Statements)
        BY <1>1, TypeStep DEF AInv, IInv, TypeInv, TypeOK, Next, Internal
      <3>3. QED
        BY <1>1, <1>4, <3>1, <3>2 DEF Logged
    <2>3. log' = Append(log, [call |-> call, status |-> StatusOf(pc)])
      <3>1. todo[1].op = "log" /\ todo[1].row = call /\ todo[1].status = StatusOf(pc)
        BY <2>1 DEF LogRow
      <3>2. QED
        BY <1>1, <3>1 DEF Take
    <2>4. log \in Seq([call : Calls, status : Statuses]) /\ Len(answered) \in Nat
      BY DEF AInv, IInv, TypeInv, TypeOK, Statuses
    <2>5. /\ Len(log') = Len(log) + 1
          /\ log'[Len(log) + 1] = [call |-> call, status |-> StatusOf(pc)]
          /\ \A i \in 1..Len(log) : log'[i] = log[i]
      <3> DEFINE row == [call |-> call, status |-> StatusOf(pc)]
      <3>1. call \in Calls
        BY <1>4 DEF AInv, IInv, TypeInv, InCall
      <3>2. row \in [call : Calls, status : Statuses]
        BY <3>1 DEF StatusOf, Statuses
      <3> HIDE DEF row
      <3>3. log' = Append(log, row)
        BY <2>3 DEF row
      <3>4. /\ Len(log') = Len(log) + 1 /\ log'[Len(log) + 1] = row
            /\ \A i \in 1..Len(log) : log'[i] = log[i]
        BY <2>4, <3>2, <3>3
      <3>5. QED
        BY <3>4 DEF row
    <2>6. \A i \in 1..Len(answered') : RowAgrees(i)'
      BY <1>1, <1>3, <2>4, <2>5 DEF RowAgrees
    <2>7. Len(log') = Len(answered') + 1
      BY <1>1, <1>3, <2>5
    <2>8. log'[Len(log')] = [call |-> call', status |-> StatusOf(pc')]
      BY <1>1, <2>5
    <2>9. QED
      BY <2>2, <2>6, <2>7, <2>8 DEF AuditInv, StatusOf
  <1>5. CASE pc \notin {"approved", "blocked"}
    <2>1. todo[1].op # "log"
      BY <1>1, <1>2, <1>5 DEF AInv, IInv, ShapeInv, TypeInv, TypeOK
    <2>2. log' = log
      BY <1>1, <2>1 DEF Take
    <2>3. ~Logged'
      BY <1>1, <1>5 DEF Logged
    <2>4. QED
      BY <1>1, <1>2, <1>3, <2>2, <2>3, SameAudit DEF AInv
  <1>6. QED
    BY <1>4, <1>5

\* The call returns what its row says.
LEMMA FinishAudit ==
  ASSUME AInv, Finish, faults = 0, KeyColumn = "user"
  PROVE  AuditInv'
  <1> DEFINE result == IF call.token >= MinToken THEN 0 ELSE -1
             answer == [call |-> call, result |-> result]
  <1>1. /\ pc \in {"blocked", "approved"} /\ todo = << >> /\ Logged
        /\ pc' = "idle" /\ answered' = Append(answered, answer)
        /\ log' = log
    BY DEF Finish, Return, database, Logged
  <1>2. /\ call \in Calls /\ call.token \in Int
        /\ call.token >= MinToken <=> pc = "approved"
    <2>1. call \in Calls
      BY <1>1 DEF AInv, IInv, TypeInv, InCall
    <2>2. call.token \in Int
      BY <2>1, CallFacts
    <2>3. pc = "approved" => call.token >= MinToken
      BY DEF AInv, IInv, ShapeInv
    <2>4. pc = "blocked" => call.token < MinToken
      BY DEF AInv, IInv, ShapeInv
    <2>5. QED
      BY <1>1, <2>1, <2>2, <2>3, <2>4, TokensAssumption
  <1>3. answered \in Seq([call : Calls, result : {0, -1}]) /\ Len(answered) \in Nat
    BY DEF AInv, IInv, TypeInv, TypeOK
  <1>4. /\ Len(log) = Len(answered) + 1
        /\ \A i \in 1..Len(answered) : RowAgrees(i)
        /\ log[Len(log)] = [call |-> call, status |-> StatusOf(pc)]
    BY <1>1 DEF AInv, AuditInv
  <1>5. /\ Len(answered') = Len(answered) + 1
        /\ answered'[Len(answered) + 1] = answer
        /\ \A i \in 1..Len(answered) : answered'[i] = answered[i]
    <2>1. answer \in [call : Calls, result : {0, -1}]
      BY <1>2
    <2> HIDE DEF answer
    <2>2. QED
      BY <1>1, <1>3, <2>1
  <1>6. \A i \in 1..Len(answered) : RowAgrees(i)'
    BY <1>1, <1>3, <1>4, <1>5 DEF RowAgrees
  <1>7. ASSUME NEW i \in Nat, i = Len(answered) + 1 PROVE RowAgrees(i)'
    <2>1. log'[i].call = call /\ log'[i].status = StatusOf(pc)
      BY <1>1, <1>4, <1>7
    <2>2. answered'[i].call = call /\ answered'[i].result = result
      BY <1>5, <1>7
    <2>3. StatusOf(pc) = "APPROVED" <=> call.token >= MinToken
      BY <1>1, <1>2 DEF StatusOf
    <2>4. result = 0 <=> call.token >= MinToken
      OBVIOUS
    <2>5. QED
      BY <2>1, <2>2, <2>3, <2>4 DEF RowAgrees
  <1>8. \A i \in 1..Len(answered') : RowAgrees(i)'
    <2>1. \A i \in 1..Len(answered') : i \in 1..Len(answered) \/ i = Len(answered) + 1
      BY <1>3, <1>5
    <2>2. QED
      BY <1>3, <1>6, <1>7, <2>1
  <1>9. ~Logged' /\ Len(log') = Len(answered')
    BY <1>1, <1>4, <1>5 DEF Logged
  <1>10. QED
    BY <1>3, <1>5, <1>8, <1>9 DEF AuditInv

LEMMA AuditStep == AInv /\ [Next]_vars => AuditInv'
  <1> SUFFICES ASSUME AInv, [Next]_vars, faults' = 0, KeyColumn = "user",
                      pc' \notin {"halted", "crashed"}
               PROVE  AuditInv'
    BY DEF AuditInv
  <1>0. faults \in Nat
    BY BoundAssumption DEF AInv, IInv, TypeInv, TypeOK
  <1>1. CASE Statement
    <2>1. faults = 0
      BY <1>1 DEF Statement
    <2>2. QED
      BY <1>1, <2>1, StatementAudit
  <1>2. CASE StatementRejected
    <2>1. faults = 0
      BY <1>2 DEF StatementRejected
    <2>2. QED
      BY <1>2, <2>1, RejectionFacts DEF AInv, IInv
  <1>3. CASE StatementFaults \/ OpenFails
    BY <1>0, <1>3 DEF StatementFaults, OpenFails
  <1>4. CASE Open \/ Serve \/ StartBusiness
    <2>1. /\ UNCHANGED <<log, answered, faults>>
          /\ pc \in {"boot", "schema", "jit"} /\ pc' \in {"schema", "idle", "business"}
      BY <1>4 DEF Open, Serve, StartBusiness, database
    <2>2. ~Logged /\ ~Logged'
      BY <2>1 DEF Logged
    <2>3. QED
      BY <2>1, <2>2, SameAudit DEF AInv
  <1>5. CASE Approve
    <2>1. /\ UNCHANGED <<log, answered, faults>> /\ pc = "business"
          /\ todo' = <<LogRow(call, "APPROVED")>>
      BY <1>5 DEF Approve, database
    <2>2. ~Logged /\ ~Logged'
      BY <2>1 DEF Logged
    <2>3. QED
      BY <2>1, <2>2, SameAudit DEF AInv
  <1>6. ASSUME NEW c \in Calls, Begin(c) PROVE AuditInv'
    <2>1. /\ UNCHANGED <<log, answered, faults>> /\ pc = "idle"
          /\ pc' = "jit" \/ todo' = <<LogRow(c, "BLOCKED_INVALID_CAPABILITY")>>
      BY <1>6 DEF Begin, database
    <2>2. ~Logged /\ ~Logged'
      BY <1>6, <2>1 DEF Logged, Begin
    <2>3. QED
      BY <2>1, <2>2, SameAudit DEF AInv
  <1>7. CASE FailBusiness
    BY <1>7 DEF FailBusiness, Return, AInv, IInv, AccountsInv
  <1>8. CASE Finish
    <2>1. faults = 0
      BY <1>8 DEF Finish, Return
    <2>2. QED
      BY <1>8, <2>1, FinishAudit
  <1>9. CASE UNCHANGED vars
    BY <1>9 DEF vars, database, AInv, AuditInv, Logged, RowAgrees, StatusOf
  <1>10. QED
    BY <1>1, <1>2, <1>3, <1>4, <1>5, <1>6, <1>7, <1>8, <1>9
    DEF Next, Internal, Stopped

\* AuditComplete is an invariant: as long as no fault hits, the audit log has
\* one row per answered call, in order, and row, result and token agree, for
\* any number of calls.
THEOREM AuditCorrect == Spec => []AuditComplete
  <1>1. Init => AInv
    <2>1. ASSUME Init PROVE AuditInv
      BY <2>1 DEF Init, AuditInv, Logged
    <2>2. QED
      BY <2>1, InvInit DEF AInv
  <1>2. AInv /\ [Next]_vars => AInv'
    BY InvStep, AuditStep DEF AInv
  <1>3. AInv => AuditComplete
    <2> SUFFICES ASSUME AInv, pc = "idle", faults = 0, KeyColumn = "user"
                 PROVE  /\ Len(log) = Len(answered)
                        /\ \A i \in 1..Len(log) : RowAgrees(i)
      BY DEF AuditComplete, RowAgrees
    <2>1. ~Logged /\ Len(answered) \in Nat
      BY DEF Logged, AInv, IInv, TypeInv, TypeOK
    <2>2. QED
      BY <2>1 DEF AInv, AuditInv
  <1>4. QED
    BY <1>1, <1>2, <1>3, PTL DEF Spec

-----------------------------------------------------------------------------
(* The Ledger implements Bank, for all names, tokens, thresholds and       *)
(* amounts and any number of calls and faults.                             *)
(*                                                                         *)
(* Under the mapping of module Ledger the step that writes the row of a    *)
(* call is Execute or Block, the call's return is Answer, a step that a    *)
(* fault has spoilt is Broken, and every other step stutters.  That the    *)
(* steps before the row stutter is the invariant BooksInv.                 *)

Accounts == [n \in Names |-> Held(n) - Ahead(n)]
Current  == IF Serving THEN call ELSE NoCall
Healthy  == faults = 0 /\ KeyColumn = "user"

\* A sequence is a prefix of itself and of itself with one element more.
LEMMA PrefixFacts ==
  ASSUME NEW S, NEW s \in Seq(S), NEW e \in S
  PROVE  /\ Promise!IsPrefix(s, s)
         /\ Promise!IsPrefix(s, Append(s, e))
  BY DEF Promise!IsPrefix

\* Every answer and every row stays: each step appends one or none.
LEMMA HistoryGrows ==
  ASSUME TypeInv, [Next]_vars
  PROVE  /\ \/ log' = log
            \/ \E r \in [call : Calls, status : Statuses] : log' = Append(log, r)
         /\ \/ answered' = answered
            \/ \E a \in [call : Calls, result : {0, -1}] : answered' = Append(answered, a)
  <1>1. ASSUME NEW s \in Statements, Take(s)
        PROVE  \/ log' = log
               \/ \E r \in [call : Calls, status : Statuses] : log' = Append(log, r)
    <2>1. CASE s.op = "log"
      <3>1. s.row \in Calls /\ s.status \in Statuses
        BY <2>1 DEF Statements, Statuses, CreateTable, InsertName, Add, LogRow
      <3>2. log' = Append(log, [call |-> s.row, status |-> s.status])
        BY <1>1, <2>1 DEF Take
      <3>3. QED
        BY <3>1, <3>2
    <2>2. CASE s.op # "log"
      BY <1>1, <2>2 DEF Take
    <2>3. QED
      BY <2>1, <2>2
  <1>2. CASE Statement \/ StatementFaults
    <2>1. Head(todo) \in Statements /\ answered' = answered
      <3>1. todo \in Seq(Statements) /\ todo # << >>
        BY <1>2 DEF Statement, StatementFaults, TypeInv, TypeOK
      <3>2. QED
        BY <1>2, <3>1, TailFacts DEF Statement, StatementFaults
    <2>2. Take(Head(todo)) \/ log' = log
      BY <1>2 DEF Statement, StatementFaults, database
    <2>3. QED
      BY <1>1, <2>1, <2>2
  <1>3. ASSUME NEW result \in {0, -1}, Return(result), call \in Calls
        PROVE  /\ log' = log
               /\ \E a \in [call : Calls, result : {0, -1}] : answered' = Append(answered, a)
    BY <1>3 DEF Return, database
  <1>4. CASE FailBusiness
    BY <1>3, <1>4 DEF FailBusiness, TypeInv, InCall
  <1>5. CASE Finish
    BY <1>3, <1>5 DEF Finish, TypeInv, InCall
  <1>6. CASE UNCHANGED <<log, answered>>
    BY <1>6
  <1>7. UNCHANGED <<log, answered>> \/ Statement \/ StatementFaults \/ FailBusiness \/ Finish
    BY DEF Next, Internal, Stopped, vars, database, StatementRejected, Open, OpenFails,
           Serve, StartBusiness, Approve, Begin
  <1>8. QED
    BY <1>2, <1>4, <1>5, <1>6, <1>7

\* Once something has failed, every step is one that Bank allows.
LEMMA BrokenStep ==
  ASSUME TypeInv, [Next]_vars, ~Healthy'
  PROVE  Promise!Broken
  <1>1. /\ log \in Seq([call : Calls, status : Statuses])
        /\ answered \in Seq([call : Calls, result : {0, -1}])
    BY DEF TypeInv, TypeOK, Statuses
  <1>2. Promise!IsPrefix(log, log')
    <2>1. CASE log' = log
      BY <1>1, <2>1 DEF Promise!IsPrefix
    <2>2. CASE \E r \in [call : Calls, status : Statuses] : log' = Append(log, r)
      BY <1>1, <2>2, PrefixFacts
    <2>3. QED
      BY <2>1, <2>2, HistoryGrows
  <1>3. Promise!IsPrefix(answered, answered')
    <2>1. CASE answered' = answered
      BY <1>1, <2>1 DEF Promise!IsPrefix
    <2>2. CASE \E a \in [call : Calls, result : {0, -1}] : answered' = Append(answered, a)
      BY <1>1, <2>2, PrefixFacts
    <2>3. QED
      BY <2>1, <2>2, HistoryGrows
  <1>4. QED
    BY <1>2, <1>3 DEF Promise!Broken, Healthy

-----------------------------------------------------------------------------
(* As long as nothing has failed.                                          *)

LEMMA AheadTyped == ASSUME TypeInv, NEW n \in Names PROVE Ahead(n) \in Int
  <1>1. ASSUME NEW s \in Statements PROVE Added(s, n) \in Int
    BY AmountAssumption DEF Added, Statements, CreateTable, InsertName, Add, LogRow, Amounts
  <1>2. /\ todo \in Seq(Statements) /\ Len(todo) <= 2 /\ Len(todo) \in Nat
        /\ \A i \in 1..Len(todo) : todo[i] \in Statements
    <2>1. todo \in Seq(Statements) /\ Len(todo) <= 2
      BY DEF TypeInv, TypeOK
    <2>2. QED
      BY <2>1
  <1>3. ASSUME NEW i \in 1..Len(todo) PROVE Added(todo[i], n) \in Int
    <2>1. todo[i] \in Statements
      BY <1>2
    <2>2. QED
      BY <1>1, <2>1
  <1>4. Len(todo) = 0 \/ Len(todo) = 1 \/ Len(todo) = 2
    <2>1. \A k \in Nat : k <= 2 => k = 0 \/ k = 1 \/ k = 2
      OBVIOUS
    <2>2. QED
      BY <1>2, <2>1
  <1>5. Pending(n) \in Int
    BY <1>3, <1>4 DEF Pending
  <1>6. pc \in {"business", "approved"} => Effect(call, n) \in Int
    BY EffectTyped DEF TypeInv, InCall
  <1>7. QED
    BY <1>5, <1>6 DEF Ahead

\* What everybody owns, as Bank sees it, is what the log has booked.
LEMMA AccountsAreBooked ==
  (IInv /\ faults = 0 /\ pc \notin {"halted", "crashed"}) => Accounts = booked
  <1> SUFFICES ASSUME IInv, faults = 0, pc \notin {"halted", "crashed"}
               PROVE  Accounts = booked
    OBVIOUS
  <1>1. ASSUME NEW n \in Names PROVE Held(n) - Ahead(n) = booked[n]
    <2>1. Held(n) = booked[n] + Ahead(n)
      BY DEF IInv, BooksInv
    <2>2. Ahead(n) \in Int /\ booked[n] \in Int
      BY AheadTyped, BooksTyped DEF IInv
    <2>3. QED
      BY <2>1, <2>2
  <1>2. booked \in [Names -> Int]
    BY DEF IInv, TypeInv, TypeOK
  <1>3. QED
    BY <1>1, <1>2 DEF Accounts

LEMMA BookedAccounts ==
  ASSUME IInv, [Next]_vars, faults = 0, faults' = 0,
         pc \notin {"halted", "crashed"}, pc' \notin {"halted", "crashed"}
  PROVE  Accounts = booked /\ Accounts' = booked'
  <1>1. IInv'
    BY InvStep
  <1>2. (IInv /\ faults = 0 /\ pc \notin {"halted", "crashed"} => Accounts = booked)'
    BY AccountsAreBooked, PTL
  <1>3. QED
    BY <1>1, <1>2, AccountsAreBooked

\* Without its xRandomness method the component never writes anything.
NothingWritten == ~HasRandomness => tables = {}

LEMMA NothingWrittenStep == TypeInv /\ NothingWritten /\ [Next]_vars => NothingWritten'
  BY DEF NothingWritten, Next, Internal, Stopped, vars, database, Statement,
         StatementRejected, StatementFaults, Open, OpenFails, Serve, StartBusiness,
         Approve, FailBusiness, Finish, Return, Begin

\* The Ledger's invariants.
BInv == IInv /\ NothingWritten

\* A call's row is written: Bank executes or blocks it.
LEMMA RowStep ==
  ASSUME BInv, [Next]_vars, faults = 0, faults' = 0,
         Statement, pc' = pc, pc \in {"approved", "blocked"}
  PROVE  Promise!Execute \/ Promise!Block
  <1>1. /\ Len(todo) = 1 \/ Len(todo) = 2
        /\ todo[1] \in Statements /\ Take(todo[1]) /\ Len(todo') = Len(todo) - 1
        /\ UNCHANGED <<call, rc, faults, answered>>
    BY StatementFacts DEF BInv, IInv, TypeInv
  <1>2. todo # << >> /\ call \in Calls /\ call.token \in Int /\ call.amount \in Int
    BY <1>1, CallFacts DEF BInv, IInv, TypeInv, InCall
  <1>3. /\ pc = "approved" => /\ todo = <<LogRow(call, "APPROVED")>>
                              /\ call.token >= MinToken
        /\ pc = "blocked" => /\ todo = <<LogRow(call, "BLOCKED_INVALID_CAPABILITY")>>
                             /\ ~(call.token >= MinToken)
    BY <1>2, TokensAssumption DEF BInv, IInv, ShapeInv
  <1>4. todo' = << >>
    <2>1. Len(todo) = 1
      BY <1>3
    <2>2. todo' \in Seq(Statements)
      BY TypeStep DEF BInv, IInv, TypeInv, TypeOK
    <2>3. QED
      BY <1>1, <2>1, <2>2
  <1>5. /\ ~Logged /\ Logged' /\ Current = call /\ Current' = call
        /\ Healthy' = Healthy /\ answered' = answered
    BY <1>1, <1>2, <1>4 DEF Logged, Current, Serving, Healthy
  <1>6. Accounts = booked /\ Accounts' = booked' /\ booked \in [Names -> Int]
    BY BookedAccounts DEF BInv, IInv, TypeInv, TypeOK
  <1>7. call # Promise!None
    BY <1>2 DEF Calls, TxTypes, Promise!None
  <1>8. CASE pc = "approved"
    <2>1. /\ todo[1].op = "log" /\ todo[1].row = call /\ todo[1].status = "APPROVED"
      BY <1>3, <1>8 DEF LogRow
    <2>2. /\ log' = Append(log, [call |-> call, status |-> "APPROVED"])
          /\ booked' = [n \in Names |-> booked[n] + Effect(call, n)]
      BY <1>1, <2>1 DEF Take
    <2>3. \A n \in Names : booked[n] + Effect(call, n)
                             = booked[n] - Promise!Paid(call, n) + Promise!Got(call, n)
      BY <1>2, <1>6 DEF Effect, Promise!Paid, Promise!Got
    <2>4. Accounts' = [n \in Names |-> Accounts[n] - Promise!Paid(call, n)
                                         + Promise!Got(call, n)]
      BY <1>6, <2>2, <2>3
    <2>5. Promise!Permitted(call)
      BY <1>3, <1>8 DEF Promise!Permitted
    <2>6. Promise!Execute
      BY <1>5, <1>7, <2>2, <2>4, <2>5 DEF Promise!Execute, Accounts, Current, Healthy
    <2>7. QED
      BY <2>6
  <1>9. CASE pc = "blocked"
    <2>1. /\ todo[1].op = "log" /\ todo[1].row = call
          /\ todo[1].status = "BLOCKED_INVALID_CAPABILITY"
      BY <1>3, <1>9 DEF LogRow
    <2>2. /\ log' = Append(log, [call |-> call, status |-> "BLOCKED_INVALID_CAPABILITY"])
          /\ booked' = booked
      BY <1>1, <2>1 DEF Take
    <2>3. ~Promise!Permitted(call)
      BY <1>3, <1>9 DEF Promise!Permitted
    <2>4. Promise!Block
      BY <1>5, <1>6, <1>7, <2>2, <2>3 DEF Promise!Block, Accounts, Current, Healthy
    <2>5. QED
      BY <2>4
  <1>10. QED
    BY <1>8, <1>9

\* The call returns: Bank answers it.
LEMMA FinishStep ==
  ASSUME BInv, [Next]_vars, faults = 0, faults' = 0, Finish
  PROVE  Promise!Answer
  <1>1. /\ pc \in {"blocked", "approved"} /\ todo = << >> /\ pc' = "idle"
        /\ answered' = Append(answered, [call |-> call,
                          result |-> IF call.token >= MinToken THEN 0 ELSE -1])
        /\ UNCHANGED <<log, call, faults>>
    BY DEF Finish, Return, database
  <1>2. Logged /\ ~Logged' /\ Current = call /\ Current' = Promise!None
        /\ Healthy' = Healthy
    BY <1>1 DEF Logged, Current, Serving, NoCall, Promise!None, Healthy
  <1>3. Accounts' = Accounts
    <2>1. Accounts = booked /\ Accounts' = booked' /\ booked' = booked
      BY <1>1, BookedAccounts DEF BInv, Finish, Return, database
    <2>2. QED
      BY <2>1
  <1>4. QED
    BY <1>1, <1>2, <1>3
    DEF Promise!Answer, Promise!Permitted, Accounts, Current, Healthy

\* A call comes in: Bank has it submitted.
LEMMA BeginStep ==
  ASSUME BInv, [Next]_vars, faults = 0, faults' = 0, NEW c \in Calls, Begin(c)
  PROVE  Promise!Submit(c)
  <1>1. /\ pc = "idle" /\ call' = c /\ pc' \in {"jit", "blocked"}
        /\ pc' = "blocked" => todo' = <<LogRow(c, "BLOCKED_INVALID_CAPABILITY")>>
        /\ UNCHANGED <<log, answered, faults, booked>>
    BY DEF Begin, database
  <1>2. Logged' = Logged /\ Current = Promise!None /\ Current' = c
        /\ Healthy' = Healthy
    BY <1>1 DEF Logged, Current, Serving, NoCall, Promise!None, Healthy
  <1>3. Accounts' = Accounts
    <2>1. Accounts = booked /\ Accounts' = booked'
      BY <1>1, BookedAccounts DEF BInv
    <2>2. QED
      BY <1>1, <2>1
  <1>4. QED
    BY <1>1, <1>2, <1>3 DEF Promise!Submit, Accounts, Current, Healthy

\* Every other step is one that Bank does not see.
LEMMA HiddenStep ==
  ASSUME BInv, [Next]_vars, faults = 0, faults' = 0,
         pc \notin {"halted", "crashed"}, pc' \notin {"halted", "crashed"},
         UNCHANGED <<log, answered, booked>>, Current' = Current, Logged' = Logged
  PROVE  UNCHANGED Promise!vars
  <1>1. Accounts' = Accounts
    <2>1. Accounts = booked /\ Accounts' = booked'
      BY BookedAccounts DEF BInv
    <2>2. QED
      BY <2>1
  <1>2. QED
    BY <1>1 DEF Promise!vars, Accounts, Current, Healthy

\* Every step of a healthy Ledger is a step of Bank or none.
LEMMA HealthyStep ==
  ASSUME BInv, [Next]_vars, Healthy'
  PROVE  Promise!Next \/ UNCHANGED Promise!vars
  <1>1. faults = 0 /\ faults' = 0 /\ KeyColumn = "user"
    <2>1. faults \in Nat
      BY BoundAssumption DEF BInv, IInv, TypeInv, TypeOK
    <2>2. faults' = faults \/ faults' = faults + 1
      BY DEF Next, Internal, Stopped, vars, Statement, StatementRejected, StatementFaults,
             Open, OpenFails, Serve, StartBusiness, Approve, FailBusiness, Finish, Return, Begin
    <2>3. QED
      BY <2>1, <2>2 DEF Healthy
  <1>2. CASE Statement
    <2>1. /\ Len(todo) = 1 \/ Len(todo) = 2
          /\ todo[1] \in Statements /\ Compiles(todo[1])
          /\ UNCHANGED <<call, rc, faults, answered>>
          /\ \/ Take(todo[1]) /\ pc' = pc
             \/ pc' = "crashed" /\ todo' = << >> /\ UNCHANGED database
      BY <1>2, StatementFacts DEF BInv, IInv, TypeInv
    <2>2. todo # << >> /\ pc \notin {"boot", "idle", "halted", "crashed"}
      BY <2>1 DEF BInv, IInv, ShapeInv
    <2>3. CASE pc' = "crashed"
      <3>1. pc = "schema"
        <4>1. ~HasRandomness /\ UNCHANGED database
          BY <1>2, <2>1, <2>2, <2>3 DEF Statement
        <4>2. tables = {}
          BY <4>1 DEF BInv, NothingWritten
        <4>3. ~InService
          BY <1>1, <4>2 DEF BInv, IInv, SchemaInv, AllTables
        <4>4. QED
          BY <2>2, <4>3 DEF InService, Serving, BInv, IInv, TypeInv, TypeOK
      <3>2. UNCHANGED <<database, answered, faults, call>>
        BY <2>1, <2>3, <3>1
      <3>3. ASSUME NEW n \in Names
            PROVE  Held(n)' = Held(n) /\ Ahead(n)' = 0 /\ Ahead(n) = 0
        BY <2>3, <3>1, <3>2 DEF Held, Ahead, database
      <3>4. Accounts' = Accounts
        BY <3>3 DEF Accounts
      <3>5. Logged' = Logged /\ Current' = Current
        BY <2>3, <3>1 DEF Logged, Current, Serving
      <3>6. UNCHANGED <<log, answered>> /\ Healthy' = Healthy
        BY <3>2 DEF Healthy, database
      <3>7. QED
        BY <3>4, <3>5, <3>6 DEF Promise!vars, Accounts, Current, Healthy
    <2>4. CASE pc' = pc /\ pc \in {"approved", "blocked"}
      BY <1>1, <1>2, <2>4, RowStep DEF Promise!Next
    <2>5. CASE pc' = pc /\ pc \in {"schema", "jit", "business"}
      <3>1. todo[1].op \in {"create", "insert", "add"}
        BY <2>1, <2>5 DEF BInv, IInv, ShapeInv
      <3>2. UNCHANGED <<log, booked>>
        BY <2>1, <2>5, <3>1 DEF Take
      <3>3. Logged' = Logged /\ Current' = Current
        BY <2>1, <2>5 DEF Logged, Current, Serving
      <3>4. QED
        BY <1>1, <2>1, <2>5, <3>2, <3>3, HiddenStep
    <2>6. QED
      BY <2>1, <2>2, <2>3, <2>4, <2>5 DEF BInv, IInv, TypeInv, TypeOK
  <1>3. CASE StatementRejected
    <2>1. FALSE
      BY <1>1, <1>3, RejectionFacts DEF BInv, IInv
    <2>2. QED
      BY <2>1
  <1>4. CASE StatementFaults \/ OpenFails
    <2>1. faults \in Nat
      BY BoundAssumption DEF BInv, IInv, TypeInv, TypeOK
    <2>2. QED
      BY <1>1, <1>4, <2>1 DEF StatementFaults, OpenFails
  <1>5. CASE Open \/ Serve
    <2>1. /\ pc \in {"boot", "schema"} /\ pc' \in {"schema", "idle"}
          /\ UNCHANGED <<log, answered, booked>>
      BY <1>5 DEF Open, Serve, database
    <2>2. Logged' = Logged /\ Current' = Current
      BY <2>1 DEF Logged, Current, Serving
    <2>3. QED
      BY <1>1, <2>1, <2>2, HiddenStep
  <1>6. CASE StartBusiness \/ Approve
    <2>1. /\ pc \in {"jit", "business"} /\ pc' \in {"business", "approved"} /\ call' = call
          /\ pc' = "approved" => todo' = <<LogRow(call, "APPROVED")>>
          /\ UNCHANGED <<log, answered, booked>>
      BY <1>6 DEF StartBusiness, Approve, database
    <2>2. Logged' = Logged /\ Current' = Current
      BY <2>1 DEF Logged, Current, Serving
    <2>3. QED
      BY <1>1, <2>1, <2>2, HiddenStep
  <1>7. CASE FailBusiness
    <2>1. FALSE
      BY <1>1, <1>7 DEF FailBusiness, BInv, IInv, AccountsInv
    <2>2. QED
      BY <2>1
  <1>8. CASE Finish
    BY <1>1, <1>8, FinishStep DEF Promise!Next
  <1>9. ASSUME NEW c \in Calls, Begin(c) PROVE Promise!Next
    BY <1>1, <1>9, BeginStep DEF Promise!Next
  <1>10. CASE UNCHANGED vars
    BY <1>10 DEF vars, database, Promise!vars, Held, Ahead, Pending, Added, Effect,
                 Serving, Logged
  <1>11. QED
    BY <1>2, <1>3, <1>4, <1>5, <1>6, <1>7, <1>8, <1>9, <1>10 DEF Next, Internal, Stopped

LEMMA BankInit == Init => Promise!Init
  <1> SUFFICES ASSUME Init PROVE Promise!Init
    OBVIOUS
  <1>1. \A n \in Names : Held(n) - Ahead(n) = 0
    BY DEF Init, Held, Ahead
  <1>2. ~Serving /\ ~Logged
    BY DEF Init, Serving, Logged
  <1>3. QED
    BY <1>1, <1>2 DEF Promise!Init, Promise!None, NoCall, Init

\* The Ledger implements Bank: for any names, amounts and thresholds and any
\* number of calls and faults, every call looks as if it happened at once when
\* its row is written, as long as nothing fails; and whatever fails, the log
\* and the answers only grow.
THEOREM Refinement == Spec => ImplementsBank
  <1>1. Init => Promise!Init /\ BInv
    <2>1. Init => NothingWritten
      BY DEF Init, NothingWritten
    <2>2. QED
      BY <2>1, BankInit, InvInit DEF BInv
  <1>2. BInv /\ [Next]_vars => BInv'
    BY InvStep, NothingWrittenStep DEF BInv, IInv
  <1>3. BInv /\ [Next]_vars => [Promise!Next]_(Promise!vars)
    <2>1. CASE Healthy'
      BY <2>1, HealthyStep
    <2>2. CASE ~Healthy'
      BY <2>2, BrokenStep DEF BInv, IInv, Promise!Next
    <2>3. QED
      BY <2>1, <2>2
  <1>4. QED
    BY <1>1, <1>2, <1>3, PTL DEF Spec, ImplementsBank, Promise!Spec

-----------------------------------------------------------------------------
(* What faults can part.                                                   *)

\* The statements of a call are done in their order, and only the right name
\* of the key column lets them come to their end.
ListInv ==
  /\ pc = "business" => todo \in {Business(call), Tail(Business(call)), << >>}
  /\ (pc = "business" /\ todo # << >>) => rc = "ok"
  /\ (pc = "business" /\ todo = << >> /\ rc = "ok") => KeyColumn = "user"
  /\ pc = "approved" => KeyColumn = "user"

\* Before the first call there is nothing to be parted.
FreshInv ==
  pc \in {"boot", "schema"} =>
    /\ DOMAIN balance = {} /\ \A n \in Names : booked[n] = 0
    /\ log = << >> /\ answered = << >>

Alive    == pc \notin {"halted", "crashed"}
Slack(k) == k * MaxAmount
Drift(n) == Held(n) - booked[n]

\* But for x, the drift of n is what k faults can account for.
Off(n, x, k) == Drift(n) - x <= Slack(k) /\ x - Drift(n) <= Slack(k)

\* A call that has yet to write its row and has not failed: what it has done
\* so far to an account that exists.
Unbooked == pc = "jit" \/ (pc = "business" /\ rc = "ok") \/ (pc = "approved" /\ todo # << >>)
Part(n)  == IF n \in DOMAIN balance THEN Ahead(n) ELSE 0

\* The accounts of the call exist, or are yet to be created.
AccountsThere ==
  KeyColumn = "user" =>
    {call.src, call.dest} \subseteq
      DOMAIN balance \cup (IF pc = "jit" THEN {todo[i].name : i \in 1..Len(todo)} ELSE {})

\* k is the number of faults when the call began, if one has hit it since.
DriftInv ==
  (tables = AllTables /\ Alive) =>
    IF Unbooked
      THEN \E k \in 0..faults :
             /\ k = faults => AccountsThere
             /\ \A n \in Names : Off(n, Part(n), k)
      ELSE \A n \in Names : Off(n, 0, faults)

\* A call whose row was to be written has yet to be answered.
GapInv ==
  (tables = AllTables /\ Alive) =>
    LET due == IF pc = "approved" /\ todo = << >> THEN 1 ELSE 0
    IN  /\ Cardinality(Approvals) <= Cardinality(Successes) + due
        /\ Cardinality(Successes) + due <= Cardinality(Approvals) + faults

\* What one fault more accounts for.
LEMMA SlackFacts ==
  ASSUME NEW j \in Nat, NEW k \in Nat
  PROVE  /\ Slack(k) \in Nat
         /\ j <= k => Slack(j) <= Slack(k)
         /\ j < k  => Slack(j) + MaxAmount <= Slack(k)
  <1>1. \A a, b \in Nat : a * b \in Nat
    OBVIOUS
  <1>2. Slack(j) \in Nat /\ Slack(k) \in Nat
    BY <1>1, AmountAssumption DEF Slack
  <1>3. ASSUME NEW d \in Nat, k = j + d PROVE Slack(k) = Slack(j) + d * MaxAmount
    BY <1>3, AmountAssumption DEF Slack
  <1>4. ASSUME j <= k PROVE Slack(j) <= Slack(k)
    <2>1. k - j \in Nat /\ k = j + (k - j)
      BY <1>4
    <2>2. Slack(k) = Slack(j) + (k - j) * MaxAmount /\ (k - j) * MaxAmount \in Nat
      BY <1>1, <1>3, <2>1, AmountAssumption
    <2>3. QED
      BY <1>2, <2>2
  <1>5. ASSUME j < k PROVE Slack(j) + MaxAmount <= Slack(k)
    <2>1. k - j - 1 \in Nat /\ k - j \in Nat /\ k = j + (k - j)
      BY <1>5
    <2>2. Slack(k) = Slack(j) + (k - j) * MaxAmount
      BY <1>3, <2>1
    <2>3. (k - j) * MaxAmount = (k - j - 1) * MaxAmount + MaxAmount
      BY <2>1, AmountAssumption
    <2>4. (k - j - 1) * MaxAmount \in Nat
      BY <1>1, <2>1, AmountAssumption
    <2>5. QED
      BY <1>2, <2>2, <2>3, <2>4, AmountAssumption
  <1>6. QED
    BY <1>2, <1>4, <1>5

\* The rest of a list of one or two.
LEMMA RestFacts ==
  ASSUME NEW S, NEW s \in Seq(S), Len(s) = 1 \/ Len(s) = 2
  PROVE  /\ s # << >>
         /\ Len(s) = 1 => Tail(s) = << >>
         /\ Len(s) = 2 => Tail(s) = <<s[2]>>
  <1>1. /\ s # << >> /\ Tail(s) \in Seq(S) /\ Len(Tail(s)) = Len(s) - 1
        /\ Len(s) = 2 => Tail(s)[1] = s[2]
    OBVIOUS
  <1>2. ASSUME NEW t \in Seq(S), Len(t) = 0 PROVE t = << >>
    BY <1>2, EmptySeq
  <1>3. ASSUME NEW t \in Seq(S), Len(t) = 1 PROVE t = <<t[1]>>
    <2>1. <<t[1]>> \in Seq(S) /\ Len(<<t[1]>>) = 1 /\ <<t[1]>>[1] = t[1]
      BY <1>3
    <2>2. \A i \in 1..Len(t) : t[i] = <<t[1]>>[i]
      BY <1>3, <2>1
    <2>3. QED
      BY <1>3, <2>1, <2>2, SeqEqual
  <1>4. PICK t : t = Tail(s)
    OBVIOUS
  <1>5. t \in Seq(S) /\ Len(t) = Len(s) - 1 /\ (Len(s) = 2 => t[1] = s[2])
    BY <1>1, <1>4, Zenon
  <1>6. Len(s) = 1 => t = << >>
    BY <1>2, <1>5
  <1>7. Len(s) = 2 => t = <<s[2]>>
    BY <1>3, <1>5
  <1>8. QED
    BY <1>1, <1>4, <1>6, <1>7, Zenon

\* Business statements are done one after the other; a failed one is the last.
LEMMA ListStep ==
  ASSUME TypeInv, ShapeInv, ListInv, [Next]_vars
  PROVE  ListInv'
  <1> USE DEF ListInv
  <1>1. CASE Statement
    <2>1. CASE pc' = "crashed"
      BY <2>1
    <2>2. CASE pc' # "crashed"
      <3>1. /\ Len(todo) = 1 \/ Len(todo) = 2
            /\ todo[1] \in Statements /\ Compiles(todo[1])
            /\ pc' = pc /\ rc' = rc /\ call' = call
            /\ todo' = Tail(todo) /\ Len(todo') = Len(todo) - 1
        BY <1>1, <2>2, StatementFacts DEF TypeInv
      <3>2. CASE pc = "business"
        <4>1. todo # << >> /\ rc = "ok" /\ call \in Calls
          BY <1>1, <3>2 DEF Statement, TypeInv, InCall
        <4>2. KeyColumn = "user"
          <5>1. todo[1].op \in {"insert", "add"}
            BY <3>1, <3>2 DEF ShapeInv
          <5>2. QED
            BY <3>1, <5>1 DEF Compiles
        <4>3. /\ Business(call) \in Seq(Statements)
              /\ Len(Business(call)) = 1 \/ Len(Business(call)) = 2
          BY <4>1, ListsTyped
        <4>4. Tail(todo) \in {Tail(Business(call)), << >>}
          <5>1. CASE todo = Business(call)
            BY <5>1
          <5>2. CASE todo = Tail(Business(call))
            <6>1. Len(Business(call)) = 2
              BY <4>1, <4>3, <5>2, RestFacts
            <6>2. todo = <<Business(call)[2]>>
              BY <4>3, <5>2, <6>1, RestFacts
            <6>3. QED
              BY <6>2
          <5>3. QED
            BY <3>2, <4>1, <5>1, <5>2
        <4>5. QED
          BY <3>1, <3>2, <4>1, <4>2, <4>4
      <3>3. CASE pc # "business"
        BY <3>1, <3>3
      <3>4. QED
        BY <3>2, <3>3
    <2>3. QED
      BY <2>1, <2>2
  <1>2. CASE StatementRejected \/ StatementFaults
    BY <1>2 DEF StatementRejected, StatementFaults
  <1>3. CASE Open \/ OpenFails \/ Serve
    BY <1>3 DEF Open, OpenFails, Serve
  <1>4. CASE StartBusiness
    <2>1. call \in Calls /\ call' = call
      BY <1>4 DEF StartBusiness, TypeInv, InCall
    <2>2. Business(call) # << >>
      BY <2>1, ListsTyped, RestFacts
    <2>3. QED
      BY <1>4, <2>1, <2>2 DEF StartBusiness
  <1>5. CASE Approve
    BY <1>5 DEF Approve
  <1>6. CASE FailBusiness \/ Finish
    BY <1>6 DEF FailBusiness, Finish, Return
  <1>7. ASSUME NEW c \in Calls, Begin(c) PROVE ListInv'
    BY <1>7 DEF Begin
  <1>8. CASE UNCHANGED vars
    BY <1>8 DEF vars
  <1>9. QED
    BY <1>1, <1>2, <1>3, <1>4, <1>5, <1>6, <1>7, <1>8 DEF Next, Internal, Stopped

\* What a statement does to the drift of an account.
LEMMA TakeDrift ==
  ASSUME TypeInv, NEW s \in Statements, Take(s), NEW n \in Names
  PROVE  /\ Drift(n) \in Int
         /\ s.op = "create" => DOMAIN balance' = DOMAIN balance /\ booked' = booked /\ log' = log
         /\ s.op = "insert" =>
              Drift(n)' = Drift(n) /\ DOMAIN balance' = DOMAIN balance \cup {s.name}
         /\ s.op = "add" =>
              /\ DOMAIN balance' = DOMAIN balance
              /\ n \in DOMAIN balance    => Drift(n)' = Drift(n) + Added(s, n)
              /\ n \notin DOMAIN balance => Drift(n)' = Drift(n)
         /\ s.op = "log" =>
              /\ DOMAIN balance' = DOMAIN balance
              /\ s.status = "APPROVED" => Drift(n)' = Drift(n) - Effect(s.row, n)
              /\ s.status # "APPROVED" => Drift(n)' = Drift(n)
  <1>1. /\ Held(n) \in Int /\ booked[n] \in Int
        /\ n \in DOMAIN balance => balance[n] \in Int
    BY BooksTyped DEF TypeInv, TypeOK
  <1>2. Drift(n) \in Int
    BY <1>1 DEF Drift
  <1>3. CASE s.op = "create"
    BY <1>2, <1>3 DEF Take
  <1>4. CASE s.op = "insert"
    <2>1. balance' = Inserted(s.name) /\ booked' = booked
      BY <1>4 DEF Take
    <2>2. DOMAIN balance' = DOMAIN balance \cup {s.name}
      BY <2>1 DEF Inserted
    <2>3. Held(n)' = Held(n)
      BY <2>1, <2>2 DEF Inserted, Held
    <2>4. QED
      BY <1>2, <1>4, <2>1, <2>2, <2>3 DEF Drift
  <1>5. CASE s.op = "add"
    <2>1. balance' = Updated(s.name, s.by) /\ booked' = booked
      BY <1>5 DEF Take
    <2>2. DOMAIN balance' = DOMAIN balance
      BY <2>1 DEF Updated
    <2>3. s.by \in Int
      BY <1>5, AmountAssumption
      DEF Statements, CreateTable, InsertName, Add, LogRow, Amounts
    <2>4. n \in DOMAIN balance => Held(n)' = Held(n) + Added(s, n)
      BY <1>1, <1>5, <2>1, <2>2, <2>3 DEF Held, Updated, Added
    <2>5. n \notin DOMAIN balance => Held(n)' = Held(n)
      BY <2>2 DEF Held
    <2>6. Added(s, n) \in Int
      BY <2>3 DEF Added
    <2>7. QED
      BY <1>1, <1>2, <1>5, <2>1, <2>2, <2>4, <2>5, <2>6 DEF Drift
  <1>6. CASE s.op = "log"
    <2>1. /\ balance' = balance /\ s.row \in Calls
          /\ booked' = IF s.status = "APPROVED"
                         THEN [m \in Names |-> booked[m] + Effect(s.row, m)]
                         ELSE booked
      BY <1>6 DEF Take, Statements, CreateTable, InsertName, Add, LogRow
    <2>2. Held(n)' = Held(n)
      BY <2>1 DEF Held
    <2>3. Effect(s.row, n) \in Int
      BY <2>1, EffectTyped
    <2>4. QED
      BY <1>1, <1>2, <1>6, <2>1, <2>2, <2>3 DEF Drift
  <1>7. QED
    BY <1>2, <1>3, <1>4, <1>5, <1>6

\* Until the first call, every step leaves the accounts and the books empty.
LEMMA FreshStep ==
  ASSUME TypeInv, ShapeInv, FreshInv, [Next]_vars, pc \in {"boot", "schema"}
  PROVE  /\ pc' \in {"boot", "schema", "idle", "halted", "crashed"}
         /\ DOMAIN balance' = {} /\ \A n \in Names : booked'[n] = 0
         /\ log' = << >> /\ answered' = << >>
  <1>1. /\ DOMAIN balance = {} /\ \A n \in Names : booked[n] = 0
        /\ log = << >> /\ answered = << >>
    BY DEF FreshInv
  <1>2. ASSUME todo # << >>
        PROVE  /\ pc = "schema" /\ todo[1] \in Statements /\ todo[1].op = "create"
               /\ Head(todo) = todo[1]
    <2>1. pc = "schema" /\ todo \in Seq(Statements)
      BY <1>2 DEF ShapeInv, TypeInv, TypeOK
    <2>2. Len(todo) \in Nat \ {0} /\ Head(todo) = todo[1] /\ Head(todo) \in Statements
      BY <1>2, <2>1, TailFacts
    <2>3. QED
      BY <2>1, <2>2 DEF ShapeInv
  <1>3. ASSUME todo # << >>, Take(todo[1])
        PROVE  DOMAIN balance' = {} /\ booked' = booked /\ log' = log
    BY <1>1, <1>2, <1>3 DEF Take
  <1>4. CASE Statement
    <2>1. todo # << >> /\ answered' = answered
      BY <1>4 DEF Statement
    <2>2. \/ Take(todo[1]) /\ pc' = pc
          \/ UNCHANGED database /\ pc' = "crashed"
      BY <1>2, <1>4, <2>1 DEF Statement
    <2>3. QED
      BY <1>1, <1>3, <2>1, <2>2 DEF database
  <1>5. CASE StatementFaults
    <2>1. todo # << >> /\ answered' = answered /\ pc' = pc
      BY <1>5 DEF StatementFaults
    <2>2. Take(todo[1]) \/ UNCHANGED <<balance, log, booked>>
      BY <1>2, <1>5, <2>1 DEF StatementFaults, database
    <2>3. QED
      BY <1>1, <1>3, <2>1, <2>2
  <1>6. CASE StatementRejected \/ Open \/ OpenFails \/ Serve
    BY <1>1, <1>6 DEF StatementRejected, Open, OpenFails, Serve, database
  <1>7. CASE UNCHANGED vars
    BY <1>1, <1>7 DEF vars, database
  <1>8. ~(StartBusiness \/ Approve \/ FailBusiness \/ Finish \/ \E c \in Calls : Begin(c))
    BY DEF StartBusiness, Approve, FailBusiness, Finish, Begin
  <1>9. QED
    BY <1>4, <1>5, <1>6, <1>7, <1>8 DEF Next, Internal, Stopped

\* Nothing leads back to the time before the first call.
LEMMA FreshKept == TypeInv /\ ShapeInv /\ FreshInv /\ [Next]_vars => FreshInv'
  <1> SUFFICES ASSUME TypeInv, ShapeInv, FreshInv, [Next]_vars, pc' \in {"boot", "schema"}
               PROVE  /\ DOMAIN balance' = {} /\ \A n \in Names : booked'[n] = 0
                      /\ log' = << >> /\ answered' = << >>
    BY DEF FreshInv
  <1>1. pc \in {"boot", "schema"}
    BY DEF Next, Internal, Statement, StatementRejected, StatementFaults, Open, OpenFails,
           Serve, StartBusiness, Approve, FailBusiness, Finish, Return, Begin, Stopped, vars
  <1>2. QED
    BY <1>1, FreshStep

\* After the schema no table comes into being.
LEMMA TablesKept ==
  ASSUME TypeInv, ShapeInv, [Next]_vars, pc \notin {"boot", "schema"}, tables' = AllTables
  PROVE  tables = AllTables
  <1>1. AllTables # {}
    BY DEF AllTables
  <1>2. ASSUME todo # << >>, Take(Head(todo)) PROVE tables' = tables
    <2>1. todo \in Seq(Statements)
      BY DEF TypeInv, TypeOK
    <2>2. Len(todo) \in Nat \ {0} /\ Head(todo) = todo[1]
      BY <1>2, <2>1, TailFacts
    <2>3. pc \in {"jit", "business", "approved", "blocked"}
      BY <1>2 DEF ShapeInv, TypeInv, TypeOK
    <2>4. todo[1].op # "create"
      BY <1>2, <2>2, <2>3 DEF ShapeInv, LogRow
    <2>5. QED
      BY <1>2, <2>2, <2>4 DEF Take
  <1>3. CASE Statement
    BY <1>2, <1>3 DEF Statement, database
  <1>4. CASE StatementFaults
    BY <1>1, <1>2, <1>4 DEF StatementFaults, database
  <1>5. QED
    BY <1>3, <1>4 DEF Next, Internal, StatementRejected, Open, OpenFails,
           Serve, StartBusiness, Approve, FailBusiness, Finish, Return, Begin, Stopped,
           vars, database

\* However far the business statements have come, they have added no more than
\* one amount to an account.
LEMMA PartialSums ==
  ASSUME NEW n \in Names, call \in Calls,
         todo \in {Business(call), Tail(Business(call)), << >>}
  PROVE  /\ Effect(call, n) \in Amounts
         /\ Pending(n) \in Int /\ Effect(call, n) - Pending(n) \in Amounts
         /\ todo # << >> =>
              /\ Added(todo[1], n) \in Int
              /\ Effect(call, n) - Pending(n) + Added(todo[1], n) \in Amounts
  <1> DEFINE a == call.amount
             S == IF n = call.src  THEN a ELSE 0
             T == IF n = call.dest THEN a ELSE 0
  <1>1. a \in Int /\ -MaxAmount <= a /\ a <= MaxAmount /\ MaxAmount \in Nat
    BY CallFacts, AmountAssumption DEF Amounts
  <1>2. /\ Added(Add(call.src, -a), n) = -S /\ Added(Add(call.dest, a), n) = T
        /\ Effect(call, n) =
             (IF call.tx_type \in {"TRANSFER", "DEPOSIT"}    THEN T ELSE 0) -
             (IF call.tx_type \in {"TRANSFER", "WITHDRAWAL"} THEN S ELSE 0)
    BY <1>1 DEF Added, Add, Effect
  <1>s. S \in {0, a} /\ T \in {0, a}
    OBVIOUS
  <1>i. \A x \in Int : x \in Amounts <=> -MaxAmount <= x /\ x <= MaxAmount
    BY <1>1 DEF Amounts
  <1> HIDE DEF a, S, T
  <1>3. CASE todo = << >>
    <2>1. Pending(n) = 0
      BY <1>3 DEF Pending
    <2>2. QED
      BY <1>1, <1>2, <1>s, <1>i, <1>3, <2>1
  <1>4. CASE call.tx_type = "TRANSFER"
    <2>0. Effect(call, n) = T - S
      BY <1>2, <1>4
    <2>1. Business(call) = <<Add(call.src, -a), Add(call.dest, a)>>
      BY <1>4, ListFacts DEF a
    <2>2. CASE todo = Business(call)
      <3>1. Pending(n) = -S + T /\ Added(todo[1], n) = -S
        BY <1>2, <2>1, <2>2 DEF Pending
      <3>2. QED
        BY <1>1, <1>s, <1>i, <2>0, <3>1
    <2>3. CASE todo = Tail(Business(call))
      <3>1. todo = <<Add(call.dest, a)>>
        BY <2>1, <2>3
      <3>2. Pending(n) = T /\ Added(todo[1], n) = T
        BY <1>2, <3>1 DEF Pending
      <3>3. QED
        BY <1>1, <1>s, <1>i, <2>0, <3>2
    <2>4. QED
      BY <1>3, <2>2, <2>3
  <1>5. CASE call.tx_type \in {"DEPOSIT", "WITHDRAWAL"}
    <2>1. PICK m, b : Business(call) = <<Add(m, b)>> /\ Added(Add(m, b), n) = Effect(call, n)
      BY <1>1, <1>2, <1>s, <1>5, ListFacts DEF a
    <2>2. CASE todo = Business(call)
      <3>1. Pending(n) = Effect(call, n) /\ Added(todo[1], n) = Effect(call, n)
        BY <2>1, <2>2 DEF Pending
      <3>2. QED
        BY <1>1, <1>2, <1>s, <1>i, <1>5, <3>1
    <2>3. CASE todo = Tail(Business(call))
      <3>1. Tail(Business(call)) = << >>
        BY <2>1
      <3>2. QED
        BY <1>3, <2>3, <3>1
    <2>4. QED
      BY <1>3, <2>2, <2>3
  <1>6. CASE call.tx_type = "OTHER"
    <2>1. Business(call) = <<InsertName(call.src), InsertName(call.dest)>>
      BY <1>6, ListFacts DEF JitAccounts
    <2>2. CASE todo = Business(call)
      <3>1. Pending(n) = 0 /\ Added(todo[1], n) = 0
        BY <2>1, <2>2 DEF Pending, Added, InsertName
      <3>2. QED
        BY <1>1, <1>i, <1>6, <3>1 DEF Effect
    <2>3. CASE todo = Tail(Business(call))
      <3>1. todo = <<InsertName(call.dest)>>
        BY <2>1, <2>3
      <3>2. Pending(n) = 0 /\ Added(todo[1], n) = 0
        BY <3>1 DEF Pending, Added, InsertName
      <3>3. QED
        BY <1>1, <1>i, <1>6, <3>2 DEF Effect
    <2>4. QED
      BY <1>3, <2>2, <2>3
  <1>7. QED
    BY <1>4, <1>5, <1>6, CallFacts DEF TxTypes

\* Among the business statements only the repeated ones insert, and a call
\* that repeats them adds nothing to any account.
LEMMA InsertsAddNothing ==
  ASSUME NEW n \in Names, call \in Calls, todo # << >>,
         todo \in {Business(call), Tail(Business(call))}, todo[1].op = "insert"
  PROVE  Effect(call, n) = 0 /\ Pending(n) = 0 /\ Added(todo[1], n) = 0
  <1>1. CASE call.tx_type = "TRANSFER"
    <2>1. Business(call) = <<Add(call.src, -call.amount), Add(call.dest, call.amount)>>
      BY <1>1, ListFacts
    <2>2. todo[1].op = "add"
      BY <2>1 DEF Add
    <2>3. QED
      BY <2>2
  <1>2. CASE call.tx_type \in {"DEPOSIT", "WITHDRAWAL"}
    <2>1. \E m, b : Business(call) = <<Add(m, b)>>
      BY <1>2, ListFacts
    <2>2. todo[1].op = "add"
      <3>1. PICK m, b : Business(call) = <<Add(m, b)>>
        BY <2>1
      <3>2. Tail(Business(call)) = << >>
        BY <3>1
      <3>3. QED
        BY <3>1, <3>2 DEF Add
    <2>3. QED
      BY <2>2
  <1>3. CASE call.tx_type = "OTHER"
    <2>1. Business(call) = <<InsertName(call.src), InsertName(call.dest)>>
      BY <1>3, ListFacts DEF JitAccounts
    <2>2. Tail(Business(call)) = <<InsertName(call.dest)>>
      BY <2>1
    <2>3. Pending(n) = 0 /\ Added(todo[1], n) = 0
      BY <2>1, <2>2 DEF Pending, Added, InsertName
    <2>4. QED
      BY <1>3, <2>3 DEF Effect
  <1>4. QED
    BY <1>1, <1>2, <1>3, CallFacts DEF TxTypes

\* A call adds one amount at most to an account.
LEMMA EffectBounded ==
  ASSUME NEW c \in Calls, NEW n \in Names
  PROVE  Effect(c, n) \in Amounts
  <1>1. c.amount \in Int /\ -MaxAmount <= c.amount /\ c.amount <= MaxAmount
    BY CallFacts, AmountAssumption DEF Amounts
  <1>2. Effect(c, n) \in {0, c.amount, -c.amount}
    BY <1>1 DEF Effect
  <1>3. QED
    BY <1>1, <1>2, AmountAssumption DEF Amounts

\* What k faults account for, more faults do; and one more accounts for what
\* differs by an amount.
LEMMA OffMore ==
  ASSUME TypeInv, NEW n \in Names, NEW x \in Int, NEW y \in Int,
         NEW j \in Nat, NEW k \in Nat, Off(n, x, j)
  PROVE  /\ j <= k => Off(n, x, k)
         /\ (j < k /\ x - y \in Amounts) => Off(n, y, k)
  <1>1. Drift(n) \in Int /\ Slack(j) \in Nat /\ Slack(k) \in Nat /\ MaxAmount \in Nat
    BY BooksTyped, SlackFacts, AmountAssumption DEF Drift
  <1>2. /\ j <= k => Slack(j) <= Slack(k)
        /\ j < k  => Slack(j) + MaxAmount <= Slack(k)
    BY SlackFacts
  <1>3. Drift(n) - x <= Slack(j) /\ x - Drift(n) <= Slack(j)
    BY DEF Off
  <1>4. x - y \in Amounts => -MaxAmount <= x - y /\ x - y <= MaxAmount
    BY DEF Amounts
  <1>5. j <= k => Off(n, x, k)
    BY <1>1, <1>2, <1>3 DEF Off
  <1>6. (j < k /\ x - y \in Amounts) => Off(n, y, k)
    BY <1>1, <1>2, <1>3, <1>4 DEF Off
  <1>7. QED
    BY <1>5, <1>6

\* What a call in progress has done to an account is one amount at most.
LEMMA PartFacts ==
  ASSUME TypeInv, ListInv, ShapeInv, NEW n \in Names
  PROVE  /\ pc = "jit" => Part(n) = 0
         /\ (pc = "business" /\ KeyColumn # "user") => Part(n) = 0
         /\ (pc = "business" /\ KeyColumn = "user") =>
              Ahead(n) = Effect(call, n) - Pending(n) /\ Pending(n) \in Int
         /\ (pc = "approved" /\ todo # << >>) => Ahead(n) = Effect(call, n)
         /\ Unbooked => Ahead(n) \in Amounts /\ Part(n) \in Amounts /\ Part(n) \in Int
  <1>1. 0 \in Amounts /\ Amounts \subseteq Int
    BY AmountAssumption DEF Amounts
  <1>2. Part(n) \in {0, Ahead(n)}
    BY DEF Part
  <1>3. CASE pc = "jit"
    BY <1>1, <1>2, <1>3 DEF Ahead, Unbooked
  <1>4. CASE pc = "business" /\ KeyColumn # "user"
    BY <1>1, <1>2, <1>4 DEF Ahead, Unbooked
  <1>5. CASE pc = "business" /\ KeyColumn = "user"
    <2>1. call \in Calls /\ todo \in {Business(call), Tail(Business(call)), << >>}
      BY <1>5 DEF TypeInv, InCall, ListInv
    <2>2. Pending(n) \in Int /\ Effect(call, n) - Pending(n) \in Amounts
      BY <2>1, PartialSums
    <2>3. Ahead(n) = Effect(call, n) - Pending(n)
      BY <1>5 DEF Ahead
    <2>4. QED
      BY <1>1, <1>2, <1>5, <2>2, <2>3
  <1>6. CASE pc = "approved" /\ todo # << >>
    <2>1. Ahead(n) = Effect(call, n)
      BY <1>6 DEF Ahead
    <2>2. call \in Calls
      BY <1>6 DEF TypeInv, InCall
    <2>3. Effect(call, n) \in Amounts
      BY <2>2, EffectBounded
    <2>4. QED
      BY <1>1, <1>2, <1>6, <2>1, <2>3
  <1>7. QED
    BY <1>3, <1>4, <1>5, <1>6 DEF Unbooked

\* A statement of a call that takes effect.
LEMMA StatementDrift ==
  ASSUME TypeInv, ShapeInv, ListInv, DriftInv, Statement,
         tables = AllTables, pc \notin {"boot", "schema"}, pc' # "crashed"
  PROVE  IF Unbooked'
           THEN \E k \in 0..faults :
                  /\ k = faults => AccountsThere'
                  /\ \A n \in Names : Off(n, Part(n), k)'
           ELSE \A n \in Names : Off(n, 0, faults)'
  <1>1. /\ Len(todo) = 1 \/ Len(todo) = 2
        /\ todo[1] \in Statements /\ Compiles(todo[1]) /\ todo # << >>
        /\ Take(todo[1]) /\ pc' = pc /\ call' = call /\ rc' = rc /\ faults' = faults
        /\ Len(todo') = Len(todo) - 1 /\ todo' = Tail(todo)
        /\ \A i \in 1..Len(todo') : todo'[i] = todo[i + 1]
    BY StatementFacts DEF TypeInv, Statement
  <1>2. pc \in {"jit", "business", "approved", "blocked"} /\ call \in Calls
    BY <1>1 DEF ShapeInv, TypeInv, TypeOK, InCall
  <1>3. Alive /\ faults \in Nat
    BY <1>2, BoundAssumption DEF Alive, TypeInv, TypeOK
  <1>4. CASE pc = "jit"
    <2>1. todo[1].op = "insert"
      BY <1>1, <1>4 DEF ShapeInv
    <2>2. PICK k \in 0..faults : /\ k = faults => AccountsThere
                                 /\ \A n \in Names : Off(n, Part(n), k)
      BY <1>3, <1>4 DEF DriftInv, Unbooked
    <2>3. AccountsThere => AccountsThere'
      <3>1. DOMAIN balance \subseteq DOMAIN balance' /\ todo[1].name \in DOMAIN balance'
        BY <1>1, <2>1, TakeEffects
      <3>2. {todo[i].name : i \in 1..Len(todo)} \subseteq
              {todo[1].name} \cup {todo'[i].name : i \in 1..Len(todo')}
        BY <1>1
      <3>3. QED
        BY <1>1, <1>4, <3>1, <3>2 DEF AccountsThere
    <2>4. ASSUME NEW n \in Names PROVE Off(n, Part(n), k)'
      <3>1. Part(n) = 0 /\ Part(n)' = 0
        BY <1>1, <1>4 DEF Part, Ahead
      <3>2. Drift(n)' = Drift(n)
        BY <1>1, <2>1, TakeDrift
      <3>3. QED
        BY <2>2, <3>1, <3>2 DEF Off, Slack
    <2>5. Unbooked'
      BY <1>1, <1>4 DEF Unbooked
    <2>6. QED
      BY <2>2, <2>3, <2>4, <2>5
  <1>5. CASE pc = "business"
    <2>1. todo[1].op \in {"insert", "add"}
      BY <1>1, <1>5 DEF ShapeInv
    <2>2. KeyColumn = "user" /\ rc = "ok"
      BY <1>1, <1>5, <2>1 DEF Compiles, ListInv
    <2>3. Unbooked /\ Unbooked'
      BY <1>1, <1>5, <2>2 DEF Unbooked
    <2>4. PICK k \in 0..faults : /\ k = faults => AccountsThere
                                 /\ \A n \in Names : Off(n, Part(n), k)
      BY <1>3, <2>3 DEF DriftInv
    <2>5. AccountsThere => AccountsThere'
      <3>1. DOMAIN balance \subseteq DOMAIN balance'
        BY <1>1, TakeEffects
      <3>2. QED
        BY <1>1, <1>5, <3>1 DEF AccountsThere
    <2>6. ASSUME NEW n \in Names PROVE Off(n, Part(n), k)'
      <3>1. /\ Pending(n) \in Int /\ Pending(n)' \in Int /\ Added(todo[1], n) \in Int
            /\ Pending(n)' = Pending(n) - Added(todo[1], n)
        BY <1>1, PendingRest DEF TypeInv
      <3>2. /\ Effect(call, n) \in Int /\ Effect(call, n)' = Effect(call, n)
            /\ Drift(n) \in Int /\ Part(n) \in Int
        BY <1>1, <1>2, <2>3, EffectTyped, TakeDrift, PartFacts DEF Effect
      <3>3. Ahead(n) = Effect(call, n) - Pending(n)
        BY <1>5, <2>2, PartFacts
      <3>4. Ahead(n)' = Ahead(n) + Added(todo[1], n) /\ Ahead(n)' \in Int /\ Ahead(n) \in Int
        <4>1. Ahead(n)' = Effect(call, n) - Pending(n)'
          BY <1>1, <1>5, <2>2, <3>2 DEF Ahead
        <4>2. QED
          BY <3>1, <3>2, <3>3, <4>1
      <3>5. CASE todo[1].op = "add"
        <4>1. /\ DOMAIN balance' = DOMAIN balance
              /\ n \in DOMAIN balance    => Drift(n)' = Drift(n) + Added(todo[1], n)
              /\ n \notin DOMAIN balance => Drift(n)' = Drift(n)
          BY <1>1, <3>5, TakeDrift
        <4>2. CASE n \in DOMAIN balance
          <5>1. Part(n) = Ahead(n) /\ Part(n)' = Ahead(n)'
            BY <4>1, <4>2 DEF Part
          <5>2. Off(n, Part(n), k)
            BY <2>4
          <5>3. QED
            BY <3>1, <3>2, <3>4, <4>1, <4>2, <5>1, <5>2 DEF Off, Slack
        <4>3. CASE n \notin DOMAIN balance
          <5>1. Part(n) = 0 /\ Part(n)' = 0
            BY <4>1, <4>3 DEF Part
          <5>2. QED
            BY <2>4, <4>1, <4>3, <5>1 DEF Off, Slack
        <4>4. QED
          BY <4>2, <4>3
      <3>6. CASE todo[1].op = "insert"
        <4>1. todo \in {Business(call), Tail(Business(call))}
          BY <1>1, <1>5 DEF ListInv
        <4>2. Effect(call, n) = 0 /\ Pending(n) = 0 /\ Added(todo[1], n) = 0
          BY <1>1, <1>2, <3>6, <4>1, InsertsAddNothing
        <4>3. Ahead(n) = 0 /\ Ahead(n)' = 0
          BY <3>3, <3>4, <4>2
        <4>4. Part(n) = 0 /\ Part(n)' = 0
          BY <4>3 DEF Part
        <4>5. Drift(n)' = Drift(n)
          BY <1>1, <3>6, TakeDrift
        <4>6. QED
          BY <2>4, <4>4, <4>5 DEF Off, Slack
      <3>7. QED
        BY <2>1, <3>5, <3>6
    <2>7. QED
      BY <2>3, <2>4, <2>5, <2>6
  <1>6. CASE pc = "approved"
    <2>1. todo = <<LogRow(call, "APPROVED")>>
      BY <1>1, <1>6 DEF ShapeInv
    <2>2. todo[1].op = "log" /\ todo[1].row = call /\ todo[1].status = "APPROVED"
      BY <2>1 DEF LogRow
    <2>3. todo' = << >> /\ ~Unbooked'
      BY <1>1, <1>6, <2>1 DEF Unbooked
    <2>4. Unbooked /\ KeyColumn = "user"
      BY <1>1, <1>6 DEF Unbooked, ListInv
    <2>5. PICK k \in 0..faults : /\ k = faults => AccountsThere
                                 /\ \A n \in Names : Off(n, Part(n), k)
      BY <1>3, <2>4 DEF DriftInv
    <2>6. ASSUME NEW n \in Names PROVE Off(n, 0, faults)'
      <3>1. Drift(n)' = Drift(n) - Effect(call, n) /\ Drift(n) \in Int
        BY <1>1, <2>2, TakeDrift
      <3>2. Ahead(n) = Effect(call, n) /\ Effect(call, n) \in Amounts /\ Effect(call, n) \in Int
        BY <1>1, <1>2, <1>6, <2>4, PartFacts, EffectTyped
      <3>3. Off(n, Effect(call, n), faults)
        <4>1. CASE n \in DOMAIN balance
          <5>1. Off(n, Effect(call, n), k)
            BY <2>5, <3>2, <4>1 DEF Part
          <5>2. QED
            BY <1>3, <2>5, <3>2, <5>1, OffMore
        <4>2. CASE n \notin DOMAIN balance /\ k = faults
          <5>1. n \notin {call.src, call.dest}
            BY <1>6, <2>4, <2>5, <4>2 DEF AccountsThere
          <5>2. Effect(call, n) = 0
            BY <5>1 DEF Effect
          <5>3. QED
            BY <2>5, <4>2, <5>2 DEF Part
        <4>3. CASE n \notin DOMAIN balance /\ k < faults
          <5>1. Off(n, 0, k)
            BY <2>5, <4>3 DEF Part
          <5>2. 0 - Effect(call, n) \in Amounts
            BY <3>2, AmountAssumption DEF Amounts
          <5>3. QED
            BY <1>3, <2>5, <3>2, <4>3, <5>1, <5>2, OffMore
        <4>4. QED
          BY <1>3, <2>5, <4>1, <4>2, <4>3
      <3>4. QED
        BY <1>1, <3>1, <3>2, <3>3 DEF Off, Slack
    <2>7. QED
      BY <2>3, <2>6
  <1>7. CASE pc = "blocked"
    <2>1. todo[1].op = "log" /\ todo[1].status # "APPROVED"
      BY <1>1, <1>7 DEF ShapeInv, LogRow
    <2>2. ~Unbooked /\ ~Unbooked'
      BY <1>1, <1>7 DEF Unbooked
    <2>3. ASSUME NEW n \in Names PROVE Off(n, 0, faults)'
      <3>1. Drift(n)' = Drift(n)
        BY <1>1, <2>1, TakeDrift
      <3>2. Off(n, 0, faults)
        BY <1>3, <2>2 DEF DriftInv
      <3>3. QED
        BY <1>1, <3>1, <3>2 DEF Off, Slack
    <2>4. QED
      BY <2>2, <2>3
  <1>8. QED
    BY <1>2, <1>4, <1>5, <1>6, <1>7

\* A fault in a call ends its list; the call can be off by one amount more,
\* for which there is now one fault more.
LEMMA FaultDrift ==
  ASSUME TypeInv, ShapeInv, ListInv, DriftInv, StatementFaults,
         tables = AllTables, tables' = AllTables, pc \notin {"boot", "schema"}
  PROVE  IF Unbooked'
           THEN \E k \in 0..faults' :
                  /\ k = faults' => AccountsThere'
                  /\ \A n \in Names : Off(n, Part(n), k)'
           ELSE \A n \in Names : Off(n, 0, faults)'
  <1>1. /\ todo # << >> /\ todo \in Seq(Statements)
        /\ faults' = faults + 1 /\ faults \in Nat
        /\ todo' = << >> /\ rc' = "error" /\ pc' = pc /\ call' = call
    BY BoundAssumption DEF StatementFaults, TypeInv, TypeOK
  <1>2. 1 \in 1..Len(todo) /\ Head(todo) = todo[1] /\ todo[1] \in Statements
    BY <1>1, TailFacts
  <1>3. \/ UNCHANGED database
        \/ Compiles(todo[1]) /\ Take(todo[1])
    <2>1. tables' # {}
      BY DEF AllTables
    <2>2. QED
      BY <1>2, <2>1 DEF StatementFaults
  <1>4. pc \in {"jit", "business", "approved", "blocked"} /\ call \in Calls
    BY <1>1 DEF ShapeInv, TypeInv, TypeOK, InCall
  <1>5. Alive /\ faults \in 0..faults' /\ faults < faults' /\ faults' \in Nat
    BY <1>1, <1>4 DEF Alive
  <1>6. ASSUME NEW n \in Names
        PROVE  /\ Drift(n) \in Int
               /\ UNCHANGED database => Drift(n)' = Drift(n)
    BY BooksTyped DEF Drift, Held, database
  <1>7. CASE pc = "jit"
    <2>1. todo[1].op = "insert"
      BY <1>2, <1>7 DEF ShapeInv
    <2>2. PICK k \in 0..faults : \A n \in Names : Off(n, Part(n), k)
      BY <1>5, <1>7 DEF DriftInv, Unbooked
    <2>3. ASSUME NEW n \in Names PROVE Off(n, Part(n), k)'
      <3>1. Part(n) = 0 /\ Part(n)' = 0
        BY <1>1, <1>7 DEF Part, Ahead
      <3>2. Drift(n)' = Drift(n)
        BY <1>2, <1>3, <1>6, <2>1, TakeDrift
      <3>3. QED
        BY <2>2, <3>1, <3>2 DEF Off, Slack
    <2>4. Unbooked' /\ k \in 0..faults' /\ k # faults'
      BY <1>1, <1>7, <2>2 DEF Unbooked
    <2>5. QED
      BY <2>3, <2>4
  <1>8. CASE pc \in {"business", "approved"}
    <2>1. ~Unbooked' /\ Unbooked
      BY <1>1, <1>8 DEF Unbooked, ListInv
    <2>2. PICK k \in 0..faults : \A n \in Names : Off(n, Part(n), k)
      BY <1>5, <2>1 DEF DriftInv
    <2>3. k \in Nat /\ k < faults'
      BY <1>1, <2>2
    <2>4. ASSUME NEW n \in Names PROVE Off(n, 0, faults)'
      <3>1. Part(n) \in Int /\ Part(n) \in Amounts /\ Off(n, Part(n), k)
        BY <2>1, <2>2, PartFacts
      <3>2. PICK d \in Int : Drift(n)' = Drift(n) + d /\ Part(n) + d \in Amounts
        <4>0. Drift(n)' = Drift(n) =>
                0 \in Int /\ Drift(n)' = Drift(n) + 0 /\ Part(n) + 0 \in Amounts
          BY <1>6, <3>1
        <4>1. CASE UNCHANGED database
          BY <1>6, <4>0, <4>1
        <4>2. CASE pc = "business" /\ Compiles(todo[1]) /\ Take(todo[1])
          <5>1. todo[1].op \in {"insert", "add"}
            BY <1>2, <4>2 DEF ShapeInv
          <5>2. KeyColumn = "user"
            BY <4>2, <5>1 DEF Compiles
          <5>3. todo \in {Business(call), Tail(Business(call))}
            BY <1>1, <4>2 DEF ListInv
          <5>4. /\ Ahead(n) = Effect(call, n) - Pending(n) /\ Added(todo[1], n) \in Int
                /\ Ahead(n) + Added(todo[1], n) \in Amounts
            BY <1>1, <1>4, <4>2, <5>2, <5>3, PartFacts, PartialSums
          <5>5. CASE todo[1].op = "insert"
            <6>1. Drift(n)' = Drift(n)
              BY <1>2, <4>2, <5>5, TakeDrift
            <6>2. QED
              BY <4>0, <6>1
          <5>6. CASE todo[1].op = "add" /\ n \in DOMAIN balance
            <6>1. Drift(n)' = Drift(n) + Added(todo[1], n)
              BY <1>2, <4>2, <5>6, TakeDrift
            <6>2. Part(n) = Ahead(n)
              BY <5>6 DEF Part
            <6>3. QED
              BY <5>4, <6>1, <6>2
          <5>7. CASE todo[1].op = "add" /\ n \notin DOMAIN balance
            <6>1. Drift(n)' = Drift(n)
              BY <1>2, <4>2, <5>7, TakeDrift
            <6>2. QED
              BY <4>0, <6>1
          <5>8. QED
            BY <5>1, <5>5, <5>6, <5>7
        <4>3. CASE pc = "approved" /\ Take(todo[1])
          <5>1. todo = <<LogRow(call, "APPROVED")>>
            BY <1>1, <4>3 DEF ShapeInv
          <5>2. todo[1].op = "log" /\ todo[1].row = call /\ todo[1].status = "APPROVED"
            BY <5>1 DEF LogRow
          <5>3. Drift(n)' = Drift(n) - Effect(call, n) /\ Effect(call, n) \in Int
            BY <1>2, <1>4, <4>3, <5>2, TakeDrift, EffectTyped
          <5>4. Effect(call, n) \in Amounts /\ Part(n) \in {0, Effect(call, n)}
            BY <1>1, <1>4, <4>3, PartFacts, EffectBounded DEF Part
          <5>5. Part(n) - Effect(call, n) \in Amounts
            BY <5>3, <5>4, AmountAssumption DEF Amounts
          <5>6. /\ -Effect(call, n) \in Int
                /\ Drift(n)' = Drift(n) + (-Effect(call, n))
                /\ Part(n) + (-Effect(call, n)) \in Amounts
            BY <1>6, <3>1, <5>3, <5>5
          <5>7. QED
            BY <5>6
        <4>4. QED
          BY <1>3, <1>8, <4>1, <4>2, <4>3
      <3>3. Off(n, -d, faults')
        <4>1. -d \in Int /\ Part(n) - (-d) = Part(n) + d
          BY <3>1, <3>2
        <4>2. QED
          BY <1>5, <2>3, <3>1, <3>2, <4>1, OffMore
      <3>4. QED
        BY <1>6, <3>2, <3>3 DEF Off, Slack
    <2>5. QED
      BY <2>1, <2>4
  <1>9. CASE pc = "blocked"
    <2>1. todo[1].op = "log" /\ todo[1].status # "APPROVED"
      BY <1>1, <1>9 DEF ShapeInv, LogRow
    <2>2. ~Unbooked /\ ~Unbooked'
      BY <1>1, <1>9 DEF Unbooked
    <2>3. ASSUME NEW n \in Names PROVE Off(n, 0, faults)'
      <3>1. Drift(n)' = Drift(n)
        BY <1>2, <1>3, <1>6, <2>1, TakeDrift
      <3>2. Off(n, 0, faults)
        BY <1>5, <2>2 DEF DriftInv
      <3>3. Off(n, 0, faults')
        BY <1>1, <1>5, <3>2, OffMore
      <3>4. QED
        BY <3>1, <3>3 DEF Off, Slack
    <2>4. QED
      BY <2>2, <2>3
  <1>10. QED
    BY <1>4, <1>7, <1>8, <1>9

DInv == TypeInv /\ ShapeInv /\ ListInv /\ FreshInv /\ DriftInv

\* Every step keeps the drift within what the faults account for.
LEMMA DriftStep == DInv /\ [Next]_vars => DriftInv'
  <1> SUFFICES ASSUME DInv, [Next]_vars, tables' = AllTables, Alive'
               PROVE  IF Unbooked'
                        THEN \E k \in 0..faults' :
                               /\ k = faults' => AccountsThere'
                               /\ \A n \in Names : Off(n, Part(n), k)'
                        ELSE \A n \in Names : Off(n, 0, faults)'
    BY DEF DriftInv
  <1>0. /\ TypeInv /\ ShapeInv /\ ListInv /\ FreshInv /\ DriftInv
        /\ TypeInv' /\ faults \in Nat /\ faults' \in Nat
    <2>1. /\ TypeInv /\ ShapeInv /\ ListInv /\ FreshInv /\ DriftInv /\ TypeInv'
      BY TypeStep DEF DInv
    <2>2. QED
      BY <2>1, BoundAssumption DEF TypeInv, TypeOK
  <1>1. CASE pc \in {"boot", "schema"}
    <2>1. /\ pc' \in {"boot", "schema", "idle", "halted", "crashed"}
          /\ DOMAIN balance' = {} /\ \A n \in Names : booked'[n] = 0
      BY <1>0, <1>1, FreshStep
    <2>2. ~Unbooked'
      BY <2>1 DEF Unbooked
    <2>3. ASSUME NEW n \in Names PROVE Off(n, 0, faults)'
      <3>1. Drift(n)' = 0
        BY <2>1 DEF Drift, Held
      <3>2. Slack(faults') \in Nat
        BY <1>0, SlackFacts
      <3>3. QED
        BY <3>1, <3>2 DEF Off, Slack
    <2>4. QED
      BY <2>2, <2>3
  <1>2. CASE pc \notin {"boot", "schema"}
    <2>1. tables = AllTables
      BY <1>0, <1>2, TablesKept
    <2>2. ASSUME UNCHANGED <<database, faults>>, NEW n \in Names, NEW k
          PROVE  /\ \A x, y : (y = x /\ Off(n, x, k)) =>
                      (Drift(n)' - y <= Slack(k) /\ y - Drift(n)' <= Slack(k))
                 /\ DOMAIN balance' = DOMAIN balance
      BY <2>2 DEF Off, Drift, Held, database
    <2>3. CASE Statement
      <3>1. pc' # "crashed" /\ faults' = faults
        BY <2>3 DEF Alive, Statement
      <3>2. QED
        BY <1>0, <1>2, <2>1, <2>3, <3>1, StatementDrift
    <2>4. CASE StatementFaults
      BY <1>0, <1>2, <2>1, <2>4, FaultDrift
    <2>5. CASE StatementRejected
      <3>1. /\ UNCHANGED <<database, faults>> /\ pc' = pc /\ call' = call
            /\ todo' = << >> /\ rc' = "error" /\ ~Compiles(Head(todo))
            /\ todo # << >> /\ todo \in Seq(Statements)
        BY <1>0, <2>5 DEF StatementRejected, TypeInv, TypeOK
      <3>2. Head(todo) = todo[1] /\ 1 \in 1..Len(todo)
        BY <3>1, TailFacts
      <3>3. /\ pc \in {"jit", "business", "approved", "blocked"}
        BY <1>0, <1>2, <3>1 DEF ShapeInv, TypeInv, TypeOK
      <3>4. pc \notin {"approved", "blocked"}
        <4>1. pc \in {"approved", "blocked"} => todo[1].op = "log"
          BY <1>0, <3>1 DEF ShapeInv, LogRow
        <4>2. QED
          BY <2>1, <3>1, <3>2, <4>1 DEF Compiles, AllTables
      <3>5. KeyColumn # "user"
        <4>1. todo[1].op \in {"insert", "add"}
          BY <1>0, <3>2, <3>3, <3>4 DEF ShapeInv
        <4>2. QED
          BY <2>1, <3>1, <3>2, <4>1 DEF Compiles, AllTables
      <3>6. Unbooked /\ Alive
        BY <1>0, <3>1, <3>3, <3>4 DEF Unbooked, Alive, ListInv
      <3>7. PICK k \in 0..faults : \A n \in Names : Off(n, Part(n), k)
        BY <1>0, <2>1, <3>6 DEF DriftInv
      <3>8. \A n \in Names : Part(n) = 0 /\ Part(n)' = 0
        BY <3>1, <3>3, <3>4, <3>5 DEF Part, Ahead
      <3>9. \A n \in Names : Off(n, 0, k) /\ Off(n, 0, faults)
        BY <1>0, <3>7, <3>8, OffMore
      <3>10. ASSUME NEW n \in Names PROVE Off(n, Part(n), k)' /\ Off(n, 0, faults)'
        BY <2>2, <3>1, <3>8, <3>9 DEF Off, Slack
      <3>11. AccountsThere'
        BY <3>5 DEF AccountsThere
      <3>12. QED
        BY <3>1, <3>7, <3>10, <3>11
    <2>6. CASE StartBusiness
      <3>1. /\ UNCHANGED <<database, faults>> /\ pc = "jit" /\ todo = << >> /\ call' = call
            /\ pc' = "business" /\ todo' = Business(call) /\ rc' = "ok" /\ call \in Calls
        BY <1>0, <2>6 DEF StartBusiness, TypeInv, InCall
      <3>2. Unbooked /\ Unbooked' /\ Alive
        BY <3>1 DEF Unbooked, Alive
      <3>3. PICK k \in 0..faults : /\ k = faults => AccountsThere
                                   /\ \A n \in Names : Off(n, Part(n), k)
        BY <1>0, <2>1, <3>2 DEF DriftInv
      <3>4. ASSUME NEW n \in Names PROVE Part(n) = 0 /\ Part(n)' = 0
        <4>1. Pending(n)' = Effect(call, n) /\ Effect(call, n) \in Int
          BY <1>0, <3>1, BusinessPending, EffectTyped DEF TypeInv
        <4>2. Effect(call, n)' = Effect(call, n)
          BY <3>1 DEF Effect
        <4>3. QED
          BY <3>1, <4>1, <4>2 DEF Part, Ahead
      <3>5. ASSUME NEW n \in Names PROVE Off(n, Part(n), k)'
        BY <2>2, <3>1, <3>3, <3>4 DEF Off, Slack
      <3>6. AccountsThere => AccountsThere'
        <4>1. {todo[i].name : i \in 1..Len(todo)} = {}
          BY <3>1
        <4>2. QED
          BY <3>1, <4>1 DEF AccountsThere, database
      <3>7. QED
        BY <3>1, <3>2, <3>3, <3>5, <3>6
    <2>7. CASE Approve
      <3>1. /\ UNCHANGED <<database, faults>> /\ pc = "business" /\ todo = << >> /\ rc = "ok"
            /\ call' = call /\ pc' = "approved" /\ todo' = <<LogRow(call, "APPROVED")>>
        BY <2>7 DEF Approve
      <3>2. Unbooked /\ Unbooked' /\ Alive /\ KeyColumn = "user" /\ todo' # << >>
        BY <1>0, <3>1 DEF Unbooked, Alive, ListInv
      <3>3. PICK k \in 0..faults : /\ k = faults => AccountsThere
                                   /\ \A n \in Names : Off(n, Part(n), k)
        BY <1>0, <2>1, <3>2 DEF DriftInv
      <3>4. ASSUME NEW n \in Names PROVE Part(n)' = Part(n)
        <4>1. Effect(call, n)' = Effect(call, n) /\ Effect(call, n) \in Int
          BY <1>0, <3>1, BooksTyped DEF Effect
        <4>2. Pending(n) = 0
          BY <3>1 DEF Pending
        <4>3. Ahead(n) = Effect(call, n) /\ Ahead(n)' = Effect(call, n)
          BY <3>1, <3>2, <4>1, <4>2 DEF Ahead
        <4>4. QED
          BY <3>1, <4>3 DEF Part, database
      <3>5. ASSUME NEW n \in Names PROVE Off(n, Part(n), k)'
        BY <2>2, <3>1, <3>3, <3>4 DEF Off, Slack
      <3>6. AccountsThere => AccountsThere'
        BY <3>1 DEF AccountsThere, database
      <3>7. QED
        BY <3>1, <3>2, <3>3, <3>5, <3>6
    <2>8. CASE FailBusiness \/ Finish
      <3>1. UNCHANGED <<database, faults>> /\ ~Unbooked /\ Alive /\ ~Unbooked'
        BY <2>8 DEF FailBusiness, Finish, Return, Unbooked, Alive
      <3>2. \A n \in Names : Off(n, 0, faults)
        BY <1>0, <2>1, <3>1 DEF DriftInv
      <3>3. ASSUME NEW n \in Names PROVE Off(n, 0, faults)'
        BY <2>2, <3>1, <3>2 DEF Off, Slack
      <3>4. QED
        BY <3>1, <3>3
    <2>9. ASSUME NEW c \in Calls, Begin(c)
          PROVE  IF Unbooked'
                   THEN \E k \in 0..faults' :
                          /\ k = faults' => AccountsThere'
                          /\ \A n \in Names : Off(n, Part(n), k)'
                   ELSE \A n \in Names : Off(n, 0, faults)'
      <3>1. UNCHANGED <<database, faults>> /\ ~Unbooked /\ Alive /\ pc' \in {"jit", "blocked"}
        BY <2>9 DEF Begin, Unbooked, Alive
      <3>2. \A n \in Names : Off(n, 0, faults)
        BY <1>0, <2>1, <3>1 DEF DriftInv
      <3>3. ASSUME NEW n \in Names PROVE Off(n, 0, faults)' /\ Off(n, Part(n), faults)'
        <4>1. Part(n)' = 0
          BY <3>1 DEF Part, Ahead
        <4>2. QED
          BY <2>2, <3>1, <3>2, <4>1 DEF Off, Slack
      <3>4. pc' = "jit" => AccountsThere'
        <4>1. pc' = "jit" => todo' = JitAccounts(c) /\ call' = c
          BY <2>9 DEF Begin
        <4>2. pc' = "jit" => {c.src, c.dest} \subseteq {todo'[i].name : i \in 1..Len(todo')}
          BY <4>1 DEF JitAccounts, InsertName
        <4>3. QED
          BY <4>1, <4>2 DEF AccountsThere
      <3>5. Unbooked' => pc' = "jit"
        BY <3>1 DEF Unbooked
      <3>6. faults' = faults /\ faults \in 0..faults'
        BY <1>0, <3>1
      <3>7. QED
        BY <3>3, <3>4, <3>5, <3>6
    <2>10. CASE UNCHANGED vars
      <3>1. /\ UNCHANGED <<database, faults>> /\ pc' = pc /\ call' = call /\ todo' = todo
            /\ rc' = rc
        BY <2>10 DEF vars
      <3>2. Alive /\ (Unbooked' <=> Unbooked) /\ (AccountsThere' <=> AccountsThere)
        BY <3>1 DEF Alive, Unbooked, AccountsThere, database
      <3>3. \A n \in Names : Part(n)' = Part(n)
        BY <3>1 DEF Part, Ahead, Effect, Pending, Added, database
      <3>4. ASSUME NEW n \in Names, NEW k
            PROVE  /\ Off(n, Part(n), k) => Off(n, Part(n), k)'
                   /\ Off(n, 0, faults) => Off(n, 0, faults)'
        BY <2>2, <3>1, <3>3 DEF Off, Slack
      <3>5. QED
        BY <1>0, <2>1, <3>1, <3>2, <3>4 DEF DriftInv
    <2>11. ~(Open \/ OpenFails \/ Serve)
      BY <1>2 DEF Open, OpenFails, Serve
    <2>12. QED
      BY <2>3, <2>4, <2>5, <2>6, <2>7, <2>8, <2>9, <2>10, <2>11
      DEF Next, Internal, Stopped
  <1>3. QED
    BY <1>1, <1>2

\* Before the schema there are no accounts.
LEMMA DriftInit == Init => DInv
  <1> SUFFICES ASSUME Init PROVE DInv
    OBVIOUS
  <1>1. TypeInv /\ ShapeInv
    BY InvInit DEF IInv
  <1>2. ListInv /\ FreshInv
    BY DEF Init, ListInv, FreshInv
  <1>3. DriftInv
    BY DEF Init, DriftInv, AllTables
  <1>4. QED
    BY <1>1, <1>2, <1>3 DEF DInv

\* The parts of DInv hold together.
LEMMA DriftInvariant == Spec => []DInv
  <1>1. DInv /\ [Next]_vars => DInv'
    BY TypeStep, ShapeStep, ListStep, FreshKept, DriftStep DEF DInv
  <1>2. QED
    BY <1>1, DriftInit, PTL DEF Spec

\* Whatever statements faults hit, and whatever they leave behind: between
\* calls each fault accounts for a drift of one amount per account at most.
THEOREM DriftIsBounded == Spec => []DriftBounded
  <1>1. DInv => DriftBounded
    <2> SUFFICES ASSUME DInv, pc = "idle", tables = AllTables, NEW n \in Names
                 PROVE  /\ Drift(n) <= faults * MaxAmount
                        /\ -Drift(n) <= faults * MaxAmount
      BY DEF DriftBounded, Drift
    <2>1. Off(n, 0, faults)
      BY DEF DInv, DriftInv, Alive, Unbooked
    <2>2. Drift(n) \in Int
      BY BooksTyped DEF DInv, Drift
    <2>3. QED
      BY <2>1, <2>2 DEF Off, Slack
  <1>2. QED
    BY <1>1, DriftInvariant, PTL

-----------------------------------------------------------------------------
(* How many rows and answers faults can part.                              *)

\* One place more.
LEMMA CountOne ==
  ASSUME NEW n \in Nat, NEW P \in SUBSET (1..n)
  PROVE  /\ Cardinality(P) \in Nat
         /\ Cardinality(P \cup {n + 1}) = Cardinality(P) + 1
  <1>1. IsFiniteSet(1..n) /\ IsFiniteSet(P)
    <2>1. IsFiniteSet(1..n)
      BY FS_Interval
    <2>2. QED
      BY <2>1, FS_Subset
  <1>2. n + 1 \notin P
    OBVIOUS
  <1>3. QED
    BY <1>1, <1>2, FS_AddElement, FS_CardinalityType

\* Approvals are counted by rows, successes by answers.
LEMMA GapFacts ==
  ASSUME TypeInv
  PROVE  /\ Cardinality(Approvals) \in Nat /\ Cardinality(Successes) \in Nat
         /\ \A c \in Calls, s \in Statuses :
              log' = Append(log, [call |-> c, status |-> s]) =>
                Cardinality(Approvals') =
                  Cardinality(Approvals) + IF s = "APPROVED" THEN 1 ELSE 0
         /\ \A c \in Calls, r \in {0, -1} :
              answered' = Append(answered, [call |-> c, result |-> r]) =>
                Cardinality(Successes') =
                  Cardinality(Successes) + IF r = 0 THEN 1 ELSE 0
  <1>1. /\ log \in Seq([call : Calls, status : Statuses]) /\ Len(log) \in Nat
        /\ answered \in Seq([call : Calls, result : {0, -1}]) /\ Len(answered) \in Nat
    BY DEF TypeInv, TypeOK, Statuses
  <1>2. Approvals \in SUBSET (1..Len(log)) /\ Successes \in SUBSET (1..Len(answered))
    BY DEF Approvals, Successes
  <1>3. /\ Cardinality(Approvals) \in Nat /\ Cardinality(Successes) \in Nat
        /\ Cardinality(Approvals \cup {Len(log) + 1}) = Cardinality(Approvals) + 1
        /\ Cardinality(Successes \cup {Len(answered) + 1}) = Cardinality(Successes) + 1
    BY <1>1, <1>2, CountOne
  <1>4. ASSUME NEW c \in Calls, NEW s \in Statuses,
               log' = Append(log, [call |-> c, status |-> s])
        PROVE  Cardinality(Approvals') =
                 Cardinality(Approvals) + IF s = "APPROVED" THEN 1 ELSE 0
    <2>1. /\ Len(log') = Len(log) + 1 /\ log'[Len(log) + 1].status = s
          /\ \A i \in 1..Len(log) : log'[i] = log[i]
      BY <1>1, <1>4
    <2>2. CASE s = "APPROVED"
      <3>1. Approvals' = Approvals \cup {Len(log) + 1}
        BY <1>1, <2>1, <2>2 DEF Approvals
      <3>2. Cardinality(Approvals') = Cardinality(Approvals) + 1
        BY <1>3, <3>1
      <3>3. QED
        BY <2>2, <3>2
    <2>3. CASE s # "APPROVED"
      <3>1. Approvals' = Approvals
        BY <1>1, <2>1, <2>3 DEF Approvals
      <3>2. Cardinality(Approvals') = Cardinality(Approvals) + 0
        BY <1>3, <3>1
      <3>3. QED
        BY <2>3, <3>2
    <2>4. QED
      BY <2>2, <2>3
  <1>5. ASSUME NEW c \in Calls, NEW r \in {0, -1},
               answered' = Append(answered, [call |-> c, result |-> r])
        PROVE  Cardinality(Successes') =
                 Cardinality(Successes) + IF r = 0 THEN 1 ELSE 0
    <2>1. /\ Len(answered') = Len(answered) + 1 /\ answered'[Len(answered) + 1].result = r
          /\ \A i \in 1..Len(answered) : answered'[i] = answered[i]
      BY <1>1, <1>5
    <2>2. CASE r = 0
      <3>1. Successes' = Successes \cup {Len(answered) + 1}
        BY <1>1, <2>1, <2>2 DEF Successes
      <3>2. Cardinality(Successes') = Cardinality(Successes) + 1
        BY <1>3, <3>1
      <3>3. QED
        BY <2>2, <3>2
    <2>3. CASE r # 0
      <3>1. Successes' = Successes
        BY <1>1, <2>1, <2>3 DEF Successes
      <3>2. Cardinality(Successes') = Cardinality(Successes) + 0
        BY <1>3, <3>1
      <3>3. QED
        BY <2>3, <3>2
    <2>4. QED
      BY <2>2, <2>3
  <1>6. QED
    BY <1>3, <1>4, <1>5

\* Which row a statement writes in each part of the component.
LEMMA RowsWritten ==
  ASSUME TypeInv, ShapeInv, todo # << >>, Take(Head(todo)), pc \notin {"boot", "schema"}
  PROVE  /\ pc \in {"jit", "business", "blocked"} =>
              Cardinality(Approvals') = Cardinality(Approvals)
         /\ pc = "approved" => Cardinality(Approvals') = Cardinality(Approvals) + 1
  <1>1. todo \in Seq(Statements) /\ (pc \in {"approved", "blocked"} => call \in Calls)
    BY DEF TypeInv, TypeOK, InCall
  <1>2. 1 \in 1..Len(todo) /\ Head(todo) = todo[1] /\ Cardinality(Approvals) \in Nat
    BY <1>1, TailFacts, GapFacts
  <1>3. CASE pc \in {"jit", "business"}
    <2>1. todo[1].op \in {"insert", "add"}
      BY <1>2, <1>3 DEF ShapeInv
    <2>2. log' = log
      BY <1>2, <2>1 DEF Take
    <2>3. Approvals' = Approvals
      BY <2>2 DEF Approvals
    <2>4. QED
      BY <1>3, <2>3
  <1>4. CASE pc \in {"approved", "blocked"}
    <2> DEFINE s == StatusOf(pc)
    <2>1. todo = <<LogRow(call, s)>>
      BY <1>4 DEF ShapeInv, StatusOf
    <2>2. Take(LogRow(call, s))
      BY <1>2, <2>1
    <2>3. log' = Append(log, [call |-> call, status |-> s])
      BY <2>2 DEF Take, LogRow
    <2>4. s \in Statuses /\ (s = "APPROVED" <=> pc = "approved")
      BY <1>4 DEF StatusOf, Statuses
    <2>5. Cardinality(Approvals') = Cardinality(Approvals) + IF s = "APPROVED" THEN 1 ELSE 0
      BY <1>1, <1>4, <2>3, <2>4, GapFacts
    <2>6. QED
      BY <1>2, <1>4, <2>4, <2>5
  <1>5. QED
    BY <1>3, <1>4

GInv == TypeInv /\ ShapeInv /\ FreshInv /\ GapInv

\* Every step keeps rows and answers together, but for the faults.
LEMMA GapStep == GInv /\ [Next]_vars => GapInv'
  <1> DEFINE due == IF pc = "approved" /\ todo = << >> THEN 1 ELSE 0
             A == Cardinality(Approvals)
             S == Cardinality(Successes)
             AfterA == Cardinality(Approvals')
             AfterS == Cardinality(Successes')
  <1> SUFFICES ASSUME GInv, [Next]_vars, tables' = AllTables, Alive'
               PROVE  AfterA <= AfterS + due' /\ AfterS + due' <= AfterA + faults'
    BY DEF GapInv
  <1>0. /\ TypeInv /\ ShapeInv /\ FreshInv /\ GapInv
        /\ TypeInv' /\ faults \in Nat /\ faults' \in Nat /\ A \in Nat /\ S \in Nat
    <2>1. TypeInv /\ ShapeInv /\ FreshInv /\ GapInv /\ TypeInv'
      BY TypeStep DEF GInv
    <2>2. QED
      BY <2>1, BoundAssumption, GapFacts DEF TypeInv, TypeOK
  <1>s. /\ UNCHANGED log => AfterA = A
        /\ UNCHANGED answered => AfterS = S
    BY DEF Approvals, Successes
  <1>1. CASE pc \in {"boot", "schema"}
    <2>1. /\ pc' \in {"boot", "schema", "idle", "halted", "crashed"}
          /\ log' = << >> /\ answered' = << >>
      BY <1>0, <1>1, FreshStep
    <2>2. Approvals' = {} /\ Successes' = {}
      BY <2>1 DEF Approvals, Successes
    <2>3. AfterA = 0 /\ AfterS = 0 /\ due' = 0
      BY <2>1, <2>2, FS_EmptySet
    <2>4. faults' \in Nat
      BY <1>0
    <2>5. AfterA <= AfterS + due'
      BY <2>3
    <2>6. AfterS + due' <= AfterA + faults'
      <3>1. \A f \in Nat : 0 + 0 <= 0 + f
        OBVIOUS
      <3>2. QED
        BY <2>3, <2>4, <3>1, Zenon
    <2>7. QED
      BY <2>5, <2>6
  <1>2. CASE pc \notin {"boot", "schema"}
    <2>1. tables = AllTables
      BY <1>0, <1>2, TablesKept
    <2>2. Alive => A <= S + due /\ S + due <= A + faults
      BY <1>0, <2>1 DEF GapInv
    <2>3. CASE Statement \/ StatementFaults
      <3>1. /\ todo # << >> /\ todo \in Seq(Statements)
            /\ AfterS = S /\ pc' = pc /\ pc \in {"jit", "business", "approved", "blocked"}
        <4>1. todo # << >> /\ answered' = answered /\ pc' = pc
          BY <2>3 DEF Statement, StatementFaults, Alive
        <4>2. QED
          BY <1>0, <1>2, <1>s, <4>1 DEF ShapeInv, TypeInv, TypeOK
      <3>2. due = 0 /\ A <= S /\ S <= A + faults
        BY <1>0, <2>2, <3>1 DEF Alive
      <3>3. pc # "approved" => due' = 0
        BY <3>1
      <3>4. CASE Statement
        <4>1. Take(Head(todo)) /\ faults' = faults /\ todo' = Tail(todo)
          BY <3>1, <3>4 DEF Statement, Alive
        <4>2. CASE pc = "approved"
          <5>1. todo = <<LogRow(call, "APPROVED")>>
            BY <1>0, <3>1, <4>2 DEF ShapeInv
          <5>2. due' = 1
            BY <3>1, <4>1, <4>2, <5>1
          <5>3. AfterA = A + 1
            BY <1>0, <1>2, <3>1, <4>1, <4>2, RowsWritten
          <5>4. QED
            BY <1>0, <3>1, <3>2, <4>1, <5>2, <5>3
        <4>3. CASE pc # "approved"
          <5>1. AfterA = A
            BY <1>0, <1>2, <3>1, <4>1, <4>3, RowsWritten
          <5>2. QED
            BY <1>0, <3>1, <3>2, <3>3, <4>1, <4>3, <5>1
        <4>4. QED
          BY <4>2, <4>3
      <3>5. CASE StatementFaults
        <4>1. /\ faults' = faults + 1 /\ todo' = << >>
              /\ Take(Head(todo)) \/ UNCHANGED log
          BY <3>5 DEF StatementFaults, database
        <4>2. CASE pc = "approved"
          <5>1. due' = 1
            BY <3>1, <4>1, <4>2
          <5>2. AfterA \in {A, A + 1}
            BY <1>0, <1>2, <1>s, <3>1, <4>1, <4>2, RowsWritten
          <5>3. QED
            BY <1>0, <3>1, <3>2, <4>1, <5>1, <5>2
        <4>3. CASE pc # "approved"
          <5>1. AfterA = A
            BY <1>0, <1>2, <1>s, <3>1, <4>1, <4>3, RowsWritten
          <5>2. QED
            BY <1>0, <3>1, <3>2, <3>3, <4>1, <4>3, <5>1
        <4>4. QED
          BY <4>2, <4>3
      <3>6. QED
        BY <2>3, <3>4, <3>5
    <2>4. CASE StatementRejected
      <3>1. /\ todo # << >> /\ todo \in Seq(Statements) /\ ~Compiles(Head(todo))
            /\ pc' = pc /\ faults' = faults /\ AfterA = A /\ AfterS = S
        BY <1>0, <1>s, <2>4 DEF StatementRejected, TypeInv, TypeOK, database
      <3>2. pc # "approved"
        <4>1. pc = "approved" => todo = <<LogRow(call, "APPROVED")>>
          BY <1>0, <3>1 DEF ShapeInv
        <4>2. pc = "approved" => Head(todo).op = "log"
          BY <4>1 DEF LogRow
        <4>3. QED
          BY <2>1, <3>1, <4>2 DEF Compiles, AllTables
      <3>3. QED
        BY <1>0, <2>2, <3>1, <3>2 DEF Alive
    <2>5. CASE StartBusiness \/ Approve \/ \E c \in Calls : Begin(c)
      <3>1. /\ pc \in {"idle", "jit", "business"}
            /\ pc' \in {"jit", "business", "blocked", "approved"}
            /\ pc' = "approved" => todo' # << >>
            /\ faults' = faults /\ AfterA = A /\ AfterS = S
        BY <1>s, <2>5 DEF StartBusiness, Approve, Begin, database
      <3>2. QED
        BY <1>0, <2>2, <3>1 DEF Alive
    <2>6. CASE FailBusiness
      <3>1. /\ pc = "business" /\ pc' = "idle" /\ faults' = faults /\ AfterA = A
            /\ answered' = Append(answered, [call |-> call, result |-> -1])
        BY <1>s, <2>6 DEF FailBusiness, Return, database
      <3>2. call \in Calls /\ -1 \in {0, -1} /\ -1 # 0
        BY <1>0, <3>1 DEF TypeInv, InCall
      <3>3. AfterS = S + IF -1 = 0 THEN 1 ELSE 0
        BY <1>0, <3>1, <3>2, GapFacts
      <3>4. QED
        BY <1>0, <2>2, <3>1, <3>2, <3>3 DEF Alive
    <2>7. CASE Finish
      <3> DEFINE r == IF call.token >= MinToken THEN 0 ELSE -1
      <3>1. /\ pc \in {"blocked", "approved"} /\ todo = << >>
            /\ pc' = "idle" /\ faults' = faults /\ AfterA = A
            /\ answered' = Append(answered, [call |-> call, result |-> r])
        BY <1>s, <2>7 DEF Finish, Return, database
      <3>2. call \in Calls /\ r \in {0, -1} /\ call.token \in Int /\ MinToken \in Int
        BY <1>0, <3>1, CallFacts, TokensAssumption DEF TypeInv, InCall
      <3>3. r = 0 <=> pc = "approved"
        BY <1>0, <3>1, <3>2 DEF ShapeInv
      <3>4. AfterS = S + IF r = 0 THEN 1 ELSE 0
        BY <1>0, <3>1, <3>2, GapFacts
      <3>5. QED
        BY <1>0, <2>2, <3>1, <3>3, <3>4 DEF Alive
    <2>8. CASE UNCHANGED vars
      <3>1. AfterA = A /\ AfterS = S /\ due' = due /\ faults' = faults /\ Alive
        BY <1>s, <2>8 DEF vars, database, Alive
      <3>2. QED
        BY <2>2, <3>1
    <2>9. ~(Open \/ OpenFails \/ Serve)
      BY <1>2 DEF Open, OpenFails, Serve
    <2>10. QED
      BY <2>3, <2>4, <2>5, <2>6, <2>7, <2>8, <2>9 DEF Next, Internal, Stopped
  <1>3. QED
    BY <1>1, <1>2

\* Whatever faults hit: an APPROVED row stands for a call that was answered 0,
\* and each success without its row has cost a fault.
THEOREM GapIsBounded == Spec => []AuditGap
  <1>1. Init => GInv
    BY DriftInit DEF DInv, GInv, GapInv, Init, AllTables
  <1>2. GInv /\ [Next]_vars => GInv'
    BY TypeStep, ShapeStep, FreshKept, GapStep DEF GInv
  <1>3. GInv => AuditGap
    <2> SUFFICES ASSUME GInv, pc = "idle", tables = AllTables
                 PROVE  /\ Cardinality(Approvals) <= Cardinality(Successes)
                        /\ Cardinality(Successes) <= Cardinality(Approvals) + faults
      BY DEF AuditGap
    <2>1. Cardinality(Successes) \in Nat
      BY GapFacts DEF GInv
    <2>2. QED
      BY <2>1 DEF GInv, GapInv, Alive
  <1>4. QED
    BY <1>1, <1>2, <1>3, PTL DEF Spec

-----------------------------------------------------------------------------
(* Refused calls.                                                          *)

\* Only the statements of a call that was let through change an account or
\* the books.
LEMMA TakenForToken ==
  ASSUME TypeInv, ShapeInv, todo # << >>, Take(Head(todo)),
         balance' # balance \/ booked' # booked
  PROVE  call.token >= MinToken
  <1>1. todo \in Seq(Statements) /\ 1 \in 1..Len(todo) /\ Head(todo) = todo[1]
    BY TailFacts DEF TypeInv, TypeOK
  <1>2. todo[1].op # "create" /\ (todo[1].op = "log" => todo[1].status = "APPROVED")
    BY <1>1 DEF Take
  <1>3. pc \notin {"boot", "schema", "idle", "halted", "crashed"}
    BY <1>1, <1>2 DEF ShapeInv
  <1>4. pc # "blocked"
    BY <1>1, <1>2 DEF ShapeInv, LogRow
  <1>5. QED
    BY <1>3, <1>4 DEF ShapeInv, TypeInv, TypeOK

\* Whatever fails: no account moves, nothing is booked and no success is
\* answered for a call whose token is below the threshold.
THEOREM RefusedStay == Spec => RefusedMovesNothing
  <1>1. TypeInv /\ ShapeInv /\ [Next]_vars =>
          [/\ balance' # balance \/ booked' # booked => call.token >= MinToken
           /\ answered' # answered =>
                (answered'[Len(answered')].result = 0 => call.token >= MinToken)]_vars
    <2> SUFFICES ASSUME TypeInv, ShapeInv, Next
                 PROVE  /\ balance' # balance \/ booked' # booked => call.token >= MinToken
                        /\ answered' # answered =>
                             (answered'[Len(answered')].result = 0 => call.token >= MinToken)
      OBVIOUS
    <2>1. CASE Statement \/ StatementFaults
      BY <2>1, TakenForToken DEF Statement, StatementFaults, database
    <2>2. CASE FailBusiness \/ Finish
      <3>1. /\ UNCHANGED <<balance, booked>>
            /\ \E r \in {0, -1} :
                 /\ answered' = Append(answered, [call |-> call, result |-> r])
                 /\ r = 0 => call.token >= MinToken
        BY <2>2 DEF FailBusiness, Finish, Return, database
      <3>2. answered \in Seq([call : Calls, result : {0, -1}])
        BY DEF TypeInv, TypeOK
      <3>3. \A r \in {0, -1} :
              answered' = Append(answered, [call |-> call, result |-> r]) =>
                answered'[Len(answered')].result = r
        BY <3>2
      <3>4. QED
        BY <3>1, <3>3
    <2>3. CASE ~(Statement \/ StatementFaults \/ FailBusiness \/ Finish)
      BY <2>3 DEF Next, Internal, StatementRejected, Open, OpenFails, Serve, StartBusiness,
                  Approve, Begin, Stopped, vars, database
    <2>4. QED
      BY <2>1, <2>2, <2>3
  <1>2. DInv => TypeInv /\ ShapeInv
    BY DEF DInv
  <1>3. QED
    BY <1>1, <1>2, DriftInvariant, PTL DEF Spec, RefusedMovesNothing

-----------------------------------------------------------------------------
(* The two lines that stop the Ledger as it is in the source.              *)

\* No call is let through: every answer is -1, no row is APPROVED, and no
\* account exists.
NoneLetThrough ==
  /\ DOMAIN balance = {}
  /\ \A i \in 1..Len(log) : log[i].status # "APPROVED"
  /\ \A i \in 1..Len(answered) : answered[i].result = -1

\* There is no database; and as long as no fault hits, not even a call.
NothingServed ==
  /\ tables = {} /\ log = << >>
  /\ NoneLetThrough
  /\ faults = 0 => pc \in {"boot", "schema", "crashed"} /\ answered = << >>

\* The schema is the first thing written, and it compiles.  Nothing after it
\* does: the business statements fail, and the call with them.
UnservedInv ==
  /\ NothingServed
  /\ (pc = "schema" /\ faults = 0) => todo = Schema
  /\ (pc = "business" /\ todo = << >>) => rc = "error"
  /\ pc # "approved"

\* With the other name of the column only the schema and the rows of refused
\* calls get written.
LEMMA TakenAnyway ==
  ASSUME TypeInv, ShapeInv, KeyColumn # "user", pc # "approved",
         todo # << >>, Compiles(Head(todo)), Take(Head(todo))
  PROVE  /\ balance' = balance
         /\ \/ log' = log
            \/ log' = Append(log, [call |-> call, status |-> "BLOCKED_INVALID_CAPABILITY"])
  <1>1. todo \in Seq(Statements) /\ 1 \in 1..Len(todo) /\ Head(todo) = todo[1]
    BY TailFacts DEF TypeInv, TypeOK
  <1>2. pc \in {"boot", "schema", "idle", "jit", "business", "blocked", "halted", "crashed"}
    BY DEF TypeInv, TypeOK
  <1>3. CASE pc = "blocked"
    <2>1. todo[1] = LogRow(call, "BLOCKED_INVALID_CAPABILITY")
      BY <1>1, <1>3 DEF ShapeInv
    <2>2. QED
      BY <1>1, <2>1 DEF Take, LogRow
  <1>4. CASE pc # "blocked"
    <2>1. todo[1].op \in {"create", "insert", "add"}
      BY <1>1, <1>2, <1>4 DEF ShapeInv
    <2>2. todo[1].op = "create"
      BY <1>1, <2>1 DEF Compiles
    <2>3. QED
      BY <1>1, <2>2 DEF Take
  <1>5. QED
    BY <1>3, <1>4

\* A call that is refused or fails is answered -1.
LEMMA Refusals ==
  ASSUME TypeInv, ShapeInv, pc # "approved", FailBusiness \/ Finish
  PROVE  answered' = Append(answered, [call |-> call, result |-> -1])
  <1>1. CASE FailBusiness
    BY <1>1 DEF FailBusiness, Return
  <1>2. CASE Finish
    <2>1. pc = "blocked"
      BY <1>2 DEF Finish
    <2>2. call \in Calls /\ call.token < MinToken
      BY <2>1 DEF TypeInv, InCall, ShapeInv
    <2>3. ~(call.token >= MinToken)
      BY <2>2, CallFacts, TokensAssumption
    <2>4. QED
      BY <1>2, <2>3 DEF Finish, Return
  <1>3. QED
    BY <1>1, <1>2

LEMMA NoneLetThroughStep ==
  ASSUME TypeInv, ShapeInv, KeyColumn # "user" \/ (UNCHANGED <<balance, log>>), pc # "approved",
         NoneLetThrough, [Next]_vars
  PROVE  NoneLetThrough'
  <1>1. /\ log \in Seq([call : Calls, status : Statuses])
        /\ answered \in Seq([call : Calls, result : {0, -1}])
    BY DEF TypeInv, TypeOK, Statuses
  <1>2. /\ balance' = balance
        /\ \/ log' = log
           \/ log' = Append(log, [call |-> call, status |-> "BLOCKED_INVALID_CAPABILITY"])
    <2>1. CASE UNCHANGED <<balance, log>>
      BY <2>1
    <2>2. CASE KeyColumn # "user" /\ (Statement \/ StatementFaults)
      BY <2>2, TakenAnyway DEF Statement, StatementFaults, database
    <2>3. CASE ~(Statement \/ StatementFaults)
      BY <2>3 DEF Next, Internal, StatementRejected, Open, OpenFails, Serve, StartBusiness,
                  Approve, FailBusiness, Finish, Return, Begin, Stopped, vars, database
    <2>4. QED
      BY <2>1, <2>2, <2>3
  <1>3. answered' = answered \/ answered' = Append(answered, [call |-> call, result |-> -1])
    <2>1. CASE FailBusiness \/ Finish
      BY <2>1, Refusals
    <2>2. CASE ~(FailBusiness \/ Finish)
      BY <2>2 DEF Next, Internal, Statement, StatementRejected, StatementFaults, Open, OpenFails,
                  Serve, StartBusiness, Approve, Begin, Stopped, vars
    <2>3. QED
      BY <2>1, <2>2
  <1>4. \A i \in 1..Len(log') : log'[i].status # "APPROVED"
    <2>1. CASE log' = log
      BY <2>1 DEF NoneLetThrough
    <2>2. CASE log' = Append(log, [call |-> call, status |-> "BLOCKED_INVALID_CAPABILITY"])
      <3>1. /\ Len(log') = Len(log) + 1 /\ Len(log) \in Nat
            /\ \A i \in 1..Len(log) : log'[i] = log[i]
            /\ log'[Len(log) + 1].status = "BLOCKED_INVALID_CAPABILITY"
        BY <1>1, <2>2
      <3>2. \A i \in 1..(Len(log) + 1) : i \in 1..Len(log) \/ i = Len(log) + 1
        BY <3>1
      <3>3. QED
        BY <3>1, <3>2 DEF NoneLetThrough
    <2>3. QED
      BY <1>2, <2>1, <2>2
  <1>5. \A i \in 1..Len(answered') : answered'[i].result = -1
    <2>1. CASE answered' = answered
      BY <2>1 DEF NoneLetThrough
    <2>2. CASE answered' = Append(answered, [call |-> call, result |-> -1])
      <3>1. /\ Len(answered') = Len(answered) + 1 /\ Len(answered) \in Nat
            /\ \A i \in 1..Len(answered) : answered'[i] = answered[i]
            /\ answered'[Len(answered) + 1].result = -1
        BY <1>1, <2>2
      <3>2. \A i \in 1..(Len(answered) + 1) : i \in 1..Len(answered) \/ i = Len(answered) + 1
        BY <3>1
      <3>3. QED
        BY <3>1, <3>2 DEF NoneLetThrough
    <2>3. QED
      BY <1>3, <2>1, <2>2
  <1>6. QED
    BY <1>2, <1>4, <1>5 DEF NoneLetThrough

LEMMA NoneLetThroughInit == Init => NoneLetThrough
  <1>1. Len(<< >>) = 0 /\ \A i : ~(i \in 1..0)
    OBVIOUS
  <1>2. QED
    BY <1>1 DEF Init, NoneLetThrough

\* With the column name of ledger.c:162 every call is answered -1, authorised
\* or not, whatever statements are rejected and whatever fails.
THEOREM ColumnRefusesAll ==
  ASSUME KeyColumn = "username"
  PROVE  Spec => []NoneLetThrough
  <1>1. DInv /\ NoneLetThrough /\ [Next]_vars => NoneLetThrough'
    BY NoneLetThroughStep DEF DInv, ListInv
  <1>2. QED
    BY <1>1, NoneLetThroughInit, DriftInvariant, PTL DEF Spec

\* Without the method nothing is written, and no statement gets past a crash,
\* a fault or a rejection.
LEMMA NothingWrittenWithout ==
  ASSUME TypeInv, ~HasRandomness, tables = {}, [Next]_vars
  PROVE  tables' = {} /\ UNCHANGED <<balance, log>>
  BY DEF Next, Internal, Statement, StatementRejected, StatementFaults, Open, OpenFails, Serve,
         StartBusiness, Approve, FailBusiness, Finish, Return, Begin, Stopped, vars, database

LEMMA UnservedStep ==
  ASSUME TypeInv, ShapeInv, ~HasRandomness, UnservedInv, [Next]_vars
  PROVE  UnservedInv'
  <1>1. tables' = {} /\ balance' = balance /\ log' = log
    BY NothingWrittenWithout DEF UnservedInv, NothingServed
  <1>2. NoneLetThrough'
    BY <1>1, NoneLetThroughStep DEF UnservedInv, NothingServed
  <1>3. faults \in Nat
    BY BoundAssumption DEF TypeInv, TypeOK
  <1>4. CASE Statement
    <2>1. pc' = "crashed" /\ UNCHANGED <<faults, answered>>
      BY <1>4 DEF Statement
    <2>2. QED
      BY <1>1, <1>2, <2>1 DEF UnservedInv, NothingServed
  <1>5. CASE StatementRejected
    <2>1. /\ pc' = pc /\ todo' = << >> /\ rc' = "error" /\ faults' = faults
          /\ answered' = answered
      BY <1>5 DEF StatementRejected
    <2>2. pc = "schema" => faults # 0
      <3>1. Schema[1].op = "create" /\ Head(Schema) = Schema[1]
        BY DEF Schema, CreateTable
      <3>2. Compiles(Head(Schema))
        BY <3>1 DEF Compiles
      <3>3. QED
        BY <1>5, <3>2 DEF StatementRejected, UnservedInv
    <2>3. QED
      BY <1>1, <1>2, <2>1, <2>2 DEF UnservedInv, NothingServed
  <1>6. CASE StatementFaults \/ OpenFails
    <2>1. /\ faults' = faults + 1 /\ pc' # "approved"
          /\ pc' = "business" => rc' = "error"
      BY <1>6 DEF StatementFaults, OpenFails, UnservedInv
    <2>2. QED
      BY <1>1, <1>2, <1>3, <2>1 DEF UnservedInv, NothingServed
  <1>7. CASE Open
    BY <1>1, <1>2, <1>7 DEF Open, UnservedInv, NothingServed
  <1>8. CASE Serve
    <2>1. faults # 0
      <3>1. Schema # << >>
        BY DEF Schema
      <3>2. QED
        BY <1>8, <3>1 DEF Serve, UnservedInv
    <2>2. QED
      BY <1>1, <1>2, <1>8, <2>1 DEF Serve, UnservedInv, NothingServed
  <1>9. CASE StartBusiness
    <2>1. call \in Calls /\ faults # 0
      BY <1>9 DEF StartBusiness, TypeInv, InCall, UnservedInv, NothingServed
    <2>2. Business(call) # << >>
      <3>1. ASSUME NEW c \in Calls PROVE Business(c) # << >>
        <4>1. Business(c) \in Seq(Statements) /\ (Len(Business(c)) = 1 \/ Len(Business(c)) = 2)
          BY ListsTyped
        <4>2. QED
          BY <4>1, RestFacts
      <3>2. QED
        BY <2>1, <3>1
    <2>3. QED
      BY <1>1, <1>2, <1>9, <2>1, <2>2 DEF StartBusiness, UnservedInv, NothingServed
  <1>10. CASE Approve
    BY <1>10 DEF Approve, UnservedInv
  <1>11. CASE FailBusiness \/ Finish \/ \E c \in Calls : Begin(c)
    <2>1. /\ pc \in {"business", "blocked", "approved", "idle"} /\ faults' = faults
          /\ pc' \in {"idle", "blocked", "jit"}
      BY <1>11 DEF FailBusiness, Finish, Return, Begin
    <2>2. QED
      BY <1>1, <1>2, <2>1 DEF UnservedInv, NothingServed
  <1>12. CASE UNCHANGED vars
    BY <1>1, <1>2, <1>12 DEF vars, UnservedInv, NothingServed
  <1>13. QED
    BY <1>4, <1>5, <1>6, <1>7, <1>8, <1>9, <1>10, <1>11, <1>12 DEF Next, Internal, Stopped

\* Without the method that ledger.c:105 leaves out there never is a database,
\* and without a fault pre_init does not come to its end.
THEOREM NothingWithoutRandomness ==
  ASSUME ~HasRandomness
  PROVE  Spec => []NothingServed
  <1>1. Init => UnservedInv
    BY NoneLetThroughInit DEF Init, UnservedInv, NothingServed
  <1>2. DInv /\ UnservedInv /\ [Next]_vars => UnservedInv'
    BY UnservedStep DEF DInv
  <1>3. UnservedInv => NothingServed
    BY DEF UnservedInv
  <1>4. QED
    BY <1>1, <1>2, <1>3, DriftInvariant, PTL DEF Spec

=============================================================================
