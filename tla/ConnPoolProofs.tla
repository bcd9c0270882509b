--------------------------- MODULE ConnPoolProofs ---------------------------
(***************************************************************************)
(* Requests of authMicro never wait for connections only, for any number of *)
(* requests, rows and connections.                                          *)
(*                                                                         *)
(* Who holds a connection or a row is a running statement or an open        *)
(* transaction.  Suppose that nobody can go on.  A call of userMicro locks  *)
(* nothing, so it ends: its pool is not what anybody waits for.  A request  *)
(* with a connection of the other pool does not ask for a second one, so it *)
(* waits for a row, and so does the owner of that row, and so on; there are *)
(* finitely many requests, and some of them wait for each other in a cycle. *)
(***************************************************************************)
EXTENDS ConnPool, FiniteSetTheorems, TLAPS

(* The inductive invariant                                                  *)

TInv ==
  /\ kind \in [Requests -> DOMAIN Programs]
  /\ at \in [Requests -> Nat \ {0}]
  /\ stage \in [Requests -> {"ready", "running"}]
  /\ needs \in [Requests -> Seq(Rows)]
  /\ tx \in [Requests -> {"none", "open", "aborted"}]
  /\ owner \in [Rows -> Requests \cup {Nobody}]
  /\ \A c \in conns : /\ c = [request |-> c.request, statement |-> c.statement]
                     /\ c.request \in Requests

StatementsRun ==
  \A r \in Requests :
    stage[r] = "running" => ~Finished(r) /\ Step(r) \notin {"begin", "commit"}

TransactionsAreExecutes ==
  \A r \in Requests :
    tx[r] # "none" => Program(r) = Execute /\ at[r] > 1 /\ ~Finished(r)

OnlyStatementsLock ==
  \A r \in Requests :
    needs[r] # <<>> => stage[r] = "running" /\ PoolOf(Step(r)) = "auth"

OwnersAreActive ==
  \A row \in Rows : owner[row] # Nobody =>
    LET r == owner[row]
    IN \/ tx[r] = "open"
       \/ stage[r] = "running" /\ PoolOf(Step(r)) = "auth"

ConnectionsAreUsed ==
  \A c \in conns :
    LET r == c.request
    IN \/ stage[r] = "running" /\ c.statement = Step(r)
       \/ tx[r] # "none" /\ c.statement = "begin"

IInv ==
  /\ TInv
  /\ StatementsRun
  /\ TransactionsAreExecutes
  /\ OnlyStatementsLock
  /\ OwnersAreActive
  /\ ConnectionsAreUsed

-----------------------------------------------------------------------------
(* The programs, and what their steps lock                                  *)

(* Only a confirmation of a login opens a transaction, as its first step,   *)
(* and its last step ends it.                                               *)
LEMMA BeginAndCommit ==
  /\ \A k \in DOMAIN Programs :
       /\ Len(Programs[k]) \in Nat
       /\ \A i \in 1 .. Len(Programs[k]) :
            Programs[k][i] = "begin" => Programs[k] = Execute /\ i = 1
  /\ Len(Execute) = 8 /\ Execute[8] = "commit"
  /\ \A i \in 2 .. 8 : Execute[i] # "begin"
<1>1. DOMAIN Programs = 1 .. 6
  BY DEF Programs
<1>2. /\ Programs[1] = Register /\ Programs[2] = ConfirmRegistration
      /\ Programs[3] = Login /\ Programs[4] = Execute
      /\ Programs[5] = RefreshTokens /\ Programs[6] = RefreshExpired
  BY DEF Programs
<1>3. /\ Len(Register) = 4
      /\ \A i \in 1 .. 4 : Register[i] # "begin"
  BY DEF Register
<1>4. /\ Len(ConfirmRegistration) = 3
      /\ \A i \in 1 .. 3 : ConfirmRegistration[i] # "begin"
  BY DEF ConfirmRegistration
<1>5. /\ Len(Login) = 4
      /\ \A i \in 1 .. 4 : Login[i] # "begin"
  BY DEF Login
<1>6. /\ Len(Execute) = 8 /\ Execute[8] = "commit"
      /\ \A i \in 2 .. 8 : Execute[i] # "begin"
  BY DEF Execute
<1>7. /\ Len(RefreshTokens) = 5
      /\ \A i \in 1 .. 5 : RefreshTokens[i] # "begin"
  BY DEF RefreshTokens
<1>8. /\ Len(RefreshExpired) = 2
      /\ \A i \in 1 .. 2 : RefreshExpired[i] # "begin"
  BY DEF RefreshExpired
<1>9. ASSUME NEW k \in DOMAIN Programs
      PROVE  /\ Len(Programs[k]) \in Nat
             /\ \A i \in 1 .. Len(Programs[k]) :
                  Programs[k][i] = "begin" => Programs[k] = Execute /\ i = 1
  <2>1. k \in {1, 2, 3, 4, 5, 6}
    BY <1>1
  <2>2. CASE k = 4
    BY <2>2, <1>2, <1>6
  <2>3. CASE k # 4
    BY <2>1, <2>3, <1>2, <1>3, <1>4, <1>5, <1>7, <1>8
  <2> QED  BY <2>2, <2>3
<1> QED  BY <1>6, <1>9

(* A clean-up locks rows of its table, each of them once.                   *)
LEMMA OrdersAreOfRows ==
  ASSUME NEW rows \in SUBSET Rows, NEW order \in InAnyOrder(rows)
  PROVE  order \in Seq(Rows)
<1>1. PICK s \in SUBSET rows : order \in SetToSeqs(s)
  BY DEF InAnyOrder, SetToAllKPermutations
<1>2. Cardinality(s) \in Nat
  BY TablesAreFinite, FS_Subset, FS_CardinalityType
<1>3. order \in [1 .. Cardinality(s) -> Rows]
  BY <1>1 DEF SetToSeqs
<1> QED  BY <1>2, <1>3

(* A statement locks rows, and a call of userMicro none.                    *)
LEMMA LocksAreRows ==
  ASSUME NEW step
  PROVE  /\ Locks(step) \subseteq Seq(Rows)
         /\ PoolOf(step) = "user" => Locks(step) = {<<>>}
<1> DEFINE Tables == {RegistrationRows, LoginRows, TokenRows}
<1>1. \A table \in Tables : table \subseteq Rows
  BY DEF Rows
<1>2. \A table \in Tables : InAnyOrder(table) \subseteq Seq(Rows)
  BY <1>1, OrdersAreOfRows
<1>3. <<>> \in Seq(Rows) /\ \A row \in Rows : <<row>> \in Seq(Rows)
  OBVIOUS
<1>4. \A table \in Tables : AtMostOne(table) \subseteq Seq(Rows)
  BY <1>1, <1>3 DEF AtMostOne
<1>5. Locks(step) \in {InAnyOrder(table) : table \in Tables}
                     \cup {AtMostOne(table) : table \in Tables} \cup {{<<>>}}
  BY DEF Locks
<1>6. Locks(step) \subseteq Seq(Rows)
  <2> HIDE DEF Tables
  <2> QED  BY <1>2, <1>3, <1>4, <1>5
<1>7. PoolOf(step) = "user" => Locks(step) = {<<>>}
  BY DEF PoolOf, Locks
<1> QED  BY <1>6, <1>7

(* A step that is due is a step of the program.                             *)
LEMMA DueStep ==
  ASSUME TInv, NEW r \in Requests, ~Finished(r)
  PROVE  /\ at[r] \in 1 .. Len(Program(r))
         /\ Step(r) = "begin" => Program(r) = Execute /\ at[r] = 1
<1>1. kind[r] \in DOMAIN Programs /\ at[r] \in Nat /\ at[r] > 0
  BY DEF TInv
<1>2. Len(Program(r)) \in Nat
  BY <1>1, BeginAndCommit DEF Program
<1>3. at[r] \in 1 .. Len(Program(r))
  BY <1>1, <1>2 DEF Finished
<1> QED  BY <1>1, <1>2, <1>3, BeginAndCommit DEF Program, Step

-----------------------------------------------------------------------------
(* The invariant holds                                                      *)

LEMMA InitHolds == Init => IInv
<1> SUFFICES ASSUME Init PROVE IInv
  OBVIOUS
<1>1. TInv
  BY DEF Init, TInv
<1> QED
  BY <1>1, NobodyIsNoRequest
     DEF Init, IInv, StatementsRun, TransactionsAreExecutes, OnlyStatementsLock,
         OwnersAreActive, ConnectionsAreUsed

(* What a step of r leaves of the others.                                   *)
LEMMA OthersStay ==
  ASSUME TInv, NEW r \in Requests, UNCHANGED kind,
         NEW i, at' = [at EXCEPT ![r] = i],
         NEW q \in Requests, q # r
  PROVE  /\ Program(q)' = Program(q) /\ Step(q)' = Step(q)
         /\ Finished(q)' = Finished(q)
  BY DEF TInv, Program, Step, Finished

(* What ends lets go of whatever it held.                                   *)
LEMMA EndsKeeps ==
  ASSUME IInv, NEW r \in Requests, Ends(r)
  PROVE  IInv'
<1>1. TInv'
  <2>1. Len(Program(r)) + 1 \in Nat \ {0}
    BY BeginAndCommit DEF IInv, TInv, Program
  <2>2. owner' \in [Rows -> Requests \cup {Nobody}]
    BY DEF Ends, Unlocked, IInv, TInv
  <2>3. <<>> \in Seq(Rows)
    OBVIOUS
  <2> QED  BY <2>1, <2>2, <2>3 DEF Ends, IInv, TInv
<1>2. \A q \in Requests :
        q # r => /\ Program(q)' = Program(q) /\ Step(q)' = Step(q)
                 /\ Finished(q)' = Finished(q)
                 /\ at'[q] = at[q] /\ stage'[q] = stage[q]
                 /\ needs'[q] = needs[q] /\ tx'[q] = tx[q]
  BY OthersStay DEF Ends, IInv, TInv
<1>3. stage'[r] = "ready" /\ needs'[r] = <<>> /\ tx'[r] = "none"
  BY DEF Ends, IInv, TInv
<1>4. StatementsRun'
  BY <1>2, <1>3 DEF IInv, StatementsRun
<1>5. TransactionsAreExecutes'
  BY <1>2, <1>3 DEF IInv, TransactionsAreExecutes
<1>6. OnlyStatementsLock'
  BY <1>2, <1>3 DEF IInv, OnlyStatementsLock
<1>7. OwnersAreActive'
  BY <1>2, NobodyIsNoRequest DEF Ends, Unlocked, IInv, TInv, OwnersAreActive
<1>8. ConnectionsAreUsed'
  BY <1>2 DEF Ends, IInv, TInv, ConnectionsAreUsed
<1> QED  BY <1>1, <1>4, <1>5, <1>6, <1>7, <1>8 DEF IInv

(* BEGIN takes the connection that the transaction keeps.                   *)
LEMMA BeginKeeps ==
  ASSUME IInv, NEW r \in Requests, Begin(r)
  PROVE  IInv'
<1>1. TInv'
  BY DEF Begin, Connection, IInv, TInv
<1>2. \A q \in Requests :
        q # r => /\ Program(q)' = Program(q) /\ Step(q)' = Step(q)
                 /\ Finished(q)' = Finished(q)
                 /\ at'[q] = at[q] /\ tx'[q] = tx[q]
  BY OthersStay DEF Begin, IInv, TInv
<1>3. Program(r)' = Program(r) /\ at'[r] = at[r] + 1 /\ tx'[r] = "open"
  BY DEF Begin, IInv, TInv, Program
<1>4. Program(r) = Execute /\ at[r] = 1
  BY DueStep DEF Begin, IInv
<1>5. stage[r] = "ready" /\ needs[r] = <<>> /\ tx[r] = "none"
  BY <1>4 DEF Begin, IInv, TInv, StatementsRun, TransactionsAreExecutes,
              OnlyStatementsLock
<1>6. StatementsRun'
  BY <1>2, <1>5 DEF Begin, IInv, StatementsRun
<1>7. TransactionsAreExecutes'
  <2>1. at'[r] = 2 /\ ~Finished(r)'
    BY <1>3, <1>4, BeginAndCommit DEF Finished
  <2> QED  BY <2>1, <1>2, <1>3, <1>4 DEF IInv, TransactionsAreExecutes
<1>8. OnlyStatementsLock'
  BY <1>2, <1>5 DEF Begin, IInv, OnlyStatementsLock
<1>9. OwnersAreActive'
  BY <1>2, <1>3, <1>5 DEF Begin, IInv, TInv, OwnersAreActive
<1>10. ConnectionsAreUsed'
  BY <1>2, <1>3, <1>5 DEF Begin, Connection, IInv, TInv, ConnectionsAreUsed
<1> QED  BY <1>1, <1>6, <1>7, <1>8, <1>9, <1>10 DEF IInv

(* A statement starts with a connection of its own, or in its transaction.  *)
LEMMA StartKeeps ==
  ASSUME IInv, NEW r \in Requests, Start(r)
  PROVE  IInv'
<1>1. PICK rows \in IF tx[r] = "aborted" THEN {<<>>} ELSE Locks(Step(r)) :
        needs' = [needs EXCEPT ![r] = rows]
  BY DEF Start
<1>2. rows \in Seq(Rows) /\ (PoolOf(Step(r)) = "user" => rows = <<>>)
  <2>1. /\ Locks(Step(r)) \subseteq Seq(Rows)
        /\ PoolOf(Step(r)) = "user" => Locks(Step(r)) = {<<>>}
    BY LocksAreRows
  <2>2. <<>> \in Seq(Rows)
    OBVIOUS
  <2> QED  BY <2>1, <2>2
<1>3. TInv'
  BY <1>1, <1>2 DEF Start, Connection, IInv, TInv
<1>4. \A q \in Requests : /\ Program(q)' = Program(q) /\ Step(q)' = Step(q)
                          /\ Finished(q)' = Finished(q)
                          /\ q # r => /\ stage'[q] = stage[q]
                                      /\ needs'[q] = needs[q]
  BY <1>1 DEF Start, IInv, TInv, Program, Step, Finished
<1>5. stage[r] = "ready" /\ stage'[r] = "running" /\ needs'[r] = rows
  BY <1>1, <1>2 DEF Start, IInv, TInv
<1>6. StatementsRun'
  BY <1>4, <1>5 DEF Start, IInv, StatementsRun
<1>7. TransactionsAreExecutes'
  BY <1>4 DEF Start, IInv, TransactionsAreExecutes
<1>8. OnlyStatementsLock'
  BY <1>2, <1>4, <1>5 DEF PoolOf, IInv, OnlyStatementsLock
<1>9. OwnersAreActive'
  <2> SUFFICES ASSUME NEW row \in Rows, owner[row] # Nobody
               PROVE  \/ tx[owner[row]] = "open"
                      \/ /\ stage'[owner[row]] = "running"
                         /\ PoolOf(Step(owner[row])) = "auth"
    BY <1>4 DEF Start, IInv, TInv, OwnersAreActive
  <2> QED  BY <1>4, <1>5 DEF IInv, TInv, OwnersAreActive
<1>10. ConnectionsAreUsed'
  <2>1. \A c \in conns' : c \in conns \/ c = Connection(r)
    BY DEF Start
  <2>2. \A c \in conns : c.request \in Requests
    BY DEF IInv, TInv
  <2> QED
    BY <2>1, <2>2, <1>4, <1>5 DEF Start, Connection, IInv, ConnectionsAreUsed
<1> QED  BY <1>3, <1>6, <1>7, <1>8, <1>9, <1>10 DEF IInv

(* Only a statement on the tables of authMicro comes across rows to lock.   *)
LEMMA LockRowKeeps ==
  ASSUME IInv, NEW r \in Requests, LockRow(r)
  PROVE  IInv'
<1>1. /\ needs[r] \in Seq(Rows) /\ needs[r] # <<>>
      /\ stage[r] = "running" /\ PoolOf(Step(r)) = "auth"
  BY DEF LockRow, Running, IInv, TInv, OnlyStatementsLock
<1>2. Head(needs[r]) \in Rows /\ Tail(needs[r]) \in Seq(Rows)
  BY <1>1
<1>3. TInv'
  BY <1>2 DEF LockRow, IInv, TInv
<1>4. \A q \in Requests : /\ Program(q)' = Program(q) /\ Step(q)' = Step(q)
                          /\ Finished(q)' = Finished(q)
                          /\ q # r => needs'[q] = needs[q]
  BY DEF LockRow, IInv, TInv, Program, Step, Finished
<1>5. StatementsRun'
  BY <1>4 DEF LockRow, IInv, StatementsRun
<1>6. TransactionsAreExecutes'
  BY <1>4 DEF LockRow, IInv, TransactionsAreExecutes
<1>7. OnlyStatementsLock'
  BY <1>1, <1>4 DEF LockRow, IInv, OnlyStatementsLock
<1>8. OwnersAreActive'
  <2> SUFFICES ASSUME NEW row \in Rows, owner'[row] # Nobody
               PROVE  \/ tx[owner'[row]] = "open"
                      \/ /\ stage[owner'[row]] = "running"
                         /\ PoolOf(Step(owner'[row])) = "auth"
    BY <1>3, <1>4 DEF LockRow, TInv, OwnersAreActive
  <2>1. CASE row = Head(needs[r])
    BY <2>1, <1>1 DEF LockRow, IInv, TInv
  <2>2. CASE row # Head(needs[r])
    BY <2>2 DEF LockRow, IInv, TInv, OwnersAreActive
  <2> QED  BY <2>1, <2>2
<1>9. ConnectionsAreUsed'
  BY <1>4 DEF LockRow, IInv, TInv, ConnectionsAreUsed
<1> QED  BY <1>3, <1>5, <1>6, <1>7, <1>8, <1>9 DEF IInv

(* A statement that is over gives its connection back; its locks stay only  *)
(* with a transaction that is open, or were none.                           *)
LEMMA OverKeeps ==
  ASSUME IInv, NEW r \in Requests, Running(r), StatementIsOver(r), UNCHANGED kind,
         \/ tx' = tx
         \/ tx[r] # "none" /\ tx' = [tx EXCEPT ![r] = "aborted"],
         \/ owner' = Unlocked(r)
         \/ /\ owner' = owner /\ tx' = tx
            /\ tx[r] = "open" \/ PoolOf(Step(r)) = "user"
  PROVE  IInv'
<1>1. TInv'
  <2>1. owner' \in [Rows -> Requests \cup {Nobody}]
    BY DEF Unlocked, IInv, TInv
  <2>2. tx' \in [Requests -> {"none", "open", "aborted"}]
    BY DEF IInv, TInv
  <2>3. \A c \in conns' : c \in conns
    BY DEF StatementIsOver
  <2>4. \A c \in conns' : /\ c = [request |-> c.request, statement |-> c.statement]
                         /\ c.request \in Requests
    BY <2>3 DEF IInv, TInv
  <2>5. <<>> \in Seq(Rows)
    OBVIOUS
  <2>6. /\ kind' \in [Requests -> DOMAIN Programs]
        /\ at' \in [Requests -> Nat \ {0}]
        /\ stage' \in [Requests -> {"ready", "running"}]
        /\ needs' \in [Requests -> Seq(Rows)]
    BY <2>5 DEF StatementIsOver, IInv, TInv
  <2> QED  BY <2>1, <2>2, <2>4, <2>6 DEF TInv
<1>2. \A q \in Requests :
        q # r => /\ Program(q)' = Program(q) /\ Step(q)' = Step(q)
                 /\ Finished(q)' = Finished(q)
                 /\ at'[q] = at[q] /\ stage'[q] = stage[q]
                 /\ needs'[q] = needs[q] /\ tx'[q] = tx[q]
  BY OthersStay DEF StatementIsOver, IInv, TInv
<1>3. /\ stage'[r] = "ready" /\ needs'[r] = <<>> /\ at'[r] = at[r] + 1
      /\ Program(r)' = Program(r) /\ (tx'[r] # "none" <=> tx[r] # "none")
  BY DEF StatementIsOver, IInv, TInv, Program
<1>4. StatementsRun'
  BY <1>2, <1>3 DEF IInv, StatementsRun
<1>5. TransactionsAreExecutes'
  <2>1. ASSUME tx[r] # "none"
        PROVE  /\ Program(r)' = Execute /\ at'[r] > 1 /\ ~Finished(r)'
    <3>1. Program(r) = Execute /\ at[r] > 1 /\ at[r] \in 1 .. 8
      BY <2>1, DueStep, BeginAndCommit DEF Running, IInv, TransactionsAreExecutes
    <3>2. Execute[at[r]] # "commit"
      BY <3>1 DEF Running, Step, IInv, StatementsRun
    <3>3. at[r] # 8
      BY <3>1, <3>2, BeginAndCommit
    <3> QED  BY <3>1, <3>3, <1>3, BeginAndCommit DEF Finished
  <2> QED  BY <2>1, <1>2, <1>3 DEF IInv, TransactionsAreExecutes
<1>6. OnlyStatementsLock'
  BY <1>2, <1>3 DEF IInv, OnlyStatementsLock
<1>7. OwnersAreActive'
  <2>1. ASSUME NEW row \in Rows, owner'[row] # Nobody
        PROVE  /\ owner'[row] = owner[row]
               /\ owner[row] = r => tx'[r] = "open"
    <3>1. CASE owner' = Unlocked(r)
      BY <3>1, <2>1 DEF Unlocked, IInv, TInv
    <3>2. CASE /\ owner' = owner /\ tx' = tx
               /\ tx[r] = "open" \/ PoolOf(Step(r)) = "user"
      BY <3>2, <2>1 DEF IInv, OwnersAreActive
    <3> QED  BY <3>1, <3>2
  <2>2. \A row \in Rows : owner[row] \in Requests \cup {Nobody}
    BY DEF IInv, TInv
  <2> QED  BY <2>1, <2>2, <1>2 DEF IInv, OwnersAreActive
<1>8. ConnectionsAreUsed'
  <2> SUFFICES ASSUME NEW c \in conns'
               PROVE  LET q == c.request
                      IN \/ stage'[q] = "running" /\ c.statement = Step(q)'
                         \/ tx'[q] # "none" /\ c.statement = "begin"
    BY DEF ConnectionsAreUsed
  <2>1. /\ c \in conns /\ c # Connection(r) /\ c.request \in Requests
        /\ c = [request |-> c.request, statement |-> c.statement]
    BY DEF StatementIsOver, GivenBack, IInv, TInv
  <2>2. CASE c.request # r
    BY <2>1, <2>2, <1>2 DEF IInv, ConnectionsAreUsed
  <2>3. CASE c.request = r
    <3>1. c.statement # Step(r)
      BY <2>1, <2>3 DEF Connection
    <3>2. tx[r] # "none" /\ c.statement = "begin"
      BY <2>1, <2>3, <3>1 DEF IInv, ConnectionsAreUsed
    <3> QED  BY <3>2, <2>3, <1>3
  <2> QED  BY <2>2, <2>3
<1> QED  BY <1>1, <1>4, <1>5, <1>6, <1>7, <1>8 DEF IInv

(* A request that fails ends, or only its statement does.                   *)
LEMMA FailsKeeps ==
  ASSUME IInv, NEW r \in Requests, StatementFails(r)
  PROVE  IInv'
<1>1. CASE ~ErrorIsDropped(Step(r))
  BY <1>1, EndsKeeps DEF StatementFails
<1>2. CASE ErrorIsDropped(Step(r))
  <2>1. Running(r) /\ StatementIsOver(r) /\ UNCHANGED kind
    BY <1>2 DEF StatementFails
  <2>2. CASE tx[r] = "none"
    BY <1>2, <2>1, <2>2, OverKeeps DEF StatementFails
  <2>3. CASE tx[r] # "none" /\ PoolOf(Step(r)) = "auth"
    BY <1>2, <2>1, <2>3, OverKeeps DEF StatementFails
  <2>4. CASE tx[r] # "none" /\ PoolOf(Step(r)) # "auth"
    <3>1. PoolOf(Step(r)) = "user"
      BY <2>4 DEF PoolOf
    <3> QED  BY <1>2, <2>1, <2>4, <3>1, OverKeeps DEF StatementFails
  <2> QED  BY <2>2, <2>3, <2>4
<1> QED  BY <1>1, <1>2

(* A statement that succeeds keeps its locks only in an open transaction.   *)
LEMMA StatementEndsKeeps ==
  ASSUME IInv, NEW r \in Requests, StatementEnds(r)
  PROVE  IInv'
<1>1. Running(r) /\ StatementIsOver(r) /\ UNCHANGED kind /\ tx' = tx
  BY DEF StatementEnds
<1>2. CASE tx[r] = "none"
  BY <1>1, <1>2, OverKeeps DEF StatementEnds
<1>3. CASE tx[r] # "none"
  <2>1. tx[r] = "open" \/ PoolOf(Step(r)) = "user"
    BY <1>3 DEF StatementEnds, IInv, TInv
  <2> QED  BY <1>1, <1>3, <2>1, OverKeeps DEF StatementEnds
<1> QED  BY <1>2, <1>3

(* Every step of a request keeps it, and so does stopping.                  *)
LEMMA NextKeeps == IInv /\ [Next]_vars => IInv'
<1> SUFFICES ASSUME IInv, [Next]_vars PROVE IInv'
  OBVIOUS
<1>1. ASSUME NEW r \in Requests, Begin(r) PROVE IInv'
  BY <1>1, BeginKeeps
<1>2. ASSUME NEW r \in Requests, Start(r) PROVE IInv'
  BY <1>2, StartKeeps
<1>3. ASSUME NEW r \in Requests, LockRow(r) PROVE IInv'
  BY <1>3, LockRowKeeps
<1>4. ASSUME NEW r \in Requests, StatementEnds(r) PROVE IInv'
  BY <1>4, StatementEndsKeeps
<1>5. ASSUME NEW r \in Requests, StatementFails(r) PROVE IInv'
  BY <1>5, FailsKeeps
<1>6. ASSUME NEW r \in Requests, Commit(r) \/ Refused(r) PROVE IInv'
  BY <1>6, EndsKeeps DEF Commit, Refused
<1>7. CASE UNCHANGED vars
  BY <1>7 DEF vars, IInv, TInv, StatementsRun, TransactionsAreExecutes,
     OnlyStatementsLock, OwnersAreActive, ConnectionsAreUsed, Finished, Step, Program
<1> QED
  BY <1>1, <1>2, <1>3, <1>4, <1>5, <1>6, <1>7 DEF Next, Terminating

(* The invariant holds in every state.                                      *)
LEMMA Invariance == Spec => []IInv
<1> QED  BY InitHolds, NextKeeps, PTL DEF Spec

-----------------------------------------------------------------------------
(* When nobody can go on                                                    *)

(* A pool of which nothing is free has been used.                           *)
LEMMA SomebodyHoldsOne ==
  ASSUME NEW pool, InUse(pool) >= Available
  PROVE  \E c \in conns : PoolOf(c.statement) = pool
<1> DEFINE Held == {c \in conns : PoolOf(c.statement) = pool}
<1>1. Cardinality(Held) # 0
  BY RequestsHaveAConnection DEF InUse, Available
<1>2. Held # {}
  BY <1>1, FS_EmptySet
<1> QED  BY <1>2

(* Nobody waits for a connection of userMicro, because its calls end.       *)
LEMMA CallsAreServed ==
  ASSUME IInv,
         \A r \in Requests : Finished(r) \/ WaitsForConnection(r) \/ WaitsForRow(r),
         NEW r \in Requests, WaitsForConnection(r)
  PROVE  PoolOf(Step(r)) = "auth"
<1> SUFFICES ASSUME PoolOf(Step(r)) = "user" PROVE FALSE
  BY DEF PoolOf
<1>1. PICK c \in conns : PoolOf(c.statement) = "user"
  BY SomebodyHoldsOne DEF WaitsForConnection
<1> DEFINE q == c.request
<1>2. q \in Requests
  BY DEF IInv, TInv
<1>3. c.statement # "begin"
  BY <1>1 DEF PoolOf
<1>4. stage[q] = "running" /\ PoolOf(Step(q)) = "user"
  BY <1>1, <1>3 DEF IInv, ConnectionsAreUsed
<1>5. needs[q] = <<>>
  BY <1>2, <1>4 DEF IInv, OnlyStatementsLock
<1> QED
  BY <1>2, <1>4, <1>5 DEF IInv, StatementsRun, WaitsForConnection, WaitsForRow

(* Who holds something that others may wait for waits for a row.            *)
LEMMA HoldersWaitForRows ==
  ASSUME IInv,
         \A r \in Requests : Finished(r) \/ WaitsForConnection(r) \/ WaitsForRow(r),
         NEW q \in Requests, tx[q] # "none" \/ stage[q] = "running"
  PROVE  WaitsForRow(q)
<1>1. ~Finished(q)
  BY DEF IInv, StatementsRun, TransactionsAreExecutes
<1> SUFFICES ASSUME WaitsForConnection(q) PROVE FALSE
  BY <1>1
<1>2. PoolOf(Step(q)) = "auth"
  BY CallsAreServed
<1>3. tx[q] # "none"
  BY DEF WaitsForConnection
<1>4. Step(q) # "begin"
  BY <1>1, <1>3, DueStep DEF IInv, TransactionsAreExecutes
<1> QED  BY <1>2, <1>3, <1>4 DEF WaitsForConnection, NeedsConnection

(* Of a finite set whose members have a successor in it, some are the       *)
(* successors of each other: the fewest that have theirs among themselves.  *)
LEMMA CycleInFiniteSet ==
  ASSUME NEW S, IsFiniteSet(S), S # {},
         NEW next, \A q \in S : next[q] \in S
  PROVE  \E cycle \in SUBSET S : cycle # {} /\ {next[q] : q \in cycle} = cycle
<1> DEFINE Closed == {C \in SUBSET S : C # {} /\ \A q \in C : next[q] \in C}
<1>1. S \in Closed
  OBVIOUS
<1>2. Closed \subseteq FiniteSubsetsOf(S)
  BY FS_FiniteSubsetsOfFinite
<1>3. IsWellFoundedOn(StrictSubsetOrdering(S), FiniteSubsetsOf(S))
  BY FS_StrictSubsetOrderingWellFounded
<1>4. \E C \in Closed : \A D \in Closed : <<D, C>> \notin StrictSubsetOrdering(S)
  <2> HIDE DEF Closed
  <2> QED  BY <1>1, <1>2, <1>3, WFMin
<1>5. PICK C \in Closed : \A D \in Closed : ~(D \subseteq C /\ D # C)
  BY <1>4 DEF StrictSubsetOrdering
<1>6. {next[q] : q \in C} \in Closed
  OBVIOUS
<1>7. {next[q] : q \in C} \subseteq C
  OBVIOUS
<1> QED  BY <1>5, <1>6, <1>7

(* When everybody waits, those who wait for rows wait for each other.       *)
LEMMA NobodyWaitsInVainHolds == IInv => NobodyWaitsInVain
<1> SUFFICES
      ASSUME IInv,
             \A r \in Requests : Finished(r) \/ WaitsForConnection(r) \/ WaitsForRow(r),
             NEW s \in Requests, ~Finished(s)
      PROVE  \E r \in Requests : OnCycle(r)
  BY DEF NobodyWaitsInVain
<1> DEFINE Waiting == {q \in Requests : WaitsForRow(q)}
           blocker == [q \in Waiting |-> owner[Head(needs[q])]]
<1>1. Waiting # {}
  <2>1. CASE WaitsForRow(s)
    BY <2>1
  <2>2. CASE WaitsForConnection(s)
    <3>1. PICK c \in conns : PoolOf(c.statement) = "auth"
      BY <2>2, CallsAreServed, SomebodyHoldsOne DEF WaitsForConnection
    <3>2. /\ c.request \in Requests
          /\ tx[c.request] # "none" \/ stage[c.request] = "running"
      BY DEF IInv, TInv, ConnectionsAreUsed
    <3> QED  BY <3>2, HoldersWaitForRows
  <2> QED  BY <2>1, <2>2
<1>2. \A q \in Waiting : blocker[q] \in Waiting
  <2> SUFFICES ASSUME NEW q \in Waiting PROVE owner[Head(needs[q])] \in Waiting
    OBVIOUS
  <2>1. needs[q] \in Seq(Rows) /\ needs[q] # <<>>
    BY DEF WaitsForRow, IInv, TInv
  <2>2. Head(needs[q]) \in Rows
    BY <2>1
  <2>3. owner[Head(needs[q])] \in Requests
    BY <2>2 DEF WaitsForRow, IInv, TInv
  <2>4. \/ tx[owner[Head(needs[q])]] # "none"
        \/ stage[owner[Head(needs[q])]] = "running"
    BY <2>2 DEF WaitsForRow, IInv, OwnersAreActive
  <2> QED  BY <2>3, <2>4, HoldersWaitForRows
<1>3. IsFiniteSet(Waiting)
  <2>1. IsFiniteSet(Requests)
    BY LoadIsANumber, FS_Interval DEF Requests
  <2>2. Waiting \in SUBSET Requests
    OBVIOUS
  <2> QED  BY <2>1, <2>2, FS_Subset
<1>4. PICK cycle \in SUBSET Waiting :
        cycle # {} /\ {blocker[q] : q \in cycle} = cycle
  <2> HIDE DEF Waiting, blocker
  <2> QED  BY <1>1, <1>2, <1>3, CycleInFiniteSet
<1>5. {owner[Head(needs[q])] : q \in cycle} = cycle
  BY <1>4
<1> QED  BY <1>4, <1>5 DEF OnCycle

(* NobodyWaitsInVain holds in every state: for any number of requests, any  *)
(* tables and any limit of connections that leaves one to the requests.     *)
THEOREM ConnectionsAreNotWaitedForAlone == Spec => []NobodyWaitsInVain
<1> QED  BY Invariance, NobodyWaitsInVainHolds, PTL

=============================================================================
