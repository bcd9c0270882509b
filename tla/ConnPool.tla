------------------------------ MODULE ConnPool ------------------------------
(***************************************************************************)
(* What requests to authMicro wait for: a connection of either service's    *)
(* pool, and rows that another request has locked.                          *)
(*                                                                         *)
(* A statement outside of a transaction takes a connection and gives it     *)
(* back, with its row locks, when it ends.  A confirmation of a login is    *)
(* one transaction: its statements share one connection, which it keeps,    *)
(* with the locks, across two calls of userMicro.  Neither the wait for a   *)
(* connection nor the wait for a row has a deadline; PostgreSQL sees a      *)
(* cycle of waits for rows and aborts one of them, but it sees nothing of   *)
(* the pool.                                                                *)
(***************************************************************************)
EXTENDS Integers, Sequences, FiniteSets, SequencesExt

CONSTANTS
  Load,          \* how many requests there are
  RegistrationRows, LoginRows, TokenRows,  \* the rows of the three tables
  MaxOpenConns,  \* SetMaxOpenConns: 20 in the code
  Nobody         \* the owner of a row that is not locked

Requests == 1 .. Load

Rows == RegistrationRows \cup LoginRows \cup TokenRows

ASSUME NobodyIsNoRequest == Nobody \notin Requests

ASSUME LoadIsANumber == Load \in Nat

ASSUME TablesAreFinite == IsFiniteSet(Rows)

(* One connection is the migrations', and requests need another. *)
ASSUME RequestsHaveAConnection == MaxOpenConns \in Nat /\ MaxOpenConns > 1

VARIABLES
  kind,   \* what each request asks for, a position in Programs
  at,     \* its position in its program
  stage,  \* "ready" for the next step, or "running" a statement
  needs,  \* the rows the statement has still to lock, in its order
  tx,     \* its transaction: "none", "open", or "aborted" by a failure
  conns,  \* the connections in use: who took each, for which statement
  owner   \* who has locked each row

vars == <<kind, at, stage, needs, tx, conns, owner>>

-----------------------------------------------------------------------------
(* The statements and calls that each handler makes *)

Register == <<"cleanRegistrations", "askAccount", "find", "saveRegistration">>

ConfirmRegistration == <<"find", "createAccount", "deleteRegistration">>

Login == <<"cleanLogins", "askAccount", "find", "saveLogin">>

Execute ==
  <<"begin", "find", "verifyAccount", "deleteLogin",
    "cleanTokens", "askAccount", "insertToken", "commit">>

RefreshTokens ==
  <<"find", "cleanTokens", "askAccount", "insertToken", "deleteToken">>

(* A token that expired is deleted, and the request refused. *)
RefreshExpired == <<"find", "deleteToken">>

Programs ==
  <<Register, ConfirmRegistration, Login, Execute, RefreshTokens, RefreshExpired>>

Program(r) == Programs[kind[r]]

Finished(r) == at[r] > Len(Program(r))

Step(r) == Program(r)[at[r]]

(* A call is a statement of userMicro, on a connection of its own pool. *)
PoolOf(step) ==
  IF step \in {"askAccount", "verifyAccount", "createAccount"}
  THEN "user" ELSE "auth"

(* A failed clean-up is logged, and so is the failed DELETE of an old token;  *)
(* the error of verifyAccountStillValid is dropped.                          *)
ErrorIsDropped(step) ==
  step \in {"cleanRegistrations", "cleanLogins", "cleanTokens", "verifyAccount",
            "deleteToken"}

(* A clean-up locks the expired rows, which may be any, in the order in which *)
(* it comes across them.                                                     *)
InAnyOrder(rows) == SetToAllKPermutations(rows)

(* Any other statement locks the one row it writes, if there is one. *)
AtMostOne(rows) == {<<>>} \cup {<<row>> : row \in rows}

Locks(step) ==
  CASE step = "cleanRegistrations" -> InAnyOrder(RegistrationRows)
    [] step = "cleanLogins" -> InAnyOrder(LoginRows)
    [] step = "cleanTokens" -> InAnyOrder(TokenRows)
    [] step \in {"saveRegistration", "deleteRegistration"} -> AtMostOne(RegistrationRows)
    [] step \in {"saveLogin", "deleteLogin"} -> AtMostOne(LoginRows)
    [] step = "deleteToken" -> AtMostOne(TokenRows)
    [] OTHER -> {<<>>}

-----------------------------------------------------------------------------
(* The requests are alike, so one order of their kinds will do. *)
Init ==
  /\ kind \in {k \in [Requests -> DOMAIN Programs] :
                \A r, q \in Requests : r <= q => k[r] <= k[q]}
  /\ at = [r \in Requests |-> 1]
  /\ stage = [r \in Requests |-> "ready"]
  /\ needs = [r \in Requests |-> <<>>]
  /\ tx = [r \in Requests |-> "none"]
  /\ conns = {}
  /\ owner = [row \in Rows |-> Nobody]

(* InitSchema makes a driver of the migrations, which takes a connection and *)
(* keeps it as long as the process lives.                                    *)
Available == MaxOpenConns - 1

InUse(pool) == Cardinality({c \in conns : PoolOf(c.statement) = pool})

Connection(r) == [request |-> r, statement |-> Step(r)]

AnyStatement(r) == TRUE  \* mutant: the repositories use the database itself

(* DefaultTrOrDB: the connection of the transaction, if there is one *)
NeedsConnection(r) ==
  ~(tx[r] # "none" /\ PoolOf(Step(r)) = "auth")

FindKeepsIt(r) ==  \* mutant: the rows of a SELECT are not closed
  IF Step(r) = "find" THEN {} ELSE {Connection(r)}

GivenBack(r) == {Connection(r)}

Unlocked(r) == [row \in Rows |-> IF owner[row] = r THEN Nobody ELSE owner[row]]

(* The request is answered: whatever it holds is given back. *)
Ends(r) ==
  /\ at' = [at EXCEPT ![r] = Len(Program(r)) + 1]
  /\ stage' = [stage EXCEPT ![r] = "ready"]
  /\ needs' = [needs EXCEPT ![r] = <<>>]
  /\ tx' = [tx EXCEPT ![r] = "none"]
  /\ conns' = {c \in conns : c.request # r}
  /\ owner' = Unlocked(r)
  /\ UNCHANGED kind

-----------------------------------------------------------------------------
(* BEGIN of a transaction, on a connection that it keeps *)
Begin(r) ==
  /\ ~Finished(r) /\ Step(r) = "begin"
  /\ InUse("auth") < Available
  /\ conns' = conns \cup {Connection(r)}
  /\ tx' = [tx EXCEPT ![r] = "open"]
  /\ at' = [at EXCEPT ![r] = @ + 1]
  /\ UNCHANGED <<kind, stage, needs, owner>>

Start(r) ==
  /\ ~Finished(r) /\ stage[r] = "ready" /\ Step(r) \notin {"begin", "commit"}
  /\ IF NeedsConnection(r)
     THEN /\ InUse(PoolOf(Step(r))) < Available
          /\ conns' = conns \cup {Connection(r)}
     ELSE UNCHANGED conns
  /\ stage' = [stage EXCEPT ![r] = "running"]
  /\ \E rows \in IF tx[r] = "aborted" THEN {<<>>} ELSE Locks(Step(r)) :
       needs' = [needs EXCEPT ![r] = rows]
  /\ UNCHANGED <<kind, at, tx, owner>>

Running(r) == ~Finished(r) /\ stage[r] = "running"

LockRow(r) ==
  /\ Running(r) /\ needs[r] # <<>>
  /\ owner[Head(needs[r])] \in {Nobody, r}
  /\ owner' = [owner EXCEPT ![Head(needs[r])] = r]
  /\ needs' = [needs EXCEPT ![r] = Tail(@)]
  /\ UNCHANGED <<kind, at, stage, conns, tx>>

(* The locks of a statement go with its transaction, its own if it has none. *)
StatementIsOver(r) ==
  /\ at' = [at EXCEPT ![r] = @ + 1]
  /\ stage' = [stage EXCEPT ![r] = "ready"]
  /\ needs' = [needs EXCEPT ![r] = <<>>]
  /\ conns' = conns \ GivenBack(r)

StatementEnds(r) ==
  /\ Running(r) /\ needs[r] = <<>>
  /\ tx[r] = "aborted" => PoolOf(Step(r)) = "user"
  /\ StatementIsOver(r)
  /\ owner' = IF tx[r] = "none" THEN Unlocked(r) ELSE owner
  /\ UNCHANGED <<kind, tx>>

(* A failed statement takes its transaction with it, which lets go of its     *)
(* locks but not of the connection.  Not every error ends the request.        *)
StatementFails(r) ==
  /\ Running(r)
  /\ IF ErrorIsDropped(Step(r))
     THEN /\ StatementIsOver(r)
          /\ UNCHANGED kind
          /\ IF tx[r] = "none"
             THEN owner' = Unlocked(r) /\ UNCHANGED tx
             ELSE IF PoolOf(Step(r)) = "auth"
             THEN owner' = Unlocked(r) /\ tx' = [tx EXCEPT ![r] = "aborted"]
             ELSE UNCHANGED <<owner, tx>>
     ELSE Ends(r)

(* COMMIT, or its failure *)
Commit(r) ==
  /\ ~Finished(r) /\ Step(r) = "commit"
  /\ Ends(r)

(* The request is refused between two statements, or its client leaves: a     *)
(* transaction is rolled back.                                               *)
Refused(r) ==
  /\ ~Finished(r) /\ stage[r] = "ready"
  /\ Ends(r)

-----------------------------------------------------------------------------
(* Waiting *)

WaitsForConnection(r) ==
  /\ ~Finished(r) /\ stage[r] = "ready" /\ Step(r) # "commit"
  /\ Step(r) = "begin" \/ NeedsConnection(r)
  /\ InUse(PoolOf(Step(r))) >= Available

WaitsForRow(r) ==
  Running(r) /\ needs[r] # <<>> /\ owner[Head(needs[r])] \notin {Nobody, r}

(* r is on a cycle of requests that wait for rows of each other. *)
OnCycle(r) ==
  \E cycle \in SUBSET {q \in Requests : WaitsForRow(q)} :
    r \in cycle /\ {owner[Head(needs[q])] : q \in cycle} = cycle

(* The detector of PostgreSQL aborts one of them; every statement of an       *)
(* aborted transaction is refused.                                           *)
Aborted(r) ==
  /\ \/ OnCycle(r)
     \/ Running(r) /\ tx[r] = "aborted" /\ PoolOf(Step(r)) = "auth"
  /\ StatementFails(r)

-----------------------------------------------------------------------------
Terminating == (\A r \in Requests : Finished(r)) /\ UNCHANGED vars

Next ==
  \/ \E r \in Requests :
       \/ Begin(r) \/ Start(r) \/ LockRow(r)
       \/ StatementEnds(r) \/ StatementFails(r)
       \/ Commit(r) \/ Refused(r)
  \/ Terminating

Spec == Init /\ [][Next]_vars

(* A free connection or row is given to who waits for it, statements and      *)
(* calls end, and PostgreSQL resolves the deadlocks it sees.                  *)
FairSpec ==
  /\ Spec
  /\ \A r \in Requests :
       /\ WF_vars(Begin(r) \/ Start(r) \/ LockRow(r) \/ StatementEnds(r) \/ Commit(r))
       /\ WF_vars(Aborted(r))

-----------------------------------------------------------------------------
(* Safety *)

(* When nobody can go on, the reason is a cycle of row locks, which           *)
(* PostgreSQL breaks: connections are never what everybody waits for,         *)
(* although a confirmation keeps one, with locked rows, across two calls      *)
(* (authenticate_user.go:32, postgres.go:33, token_session.go:69-73).         *)
NobodyWaitsInVain ==
  (\A r \in Requests : Finished(r) \/ WaitsForConnection(r) \/ WaitsForRow(r)) =>
    (\A r \in Requests : Finished(r)) \/ (\E r \in Requests : OnCycle(r))

-----------------------------------------------------------------------------
(* Liveness *)

(* Every request gets its connections and its rows, and is answered.          *)
EveryRequestAnswered == <>(\A r \in Requests : Finished(r))

=============================================================================
