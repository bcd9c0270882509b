---------------------------- MODULE TokensProofs ----------------------------
(***************************************************************************)
(* Proofs about Tokens, for any sets of accounts, logins and requests, any  *)
(* lifetime of a token and any skew of the database's clock.                *)
(*                                                                         *)
(* A token is Live to the requests of a set when its row is there, or the   *)
(* clock may have passed its expiry, or one of those requests was given it. *)
(* HandedTokensAreLive says that of the tokens which left authMicro, and is *)
(* not inductive: a refresh hands its token out some steps after it saved   *)
(* the row, so the token has to be live in between (SavedTokensAreLive).    *)
(* UnauthorizedMeansUsed wants more of a request that is about to look for  *)
(* its row: its token is live to the OTHERS (SoughtTokensAreLive).  Both    *)
(* need that the clean-up of a login looks at a clock that is not ahead     *)
(* (IssuedInThePast) and that rows expire with their tokens (RowsSpeakTrue).*)
(***************************************************************************)
EXTENDS Tokens, TLAPS

Working == {"find", "purge", "clean", "sign", "save", "retire"}

(* The inputs of a request that has arrived are there, those of one that    *)
(* has not are not.                                                         *)
RequestsArrived ==
  /\ \A l \in Logins : login[l].pc = "commit" => login[l].acct \in Accounts
  /\ \A r \in Refreshes :
       /\ refresh[r].pc = "idle" => refresh[r].token = NoToken
       /\ refresh[r].pc \in Working => refresh[r].token \in Tokens
       /\ refresh[r].answer = "unauthorized" => refresh[r].token \in Tokens

TInv == TypeOK /\ RequestsArrived

Live(token, requests) ==
  \/ RowsOf(token) # {}
  \/ Before(token.exp, now + Skew)
  \/ Presented(token, requests)

RowsSpeakTrue ==
  \A row \in refresh_token_session : row.refresh_token.exp = row.expires_at

IssuedInThePast ==
  \A l \in Logins : login[l].pc = "commit" => login[l].issued <= now

SavedTokensAreLive ==
  \A r \in Refreshes :
    refresh[r].pc = "retire" => Live(NewRow(r).refresh_token, Refreshes)

SoughtTokensAreLive ==
  \A r \in Refreshes :
    refresh[r].pc = "find" => Live(refresh[r].token, Refreshes \ {r})

IInv ==
  /\ TInv
  /\ RowsSpeakTrue
  /\ IssuedInThePast
  /\ SavedTokensAreLive
  /\ SoughtTokensAreLive
  /\ HandedTokensAreLive
  /\ UnauthorizedMeansUsed

-----------------------------------------------------------------------------
(* Type correctness *)

(* The empty tables and the requests that have not arrived are well typed.  *)
LEMMA InitTInv == Init => TInv
BY DEF Init, TInv, TypeOK, RequestsArrived, Working, LoginProcess,
   RefreshRequest, NewLogin, NewRefresh

(* The token of a row is a token, and the row is a row of the table.        *)
LEMMA RowsAreTyped ==
  ASSUME NEW a \in Accounts, NEW t \in Nat
  PROVE  /\ RefreshRow(a, t, TTL) \in RefreshRows(Accounts)
         /\ RefreshRow(a, t, TTL).refresh_token \in Tokens
         /\ RefreshRow(a, t, TTL).refresh_token.exp
              = RefreshRow(a, t, TTL).expires_at
BY TimesAreNatural DEF RefreshRow, RefreshRows, RefreshToken, Tokens

(* What a step of a refresh does to the request: its token is set once, by  *)
(* its arrival, and the other requests do not move.                         *)
LEMMA RefreshMoves ==
  ASSUME TInv, NEW r \in Refreshes,
         \/ \E token \in handed : RefreshParse(r, token) \/ RefreshInvalid(r, token)
         \/ RefreshStep(r)
         \/ RefreshFails(r)
  PROVE  /\ refresh' \in [Refreshes -> RefreshRequest]
         /\ \A o \in Refreshes : o # r => refresh'[o] = refresh[o]
         /\ refresh[r].token \in Tokens => refresh'[r].token = refresh[r].token
         /\ refresh'[r].pc # "idle"
         /\ refresh'[r].pc \in Working => refresh'[r].token \in Tokens
         /\ refresh'[r].answer = "unauthorized" =>
              /\ refresh'[r].token \in Tokens
              /\ \/ refresh[r].answer = "unauthorized"
                 \/ RefreshFind(r) /\ RowsOf(refresh[r].token) = {}
         /\ refresh'[r].pc = "find" => refresh[r].pc = "idle"
         /\ refresh'[r].pc = "retire" =>
              RefreshSave(r) /\ refresh'[r].issued = refresh[r].issued
<1> USE DEF Working
<1>0. /\ refresh \in [Refreshes -> RefreshRequest]
      /\ refresh[r] \in RefreshRequest
      /\ now \in Nat
      /\ handed \subseteq Tokens
      /\ NoToken \notin Tokens
  BY SentinelsAreDistinct DEF TInv, TypeOK
<1>00. /\ refresh[r].pc = "idle" => refresh[r].token = NoToken
       /\ refresh[r].pc \in Working => refresh[r].token \in Tokens
       /\ refresh[r].answer = "unauthorized" => refresh[r].token \in Tokens
  BY DEF TInv, RequestsArrived
<1>a. ASSUME NEW answer \in {"invalid", "unauthorized", "expired", "error"},
             RefreshAnswered(r, answer)
      PROVE  /\ refresh' \in [Refreshes -> RefreshRequest]
             /\ \A o \in Refreshes : o # r => refresh'[o] = refresh[o]
             /\ refresh'[r].token = refresh[r].token
             /\ refresh'[r].pc = "done"
             /\ refresh'[r].answer = answer
  <2>1. [refresh[r] EXCEPT !.pc = "done", !.issued = 0, !.answer = answer]
          \in RefreshRequest
    BY <1>0 DEF RefreshRequest
  <2> QED  BY <1>0, <1>a, <2>1 DEF RefreshAnswered
<1>1. ASSUME NEW token \in handed, RefreshParse(r, token)
      PROVE  /\ refresh' \in [Refreshes -> RefreshRequest]
             /\ \A o \in Refreshes : o # r => refresh'[o] = refresh[o]
             /\ refresh[r].token = NoToken
             /\ refresh[r].pc = "idle"
             /\ refresh'[r].pc = "find"
             /\ refresh'[r].token = token
             /\ refresh'[r].answer = refresh[r].answer
  <2>1. [refresh[r] EXCEPT !.pc = "find", !.token = token] \in RefreshRequest
    BY <1>0 DEF RefreshRequest
  <2>2. /\ refresh[r].pc = "idle"
        /\ refresh' = [refresh EXCEPT ![r] =
                        [@ EXCEPT !.pc = "find", !.token = token]]
    BY <1>1 DEF RefreshParse
  <2>3. /\ refresh'[r].pc = "find"
        /\ refresh'[r].token = token
        /\ refresh'[r].answer = refresh[r].answer
    BY <1>0, <2>2 DEF RefreshRequest
  <2> QED  BY <1>0, <1>00, <2>1, <2>2, <2>3
<1>b. ASSUME NEW pc \in {"purge", "clean", "sign", "retire"},
             refresh' = [refresh EXCEPT ![r].pc = pc]
      PROVE  /\ refresh' \in [Refreshes -> RefreshRequest]
             /\ \A o \in Refreshes : o # r => refresh'[o] = refresh[o]
             /\ refresh'[r].token = refresh[r].token
             /\ refresh'[r].issued = refresh[r].issued
             /\ refresh'[r].answer = refresh[r].answer
             /\ refresh'[r].pc = pc
  <2>1. [refresh[r] EXCEPT !.pc = pc] \in RefreshRequest
    BY <1>0 DEF RefreshRequest
  <2> QED  BY <1>0, <1>b, <2>1
<1>2. CASE \E token \in handed : RefreshParse(r, token)
  BY <1>0, <1>1, <1>00, <1>2
<1>3. CASE \E token \in handed : RefreshInvalid(r, token)
  BY <1>a, <1>3 DEF RefreshInvalid
<1>4. CASE RefreshFind(r)
  <2>1. CASE RowsOf(refresh[r].token) = {} /\ RefreshAnswered(r, "unauthorized")
    BY <1>a, <1>4, <1>00, <2>1 DEF RefreshFind
  <2>2. CASE \E row \in RowsOf(refresh[r].token) :
               refresh' = [refresh EXCEPT ![r].pc =
                             IF Before(row.expires_at, now) THEN "purge"
                             ELSE "clean"]
    <3>1. PICK pc \in {"purge", "clean"} : refresh' = [refresh EXCEPT ![r].pc = pc]
      BY <2>2
    <3> QED  BY <1>b, <1>4, <1>00, <3>1 DEF RefreshFind
  <2> QED  BY <1>4, <2>1, <2>2 DEF RefreshFind
<1>5. CASE RefreshPurge(r) \/ RefreshFails(r)
  BY <1>a, <1>5 DEF RefreshPurge, RefreshFails
<1>6. CASE RefreshClean(r)
  BY <1>b, <1>00, <1>6 DEF RefreshClean
<1>7. CASE RefreshSign(r)
  <2>1. [refresh[r] EXCEPT !.pc = "save", !.issued = now] \in RefreshRequest
    BY <1>0 DEF RefreshRequest
  <2> QED  BY <1>0, <1>00, <1>7, <2>1 DEF RefreshSign
<1>8. CASE RefreshSave(r)
  <2>1. CASE RefreshAnswered(r, "error")
    BY <1>a, <2>1
  <2>2. CASE refresh' = [refresh EXCEPT ![r].pc = "retire"]
    BY <1>b, <1>00, <1>8, <2>2 DEF RefreshSave
  <2> QED  BY <1>8, <2>1, <2>2 DEF RefreshSave
<1>9. CASE RefreshRetire(r)
  <2> DEFINE fresh == NewRow(r).refresh_token
  <2>1. fresh \in Tokens
    BY <1>0, <1>00, <1>9, RowsAreTyped
    DEF NewRow, RefreshRetire, RefreshRequest, Tokens
  <2> HIDE DEF fresh
  <2>2. [refresh[r] EXCEPT !.pc = "done", !.issued = 0, !.answer = "tokens",
                           !.fresh = fresh] \in RefreshRequest
    BY <1>0, <2>1 DEF RefreshRequest
  <2>3. refresh' = [refresh EXCEPT ![r] =
                      [@ EXCEPT !.pc = "done", !.issued = 0,
                                !.answer = "tokens", !.fresh = fresh]]
    BY <1>9 DEF RefreshRetire, fresh
  <2> QED  BY <1>0, <2>2, <2>3
<1> QED
  BY <1>2, <1>3, <1>4, <1>5, <1>6, <1>7, <1>8, <1>9 DEF RefreshStep

(* What a step of a login does: only that login moves.                      *)
LEMMA LoginMoves ==
  ASSUME TInv, NEW l \in Logins,
         \/ \E a \in Accounts : LoginSign(l, a)
         \/ LoginCommit(l)
         \/ LoginFails(l)
  PROVE  /\ login' \in [Logins -> LoginProcess]
         /\ \A o \in Logins : o # l => login'[o] = login[o]
         /\ login'[l].pc = "commit" =>
              login'[l].acct \in Accounts /\ login'[l].issued = now
         /\ UNCHANGED <<now, refresh>>
<1>0. login \in [Logins -> LoginProcess] /\ now \in Nat
  BY DEF TInv, TypeOK
<1>1. ASSUME NEW a \in Accounts, LoginSign(l, a)
      PROVE  login' \in [Logins -> LoginProcess] /\ login'[l].acct = a
  BY <1>0, <1>1 DEF LoginSign, LoginProcess
<1>2. CASE LoginCommit(l)
  <2>1. [login[l] EXCEPT !.pc = "done"] \in LoginProcess
    BY <1>0 DEF LoginProcess
  <2> QED  BY <1>0, <1>2, <2>1 DEF LoginCommit
<1>3. CASE LoginFails(l)
  BY <1>0, <1>3 DEF LoginFails, LoginProcess, NewLogin
<1> QED  BY <1>0, <1>1, <1>2, <1>3 DEF LoginSign

(* The row a login, or a refresh, is about to save is a row of the table.   *)
LEMMA RowsToSave ==
  ASSUME TInv
  PROVE  /\ \A l \in Logins : login[l].pc = "commit" =>
              /\ LoginRow(l) \in RefreshRows(Accounts)
              /\ LoginRow(l).refresh_token \in Tokens
              /\ LoginRow(l).refresh_token.exp = LoginRow(l).expires_at
         /\ \A r \in Refreshes : refresh[r].pc \in Working =>
              /\ NewRow(r) \in RefreshRows(Accounts)
              /\ NewRow(r).refresh_token \in Tokens
              /\ NewRow(r).refresh_token.exp = NewRow(r).expires_at
<1>1. ASSUME NEW l \in Logins, login[l].pc = "commit"
      PROVE  login[l].acct \in Accounts /\ login[l].issued \in Nat
  BY <1>1 DEF TInv, TypeOK, RequestsArrived, LoginProcess
<1>2. ASSUME NEW r \in Refreshes, refresh[r].pc \in Working
      PROVE  refresh[r].token.sub \in Accounts /\ refresh[r].issued \in Nat
  BY <1>2 DEF TInv, TypeOK, RequestsArrived, RefreshRequest, Tokens
<1> QED  BY <1>1, <1>2, RowsAreTyped DEF LoginRow, NewRow

(* What a step does to the table: a row goes when it may have expired, or   *)
(* when a request that presented its token retires or purges it; a row that *)
(* comes is the one a login or a refresh saves.                             *)
LEMMA NextRows ==
  ASSUME TInv, IssuedInThePast, [Next]_vars
  PROVE  /\ \A row \in refresh_token_session :
              \/ row \in refresh_token_session'
              \/ Before(row.expires_at, now + Skew)
              \/ \E r \in Refreshes :
                   /\ refresh[r].pc \in {"purge", "retire"}
                   /\ refresh[r].token = row.refresh_token
         /\ \A row \in refresh_token_session' :
              \/ row \in refresh_token_session
              \/ \E l \in Logins : login[l].pc = "commit" /\ row = LoginRow(l)
              \/ \E r \in Refreshes : refresh[r].pc \in Working /\ row = NewRow(r)
<1>0. /\ now \in Nat /\ Skew \in Nat
      /\ refresh_token_session \subseteq RefreshRows(Accounts)
      /\ login \in [Logins -> LoginProcess]
  BY TimesAreNatural DEF TInv, TypeOK
<1>1. ASSUME NEW l \in Logins, LoginCommit(l)
      PROVE  /\ \A row \in refresh_token_session :
                  \/ row \in refresh_token_session'
                  \/ Before(row.expires_at, now + Skew)
             /\ refresh_token_session' \subseteq
                  refresh_token_session \cup {LoginRow(l)}
  <2>1. login[l].issued \in Nat /\ login[l].issued <= now
    BY <1>0, <1>1 DEF LoginCommit, IssuedInThePast, LoginProcess
  <2>2. PICK began \in 0 .. login[l].issued :
          \E db \in DatabaseClock(began, Skew) :
            refresh_token_session' =
              UnexpiredTokens(refresh_token_session, db) \cup {LoginRow(l)}
    BY <1>1 DEF LoginCommit
  <2>3. PICK db \in DatabaseClock(began, Skew) :
          refresh_token_session' =
            UnexpiredTokens(refresh_token_session, db) \cup {LoginRow(l)}
    BY <2>2
  <2>4. db \in Int /\ db <= now + Skew
    BY <1>0, <2>1 DEF DatabaseClock
  <2> QED  BY <1>0, <2>3, <2>4 DEF UnexpiredTokens, Before, RefreshRows
<1>2. ASSUME NEW r \in Refreshes, RefreshClean(r)
      PROVE  /\ \A row \in refresh_token_session :
                  \/ row \in refresh_token_session'
                  \/ Before(row.expires_at, now + Skew)
             /\ refresh_token_session' \subseteq refresh_token_session
  <2>1. CASE refresh_token_session' = refresh_token_session
    BY <2>1
  <2>2. CASE \E db \in DatabaseClock(now, Skew) :
               refresh_token_session' = Unexpired(db)
    <3>1. PICK db \in DatabaseClock(now, Skew) :
                 refresh_token_session' = Unexpired(db)
      BY <2>2
    <3>2. db \in Int /\ db <= now + Skew
      BY <1>0 DEF DatabaseClock
    <3> QED
      BY <1>0, <3>1, <3>2 DEF Unexpired, UnexpiredTokens, Before, RefreshRows
  <2> QED  BY <1>2, <2>1, <2>2 DEF RefreshClean
<1>3. ASSUME NEW r \in Refreshes, RefreshPurge(r) \/ RefreshRetire(r)
      PROVE  /\ \A row \in refresh_token_session :
                  \/ row \in refresh_token_session'
                  \/ refresh[r].token = row.refresh_token
             /\ refresh[r].pc \in {"purge", "retire"}
             /\ refresh_token_session' \subseteq refresh_token_session
  BY <1>3 DEF RefreshPurge, RefreshRetire, Retired, RowsOf
<1>4. ASSUME NEW r \in Refreshes, RefreshSave(r)
      PROVE  /\ refresh[r].pc \in Working
             /\ refresh_token_session' = refresh_token_session \cup {NewRow(r)}
  BY <1>4 DEF RefreshSave, Working
<1>5. ASSUME NEW r \in Refreshes,
             \/ \E token \in handed : RefreshParse(r, token) \/ RefreshInvalid(r, token)
             \/ RefreshFind(r) \/ RefreshSign(r) \/ RefreshFails(r)
      PROVE  UNCHANGED refresh_token_session
  BY <1>5 DEF RefreshParse, RefreshInvalid, RefreshFind, RefreshSign, RefreshFails
<1>6. ASSUME NEW l \in Logins,
             (\E a \in Accounts : LoginSign(l, a)) \/ LoginFails(l)
      PROVE  UNCHANGED refresh_token_session
  BY <1>6 DEF LoginSign, LoginFails
<1>7. CASE Tick \/ Terminating \/ UNCHANGED vars
  BY <1>7 DEF Tick, Terminating, vars
<1>8. ASSUME NEW l \in Logins, LoginCommit(l)
      PROVE  login[l].pc = "commit"
  BY <1>8 DEF LoginCommit
<1> QED
  BY <1>1, <1>2, <1>3, <1>4, <1>5, <1>6, <1>7, <1>8
  DEF Next, Requests, RefreshStep

(* Type correctness and the arrival of inputs are inductive by themselves.  *)
LEMMA NextTInv == TInv /\ IssuedInThePast /\ [Next]_vars => TInv' /\ IssuedInThePast'
<1> SUFFICES ASSUME TInv, IssuedInThePast, [Next]_vars
             PROVE  TInv' /\ IssuedInThePast'
  OBVIOUS
<1>0. TypeOK /\ RequestsArrived
  BY DEF TInv
<1>1. refresh_token_session' \subseteq RefreshRows(Accounts)
  BY <1>0, NextRows, RowsToSave DEF TypeOK
<1>2. ASSUME NEW l \in Logins,
             \/ \E a \in Accounts : LoginSign(l, a)
             \/ LoginCommit(l)
             \/ LoginFails(l)
      PROVE  TInv' /\ IssuedInThePast'
  <2>1. /\ login' \in [Logins -> LoginProcess]
        /\ \A o \in Logins : o # l => login'[o] = login[o]
        /\ login'[l].pc = "commit" =>
             login'[l].acct \in Accounts /\ login'[l].issued = now
        /\ UNCHANGED <<now, refresh>>
    BY <1>2, LoginMoves
  <2>2. handed' \subseteq Tokens
    <3>1. CASE LoginCommit(l)
      <4>1. LoginRow(l).refresh_token \in Tokens
        BY <3>1, RowsToSave DEF LoginCommit
      <4> QED  BY <1>0, <3>1, <4>1 DEF LoginCommit, TypeOK
    <3> QED  BY <1>0, <1>2, <3>1 DEF LoginSign, LoginFails, TypeOK
  <2>3. now \in Nat
    BY <1>0 DEF TypeOK
  <2>4. TypeOK'
    BY <1>0, <1>1, <2>1, <2>2 DEF TypeOK
  <2>5. RequestsArrived'
    BY <1>0, <2>1 DEF RequestsArrived
  <2>6. IssuedInThePast'
    BY <2>1, <2>3 DEF IssuedInThePast
  <2> QED  BY <2>4, <2>5, <2>6 DEF TInv
<1>3. ASSUME NEW r \in Refreshes,
             \/ \E token \in handed : RefreshParse(r, token) \/ RefreshInvalid(r, token)
             \/ RefreshStep(r)
             \/ RefreshFails(r)
      PROVE  TInv' /\ IssuedInThePast'
  <2>1. UNCHANGED <<now, login>>
    BY <1>3 DEF RefreshStep, RefreshParse, RefreshInvalid, RefreshFind,
       RefreshPurge, RefreshClean, RefreshSign, RefreshSave, RefreshRetire,
       RefreshFails
  <2>2. handed' \subseteq Tokens
    <3>1. CASE RefreshRetire(r)
      <4>1. NewRow(r).refresh_token \in Tokens
        BY <3>1, RowsToSave DEF RefreshRetire, Working
      <4> QED  BY <1>0, <3>1, <4>1 DEF RefreshRetire, TypeOK
    <3> QED
      BY <1>0, <1>3, <3>1 DEF RefreshStep, RefreshParse, RefreshInvalid,
         RefreshFind, RefreshPurge, RefreshClean, RefreshSign, RefreshSave,
         RefreshFails, TypeOK
  <2>3. /\ refresh' \in [Refreshes -> RefreshRequest]
        /\ \A o \in Refreshes : o # r => refresh'[o] = refresh[o]
        /\ refresh'[r].pc # "idle"
        /\ refresh'[r].pc \in Working => refresh'[r].token \in Tokens
        /\ refresh'[r].answer = "unauthorized" => refresh'[r].token \in Tokens
    BY <1>3, RefreshMoves
  <2>4. TypeOK'
    BY <1>0, <1>1, <2>1, <2>2, <2>3 DEF TypeOK
  <2>5. RequestsArrived'
    BY <1>0, <2>1, <2>3 DEF RequestsArrived
  <2>6. IssuedInThePast'
    BY <2>1 DEF IssuedInThePast
  <2> QED  BY <2>4, <2>5, <2>6 DEF TInv
<1>4. CASE Tick
  <2>1. \A l \in Logins : login[l].issued \in Nat
    BY <1>0 DEF TypeOK, LoginProcess
  <2> QED
    BY <1>0, <1>4, <2>1 DEF Tick, TInv, TypeOK, RequestsArrived, IssuedInThePast
<1>5. CASE Terminating \/ UNCHANGED vars
  BY <1>0, <1>5
  DEF Terminating, vars, TInv, TypeOK, RequestsArrived, IssuedInThePast
<1> QED  BY <1>2, <1>3, <1>4, <1>5 DEF Next, Requests

(* Whatever the rows, the clock and the requests go through, every variable *)
(* keeps the type the code gives it.                                        *)
THEOREM TypeCorrect == Spec => []TypeOK
<1>1. TInv => TypeOK
  BY DEF TInv
<1>2. Init => IssuedInThePast
  BY DEF Init, IssuedInThePast, NewLogin
<1> QED  BY <1>1, <1>2, InitTInv, NextTInv, PTL DEF Spec
-----------------------------------------------------------------------------
(* Live tokens *)

(* Time does not run backwards, and a request keeps the token it presented. *)
LEMMA NextPresented ==
  ASSUME TInv, [Next]_vars
  PROVE  /\ now' \in Nat /\ now <= now'
         /\ \A r \in Refreshes :
              refresh[r].token \in Tokens => refresh'[r].token = refresh[r].token
<1>0. now \in Nat
  BY DEF TInv, TypeOK
<1>1. CASE Tick
  BY <1>0, <1>1 DEF Tick
<1>2. ASSUME NEW r \in Refreshes,
             \/ \E token \in handed : RefreshParse(r, token) \/ RefreshInvalid(r, token)
             \/ RefreshStep(r)
             \/ RefreshFails(r)
      PROVE  /\ now' = now
             /\ \A o \in Refreshes :
                  refresh[o].token \in Tokens => refresh'[o].token = refresh[o].token
  <2>1. now' = now
    BY <1>2 DEF RefreshStep, RefreshParse, RefreshInvalid, RefreshFind,
       RefreshPurge, RefreshClean, RefreshSign, RefreshSave, RefreshRetire,
       RefreshFails
  <2> QED  BY <1>2, <2>1, RefreshMoves
<1>3. ASSUME NEW l \in Logins,
             \/ \E a \in Accounts : LoginSign(l, a)
             \/ LoginCommit(l)
             \/ LoginFails(l)
      PROVE  UNCHANGED <<now, refresh>>
  BY <1>3, LoginMoves
<1>4. CASE Terminating \/ UNCHANGED vars
  BY <1>0, <1>4 DEF Terminating, vars
<1> QED  BY <1>0, <1>1, <1>2, <1>3, <1>4 DEF Next, Requests

(* A token stays live to a set of requests until one that is not of the set *)
(* takes its row.                                                           *)
LEMMA NextLive ==
  ASSUME TInv, IssuedInThePast, RowsSpeakTrue, [Next]_vars,
         NEW token \in Tokens, NEW requests \in SUBSET Refreshes,
         Live(token, requests)
  PROVE  \/ Live(token, requests)'
         \/ \E r \in Refreshes \ requests :
              refresh[r].pc \in {"purge", "retire"} /\ refresh[r].token = token
<1>0. /\ now \in Nat /\ now' \in Nat /\ now <= now' /\ Skew \in Nat
      /\ token.exp \in Nat
  BY NextPresented, TimesAreNatural DEF TInv, TypeOK, Tokens
<1>1. CASE Before(token.exp, now + Skew)
  BY <1>0, <1>1 DEF Live, Before
<1>2. CASE Presented(token, requests)
  BY <1>2, NextPresented DEF Live, Presented
<1>3. ASSUME NEW row \in RowsOf(token),
             row \notin refresh_token_session'
      PROVE  \/ Live(token, requests)'
             \/ \E r \in Refreshes \ requests :
                  refresh[r].pc \in {"purge", "retire"} /\ refresh[r].token = token
  <2>1. /\ row \in refresh_token_session
        /\ row.refresh_token = token
        /\ row.expires_at = token.exp
    BY <1>3 DEF RowsOf, RowsSpeakTrue
  <2>2. \/ Before(row.expires_at, now + Skew)
        \/ \E r \in Refreshes :
             refresh[r].pc \in {"purge", "retire"} /\ refresh[r].token = token
    BY <1>3, <2>1, NextRows
  <2>3. ASSUME NEW r \in requests, refresh[r].token = token
        PROVE  Live(token, requests)'
    BY <2>3, NextPresented DEF Live, Presented
  <2> QED  BY <1>0, <1>1, <2>1, <2>2, <2>3
<1>4. ASSUME NEW row \in RowsOf(token),
             row \in refresh_token_session'
      PROVE  Live(token, requests)'
  BY <1>4 DEF RowsOf, Live
<1> QED  BY <1>1, <1>2, <1>3, <1>4 DEF Live

(* Who may be given a token, saves one or looks for one: it was handed out, *)
(* or is a fresh one.                                                       *)
LEMMA NextHanded ==
  ASSUME TInv, [Next]_vars, NEW token \in handed' \ handed
  PROVE  \/ \E l \in Logins :
              /\ LoginCommit(l)
              /\ token = LoginRow(l).refresh_token
              /\ LoginRow(l) \in refresh_token_session'
         \/ \E r \in Refreshes :
              RefreshRetire(r) /\ token = NewRow(r).refresh_token
<1>1. CASE handed' = handed
  BY <1>1
<1>2. ASSUME NEW l \in Logins, LoginCommit(l)
      PROVE  token = LoginRow(l).refresh_token /\ LoginRow(l) \in refresh_token_session'
  BY <1>2 DEF LoginCommit
<1>3. ASSUME NEW r \in Refreshes, RefreshRetire(r)
      PROVE  token = NewRow(r).refresh_token
  BY <1>3 DEF RefreshRetire
<1> QED
  BY <1>1, <1>2, <1>3
  DEF Next, Requests, RefreshStep, RefreshParse, RefreshInvalid, RefreshFind,
      RefreshPurge, RefreshClean, RefreshSign, RefreshSave, RefreshFails,
      LoginSign, LoginFails, Tick, Terminating, vars

(* A refresh gets to its search from its arrival with a token that was      *)
(* handed out, to its DELETE from its INSERT, and to the answer             *)
(* "unauthorized" from a search that found no row.                          *)
LEMMA NextRefresh ==
  ASSUME TInv, [Next]_vars, NEW r \in Refreshes
  PROVE  \/ refresh'[r] = refresh[r]
         \/ /\ refresh'[r].pc = "find" =>
                 /\ refresh[r].pc = "idle"
                 /\ refresh'[r].token \in handed
                 /\ UNCHANGED <<now, refresh_token_session>>
                 /\ \A o \in Refreshes : o # r => refresh'[o] = refresh[o]
            /\ refresh'[r].pc = "retire" =>
                 /\ NewRow(r) \in refresh_token_session'
                 /\ NewRow(r)' = NewRow(r)
            /\ refresh'[r].answer = "unauthorized" =>
                 \/ /\ refresh[r].answer = "unauthorized"
                    /\ refresh'[r].token = refresh[r].token
                 \/ /\ refresh[r].pc = "find"
                    /\ refresh'[r].token = refresh[r].token
                    /\ RowsOf(refresh[r].token) = {}
                    /\ UNCHANGED <<now, refresh_token_session>>
                    /\ \A o \in Refreshes : o # r => refresh'[o] = refresh[o]
<1>1. CASE refresh'[r] = refresh[r]
  BY <1>1
<1>2. CASE \/ \E token \in handed : RefreshParse(r, token) \/ RefreshInvalid(r, token)
           \/ RefreshStep(r)
           \/ RefreshFails(r)
  <2>0. /\ refresh \in [Refreshes -> RefreshRequest]
        /\ refresh[r].pc = "idle" => refresh[r].token = NoToken
        /\ refresh[r].pc \in Working => refresh[r].token \in Tokens
        /\ refresh[r].answer = "unauthorized" => refresh[r].token \in Tokens
    BY DEF TInv, TypeOK, RequestsArrived
  <2>1. /\ \A o \in Refreshes : o # r => refresh'[o] = refresh[o]
        /\ refresh[r].token \in Tokens => refresh'[r].token = refresh[r].token
        /\ refresh'[r].pc = "find" => refresh[r].pc = "idle"
        /\ refresh'[r].pc = "retire" =>
             RefreshSave(r) /\ refresh'[r].issued = refresh[r].issued
        /\ refresh'[r].answer = "unauthorized" =>
             \/ refresh[r].answer = "unauthorized"
             \/ RefreshFind(r) /\ RowsOf(refresh[r].token) = {}
    BY <1>2, RefreshMoves
  <2>2. ASSUME refresh'[r].pc = "find"
        PROVE  /\ refresh'[r].token \in handed
               /\ UNCHANGED <<now, refresh_token_session>>
    <3>1. refresh[r].pc = "idle"
      BY <2>1, <2>2
    <3>2. PICK token \in handed : RefreshParse(r, token) \/ RefreshInvalid(r, token)
      BY <1>2, <3>1 DEF RefreshStep, RefreshFind, RefreshPurge, RefreshClean,
         RefreshSign, RefreshSave, RefreshRetire, RefreshFails
    <3>3. CASE RefreshInvalid(r, token)
      <4>1. refresh'[r].pc = "done"
        BY <2>0, <3>3 DEF RefreshInvalid, RefreshAnswered
      <4> QED  BY <2>2, <4>1
    <3>4. CASE RefreshParse(r, token)
      <4>1. refresh' = [refresh EXCEPT ![r] =
                          [@ EXCEPT !.pc = "find", !.token = token]]
        BY <3>4 DEF RefreshParse
      <4>2. refresh'[r].token = token
        BY <2>0, <4>1 DEF RefreshRequest
      <4> QED  BY <3>4, <4>2 DEF RefreshParse
    <3> QED  BY <3>2, <3>3, <3>4
  <2>3. ASSUME refresh'[r].pc = "retire"
        PROVE  NewRow(r) \in refresh_token_session' /\ NewRow(r)' = NewRow(r)
    <3>1. RefreshSave(r) /\ refresh'[r].issued = refresh[r].issued
      BY <2>1, <2>3
    <3>2. refresh'[r].token = refresh[r].token
      BY <2>0, <2>1, <3>1 DEF RefreshSave, Working
    <3> QED  BY <3>1, <3>2 DEF RefreshSave, NewRow
  <2>4. ASSUME refresh'[r].answer = "unauthorized",
               RefreshFind(r) /\ RowsOf(refresh[r].token) = {}
        PROVE  /\ refresh[r].pc = "find"
               /\ refresh'[r].token = refresh[r].token
               /\ UNCHANGED <<now, refresh_token_session>>
    BY <2>0, <2>1, <2>4 DEF RefreshFind, Working
  <2> QED  BY <2>0, <2>1, <2>2, <2>3, <2>4
<1>3. ASSUME NEW o \in Refreshes, o # r,
             \/ \E token \in handed : RefreshParse(o, token) \/ RefreshInvalid(o, token)
             \/ RefreshStep(o)
             \/ RefreshFails(o)
      PROVE  refresh'[r] = refresh[r]
  BY <1>3, RefreshMoves
<1>4. ASSUME NEW l \in Logins,
             \/ \E a \in Accounts : LoginSign(l, a)
             \/ LoginCommit(l)
             \/ LoginFails(l)
      PROVE  UNCHANGED refresh
  BY <1>4, LoginMoves
<1>5. CASE Tick \/ Terminating \/ UNCHANGED vars
  BY <1>5 DEF Tick, Terminating, vars
<1> QED  BY <1>1, <1>2, <1>3, <1>4, <1>5 DEF Next, Requests

(* The inductive invariant, one part at a time.                             *)
LEMMA NextIInv == IInv /\ [Next]_vars => IInv'
<1> SUFFICES ASSUME IInv, [Next]_vars PROVE IInv'
  OBVIOUS
<1>0. /\ TInv /\ RowsSpeakTrue /\ IssuedInThePast
      /\ SavedTokensAreLive /\ SoughtTokensAreLive
      /\ HandedTokensAreLive /\ UnauthorizedMeansUsed
      /\ handed \subseteq Tokens
  BY DEF IInv, TInv, TypeOK
<1>1. TInv' /\ IssuedInThePast'
  BY <1>0, NextTInv
<1>2. RowsSpeakTrue'
  BY <1>0, NextRows, RowsToSave DEF RowsSpeakTrue
<1>3. ASSUME NEW token \in Tokens, Live(token, Refreshes)
      PROVE  Live(token, Refreshes)'
  BY <1>0, <1>3, NextLive
<1>4. ASSUME NEW r \in Refreshes, NEW token \in Tokens, Live(token, Refreshes \ {r}),
             refresh[r].token = token => refresh[r].pc \notin {"purge", "retire"}
      PROVE  Live(token, Refreshes \ {r})'
  BY <1>0, <1>4, NextLive
<1>5. SavedTokensAreLive'
  <2> SUFFICES ASSUME NEW r \in Refreshes, refresh'[r].pc = "retire"
               PROVE  Live(NewRow(r).refresh_token, Refreshes)'
    BY DEF SavedTokensAreLive
  <2>1. CASE refresh'[r] = refresh[r]
    <3>1. NewRow(r)' = NewRow(r) /\ NewRow(r).refresh_token \in Tokens
      BY <1>0, <2>1, RowsToSave DEF NewRow, Working
    <3>2. Live(NewRow(r).refresh_token, Refreshes)
      BY <1>0, <2>1 DEF SavedTokensAreLive
    <3> DEFINE token == NewRow(r).refresh_token
    <3>3. token' = token /\ token \in Tokens /\ Live(token, Refreshes)
      BY <3>1, <3>2
    <3> HIDE DEF token
    <3>4. \A t \in Tokens : Live(t, Refreshes) => Live(t, Refreshes)'
      BY <1>3
    <3> QED  BY <3>1, <3>3, <3>4 DEF token, Live, RowsOf, Presented
  <2>2. CASE refresh'[r] # refresh[r]
    <3>1. NewRow(r)' \in refresh_token_session'
      BY <1>0, <2>2, NextRefresh
    <3> QED  BY <3>1 DEF Live, RowsOf
  <2> QED  BY <2>1, <2>2
<1>6. SoughtTokensAreLive'
  <2> SUFFICES ASSUME NEW r \in Refreshes, refresh'[r].pc = "find"
               PROVE  Live(refresh[r].token, Refreshes \ {r})'
    BY DEF SoughtTokensAreLive
  <2>1. CASE refresh'[r] = refresh[r]
    <3>1. refresh[r].token \in Tokens /\ Live(refresh[r].token, Refreshes \ {r})
      BY <1>0, <2>1 DEF TInv, RequestsArrived, Working, SoughtTokensAreLive
    <3>2. \A t \in Tokens :
            Live(t, Refreshes \ {r}) /\ t = refresh[r].token =>
              Live(t, Refreshes \ {r})'
      BY <1>4, <2>1
    <3> QED  BY <2>1, <3>1, <3>2 DEF Live, RowsOf, Presented
  <2>2. CASE refresh'[r] # refresh[r]
    <3>1. /\ refresh[r].pc = "idle"
          /\ refresh'[r].token \in handed
          /\ UNCHANGED <<now, refresh_token_session>>
          /\ \A o \in Refreshes : o # r => refresh'[o] = refresh[o]
      BY <1>0, <2>2, NextRefresh
    <3>2. refresh[r].token = NoToken /\ refresh'[r].token \in Tokens
      BY <1>0, <3>1 DEF TInv, RequestsArrived
    <3>3. Live(refresh'[r].token, Refreshes)
      BY <1>0, <3>1 DEF HandedTokensAreLive, Live
    <3>4. Live(refresh'[r].token, Refreshes \ {r})
      BY <3>2, <3>3, SentinelsAreDistinct DEF Live, Presented
    <3> QED  BY <3>1, <3>4 DEF Live, RowsOf, Presented
  <2> QED  BY <2>1, <2>2
<1>7. HandedTokensAreLive'
  <2> SUFFICES ASSUME NEW token \in handed'
               PROVE  Live(token, Refreshes)'
    BY DEF HandedTokensAreLive, Live
  <2>1. CASE token \in handed
    BY <1>0, <1>3, <2>1 DEF HandedTokensAreLive, Live
  <2>2. ASSUME NEW l \in Logins, token = LoginRow(l).refresh_token,
               LoginRow(l) \in refresh_token_session'
        PROVE  Live(token, Refreshes)'
    BY <2>2 DEF Live, RowsOf
  <2>3. ASSUME NEW r \in Refreshes, RefreshRetire(r),
               token = NewRow(r).refresh_token
        PROVE  Live(token, Refreshes)'
    <3>1. refresh[r].pc = "retire"
      BY <2>3 DEF RefreshRetire
    <3>2. token \in Tokens /\ Live(token, Refreshes)
      BY <1>0, <2>3, <3>1, RowsToSave DEF SavedTokensAreLive, Working
    <3> QED  BY <1>3, <3>2
  <2> QED  BY <1>0, <2>1, <2>2, <2>3, NextHanded
<1>8. UnauthorizedMeansUsed'
  <2> SUFFICES ASSUME NEW r \in Refreshes, refresh'[r].answer = "unauthorized"
               PROVE  \/ Before(refresh[r].token.exp, now + Skew)'
                      \/ Presented(refresh[r].token, Refreshes \ {r})'
    BY DEF UnauthorizedMeansUsed
  <2>1. ASSUME refresh[r].answer = "unauthorized",
               refresh'[r].token = refresh[r].token
        PROVE  \/ Before(refresh[r].token.exp, now + Skew)'
               \/ Presented(refresh[r].token, Refreshes \ {r})'
    <3>0. /\ now \in Nat /\ now' \in Nat /\ now <= now' /\ Skew \in Nat
          /\ refresh[r].token \in Tokens /\ refresh[r].token.exp \in Nat
      BY <1>0, <2>1, NextPresented, TimesAreNatural
      DEF TInv, TypeOK, RequestsArrived, Tokens
    <3>1. CASE Before(refresh[r].token.exp, now + Skew)
      BY <2>1, <3>0, <3>1 DEF Before
    <3>2. CASE Presented(refresh[r].token, Refreshes \ {r})
      BY <1>0, <2>1, <3>0, <3>2, NextPresented DEF Presented
    <3> QED  BY <1>0, <2>1, <3>1, <3>2 DEF UnauthorizedMeansUsed
  <2>2. ASSUME refresh[r].pc = "find",
               refresh'[r].token = refresh[r].token,
               RowsOf(refresh[r].token) = {},
               UNCHANGED <<now, refresh_token_session>>,
               \A o \in Refreshes : o # r => refresh'[o] = refresh[o]
        PROVE  \/ Before(refresh[r].token.exp, now + Skew)'
               \/ Presented(refresh[r].token, Refreshes \ {r})'
    <3>1. Live(refresh[r].token, Refreshes \ {r})
      BY <1>0, <2>2 DEF SoughtTokensAreLive
    <3> QED  BY <2>2, <3>1 DEF Live, Presented
  <2>3. \/ refresh'[r] = refresh[r]
        \/ /\ refresh[r].answer = "unauthorized"
           /\ refresh'[r].token = refresh[r].token
        \/ /\ refresh[r].pc = "find"
           /\ refresh'[r].token = refresh[r].token
           /\ RowsOf(refresh[r].token) = {}
           /\ UNCHANGED <<now, refresh_token_session>>
           /\ \A o \in Refreshes : o # r => refresh'[o] = refresh[o]
    BY <1>0, NextRefresh
  <2> QED  BY <2>1, <2>2, <2>3
<1> QED  BY <1>1, <1>2, <1>5, <1>6, <1>7, <1>8 DEF IInv

(* There is no token at the start. *)
LEMMA InitIInv == Init => IInv
BY InitTInv
DEF Init, IInv, RowsSpeakTrue, IssuedInThePast, SavedTokensAreLive,
    SoughtTokensAreLive, HandedTokensAreLive, UnauthorizedMeansUsed, NewLogin,
    NewRefresh

(* The property of the clean-ups, the refreshes and the logins together:    *)
(* whatever runs between its issue and its use, a token that left authMicro *)
(* can be refreshed until it expires or is presented.                       *)
THEOREM HandedTokensStayLive == Spec => []HandedTokensAreLive
<1>1. IInv => HandedTokensAreLive
  BY DEF IInv
<1> QED  BY <1>1, InitIInv, NextIInv, PTL DEF Spec

(* No client that uses each of its tokens once and in time is answered      *)
(* "unauthorized" by a refresh (token.go:108-115).                          *)
THEOREM OnlyUsedTokensAreRefused == Spec => []UnauthorizedMeansUsed
<1>1. IInv => UnauthorizedMeansUsed
  BY DEF IInv
<1> QED  BY <1>1, InitIInv, NextIInv, PTL DEF Spec
=============================================================================
