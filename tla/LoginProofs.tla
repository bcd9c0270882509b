---------------------------- MODULE LoginProofs ----------------------------
(***************************************************************************)
(* Proofs about Login, for any sets of e-mails, accounts and requests and   *)
(* any TTLs.                                                                *)
(*                                                                         *)
(* SpentCodesAreGone is not inductive: it has to exclude that a row with a  *)
(* spent code is saved later, and that a transaction which deleted nothing  *)
(* commits while the row is there.  Two facts do that.                      *)
(*   - A Login saves at most once, and is answered when it has; so a code   *)
(*     somebody verified is no longer in the hands of a request that is     *)
(*     about to save it (VerifiedCodesWereSaved).                           *)
(*   - A transaction past its DELETE either holds the lock of the row of    *)
(*     its e-mail or there is no row with its code (HeldOrGone).            *)
(* They also carry the refinement: the step that matters is the commit,     *)
(* which is the login OneTimeCodes promises because the row it deleted, or  *)
(* nobody's, is the row with its code.                                      *)
(*                                                                         *)
(* All but the last invariant hold beside refreshes, which change the table *)
(* of tokens meanwhile (SharedSpec); that tokens somebody was paid are in   *)
(* the table is true only of logins left alone.                             *)
(***************************************************************************)
EXTENDS LoginCodes, TLAPS

InFlight(q) == confirm[q].pc \in {"verify", "delete", "issue", "commit"}

(* The inputs of a request that has arrived are there. *)
RequestsArrived ==
  /\ \A p \in Logins : login[p].pc # "idle" => login[p].email \in Emails
  /\ \A q \in Confirms : InFlight(q) =>
       /\ confirm[q].email \in Emails
       /\ confirm[q].code \in Logins
       /\ confirm[q].acct \in Accounts

TInv == TypeOK /\ RequestsArrived

VerifiedCodesWereSaved ==
  \A q \in Confirms : InFlight(q) \/ confirm[q].paid =>
    /\ confirm[q].paid => confirm[q].pc = "done"
    /\ confirm[q].code \in Logins
    /\ login[confirm[q].code].pc = "done"
    /\ login[confirm[q].code].acct = confirm[q].acct
    /\ login[confirm[q].code].email = confirm[q].email

HeldOrGone ==
  \A q \in Confirms :
    /\ confirm[q].pc \in {"issue", "commit"}
    /\ ~confirm[q].holds
    /\ Stored(confirm[q].email)
    => ~VerifyCode(login_session[confirm[q].email].code, confirm[q].code)

IInv ==
  /\ TInv
  /\ SessionMatchesLogin
  /\ VerifiedCodesWereSaved
  /\ HeldOrGone
  /\ SpentCodesAreGone

-----------------------------------------------------------------------------
(* Type correctness *)

(* The empty tables and the requests that have not arrived are well typed.  *)
LEMMA InitTInv == Init => TInv
BY TimesAreNatural DEF Init, TInv, TypeOK, RequestsArrived, InFlight, Ids,
   LoginRequest, ConfirmRequest, NewLogin, NewConfirm

(* Each action gives the request it moves a record of the right shape. *)
LEMMA LoginType ==
  ASSUME TypeOK, NEW p \in Logins,
         login[p].pc # "idle" => login[p].email \in Emails,
         \/ \E e \in Emails : LoginStart(p, e)
         \/ LoginStep(p)
         \/ LoginFails(p)
  PROVE  login' \in [Logins -> LoginRequest]
<1>0. /\ login \in [Logins -> LoginRequest]
      /\ login[p] \in LoginRequest
  BY DEF TypeOK
<1>a. ASSUME NEW answer \in {"ok", "error"}, LoginAnswered(p, answer)
      PROVE  login' \in [Logins -> LoginRequest]
  <2>1. [login[p] EXCEPT !.pc = "done", !.seen = NoRow, !.expires = 0,
                         !.answer = answer] \in LoginRequest
    BY <1>0 DEF LoginRequest
  <2> QED  BY <1>0, <1>a, <2>1 DEF LoginAnswered
<1>1. ASSUME NEW e \in Emails, LoginStart(p, e)
      PROVE  login' \in [Logins -> LoginRequest]
  <2>1. [login[p] EXCEPT !.pc = "account", !.email = e] \in LoginRequest
    BY <1>0 DEF LoginRequest
  <2> QED  BY <1>0, <1>1, <2>1 DEF LoginStart
<1>2. CASE LoginAccount(p)
  <2>1. account_of[login[p].email] \in Ids
    BY <1>2 DEF LoginAccount, TypeOK
  <2>2. [login[p] EXCEPT !.pc = "find", !.acct = account_of[login[p].email]]
          \in LoginRequest
    BY <1>0, <2>1 DEF LoginRequest
  <2> QED  BY <1>0, <1>2, <2>2 DEF LoginAccount
<1>3. CASE LoginFind(p)
  <2>1. /\ login_session[login[p].email] \in LoginSession \cup {NoRow}
        /\ now + CodeTTL \in Nat
    BY <1>3, TimesAreNatural DEF LoginFind, TypeOK
  <2>2. [login[p] EXCEPT !.pc = "save", !.seen = login_session[login[p].email],
                         !.expires = now + CodeTTL] \in LoginRequest
    BY <1>0, <2>1 DEF LoginRequest
  <2> QED  BY <1>0, <1>3, <1>a, <2>2 DEF LoginFind
<1>4. CASE LoginSave(p)
  BY <1>4, <1>a DEF LoginSave
<1>5. CASE LoginFails(p)
  BY <1>5, <1>a DEF LoginFails
<1> QED  BY <1>1, <1>2, <1>3, <1>4, <1>5 DEF LoginStep

(* The same for a confirmation. *)
LEMMA ConfirmType ==
  ASSUME TypeOK, NEW q \in Confirms,
         \/ \E e \in Emails, code \in Logins :
              ConfirmRefused(q, e, code) \/ ConfirmFind(q, e, code)
         \/ ConfirmStep(q)
         \/ ConfirmFails(q)
  PROVE  confirm' \in [Confirms -> ConfirmRequest]
<1>0. /\ confirm \in [Confirms -> ConfirmRequest]
      /\ confirm[q] \in ConfirmRequest
  BY DEF TypeOK
<1>a. ASSUME NEW answer \in {"invalidCode", "error"},
             ConfirmAnswered(q, answer)
      PROVE  confirm' \in [Confirms -> ConfirmRequest]
  <2>1. [confirm[q] EXCEPT !.pc = "done", !.valid = FALSE, !.holds = FALSE,
                           !.began = 0, !.answer = answer] \in ConfirmRequest
    BY <1>0 DEF ConfirmRequest
  <2> QED  BY <1>0, <1>a, <2>1 DEF ConfirmAnswered
<1>1. ASSUME NEW e \in Emails, NEW code \in Logins, ConfirmRefused(q, e, code)
      PROVE  confirm' \in [Confirms -> ConfirmRequest]
  <2> DEFINE answer == Refusal(login_session[e], code)
  <2>1. answer \in {"invalidCode", "codeExpired"}
    BY <1>1 DEF ConfirmRefused, Refusal
  <2>2. [confirm[q] EXCEPT !.pc = "done", !.email = e, !.answer = answer]
          \in ConfirmRequest
    <3> HIDE DEF answer
    <3> QED  BY <1>0, <2>1 DEF ConfirmRequest
  <2> QED  BY <1>0, <1>1, <2>2 DEF ConfirmRefused
<1>2. ASSUME NEW e \in Emails, NEW code \in Logins, ConfirmFind(q, e, code)
      PROVE  confirm' \in [Confirms -> ConfirmRequest]
  <2> DEFINE row == login_session[e]
             stale == row.account_id # account_of[e]
  <2>1. row.account_id \in Ids /\ now \in Nat /\ stale \in BOOLEAN
    BY <1>2 DEF ConfirmFind, Refusal, TypeOK, LoginSession
  <2>2. [confirm[q] EXCEPT !.pc = "verify", !.email = e, !.code = code,
                           !.acct = row.account_id, !.began = now,
                           !.stale = stale] \in ConfirmRequest
    <3> HIDE DEF row, stale
    <3> QED  BY <1>0, <2>1 DEF ConfirmRequest
  <2> QED  BY <1>0, <1>2, <2>2 DEF ConfirmFind
<1>3. CASE ConfirmVerify(q)
  <2>1. PICK valid \in {AccountStillValid(q), FALSE} :
          confirm' = [confirm EXCEPT ![q] =
                        [@ EXCEPT !.pc = "delete", !.valid = valid]]
    BY <1>3 DEF ConfirmVerify
  <2>2. valid \in BOOLEAN
    BY DEF AccountStillValid
  <2>3. [confirm[q] EXCEPT !.pc = "delete", !.valid = valid] \in ConfirmRequest
    BY <1>0, <2>2 DEF ConfirmRequest
  <2> QED  BY <1>0, <2>1, <2>3
<1>4. CASE ConfirmDelete(q)
  <2> DEFINE holds == Stored(confirm[q].email)
  <2>1. holds \in BOOLEAN
    BY DEF Stored
  <2>2. [confirm[q] EXCEPT !.pc = "issue", !.holds = holds] \in ConfirmRequest
    <3> HIDE DEF holds
    <3> QED  BY <1>0, <2>1 DEF ConfirmRequest
  <2> QED  BY <1>0, <1>4, <2>2 DEF ConfirmDelete
<1>5. CASE ConfirmSwitched(q) \/ ConfirmUnpayable(q) \/ ConfirmFails(q)
  BY <1>5, <1>a DEF ConfirmSwitched, ConfirmUnpayable, ConfirmFails
<1>6. CASE ConfirmIssue(q)
  <2>1. [confirm[q] EXCEPT !.pc = "commit", !.issued = now] \in ConfirmRequest
    BY <1>0 DEF ConfirmRequest, TypeOK
  <2> QED  BY <1>0, <1>6, <2>1 DEF ConfirmIssue
<1>7. CASE ConfirmCommit(q)
  <2>1. PICK answer \in {"tokens", "error"} :
          confirm' = [confirm EXCEPT ![q] =
             [@ EXCEPT !.pc = "done", !.valid = FALSE, !.holds = FALSE,
                       !.began = 0, !.paid = TRUE, !.answer = answer]]
    BY <1>7 DEF ConfirmCommit
  <2>2. [confirm[q] EXCEPT !.pc = "done", !.valid = FALSE, !.holds = FALSE,
                           !.began = 0, !.paid = TRUE, !.answer = answer]
          \in ConfirmRequest
    BY <1>0 DEF ConfirmRequest
  <2> QED  BY <1>0, <2>1, <2>2
<1> QED  BY <1>1, <1>2, <1>3, <1>4, <1>5, <1>6, <1>7 DEF ConfirmStep

(* A request on its way keeps its inputs, and only it moves. *)
LEMMA LoginKeepsInputs ==
  ASSUME TypeOK, NEW p \in Logins, LoginStep(p) \/ LoginFails(p)
  PROVE  /\ login[p].pc \in {"account", "find", "save"}
         /\ login'[p].email = login[p].email
         /\ ~LoginAccount(p) => login'[p].acct = login[p].acct
         /\ \A o \in Logins : o # p => login'[o] = login[o]
<1>0. login \in [Logins -> LoginRequest]
  BY DEF TypeOK
<1>1. CASE LoginAccount(p)
  BY <1>0, <1>1 DEF LoginAccount
<1>2. CASE LoginFind(p)
  <2>1. CASE LoginAnswered(p, "ok")
    BY <1>0, <1>2, <2>1 DEF LoginFind, LoginAnswered
  <2>2. CASE ~LoginAnswered(p, "ok")
    <3> DEFINE row == login_session[login[p].email]
               expires == now + CodeTTL
    <3>1. /\ login[p].pc = "find"
          /\ login' = [login EXCEPT ![p] =
                         [@ EXCEPT !.pc = "save", !.seen = row,
                                   !.expires = expires]]
      BY <1>2, <2>2 DEF LoginFind
    <3> HIDE DEF row, expires
    <3> QED  BY <1>0, <3>1
  <2> QED  BY <2>1, <2>2
<1>3. CASE LoginSave(p)
  <2>1. PICK answer \in {"ok", "error"} : LoginAnswered(p, answer)
    BY <1>3 DEF LoginSave
  <2> QED  BY <1>0, <1>3, <2>1 DEF LoginSave, LoginAnswered
<1>4. CASE LoginFails(p)
  BY <1>0, <1>4 DEF LoginFails, LoginAnswered
<1> QED  BY <1>1, <1>2, <1>3, <1>4 DEF LoginStep

(* The same for a confirmation. *)
LEMMA ConfirmKeepsInputs ==
  ASSUME TypeOK, NEW q \in Confirms, ConfirmStep(q) \/ ConfirmFails(q)
  PROVE  /\ InFlight(q)
         /\ confirm'[q].email = confirm[q].email
         /\ confirm'[q].code = confirm[q].code
         /\ confirm'[q].acct = confirm[q].acct
         /\ confirm'[q].stale = confirm[q].stale
         /\ \A o \in Confirms : o # q => confirm'[o] = confirm[o]
<1>0. confirm \in [Confirms -> ConfirmRequest]
  BY DEF TypeOK
<1>1. CASE ConfirmVerify(q)
  BY <1>0, <1>1 DEF ConfirmVerify, InFlight
<1>2. CASE ConfirmDelete(q)
  <2> DEFINE holds == Stored(confirm[q].email)
  <2>1. /\ confirm[q].pc = "delete"
        /\ confirm' = [confirm EXCEPT ![q] =
                         [@ EXCEPT !.pc = "issue", !.holds = holds]]
    BY <1>2 DEF ConfirmDelete
  <2> HIDE DEF holds
  <2> QED  BY <1>0, <2>1 DEF InFlight
<1>3. CASE ConfirmSwitched(q) \/ ConfirmUnpayable(q) \/ ConfirmFails(q)
  <2>1. PICK answer \in {"invalidCode", "error"} : ConfirmAnswered(q, answer)
    BY <1>3 DEF ConfirmSwitched, ConfirmUnpayable, ConfirmFails
  <2>2. InFlight(q)
    BY <1>3 DEF ConfirmSwitched, ConfirmUnpayable, ConfirmFails, InFlight
  <2> QED  BY <1>0, <2>1, <2>2 DEF ConfirmAnswered
<1>4. CASE ConfirmIssue(q)
  BY <1>0, <1>4 DEF ConfirmIssue, InFlight
<1>5. CASE ConfirmCommit(q)
  <2>1. PICK answer \in {"tokens", "error"} :
          confirm' = [confirm EXCEPT ![q] =
             [@ EXCEPT !.pc = "done", !.valid = FALSE, !.holds = FALSE,
                       !.began = 0, !.paid = TRUE, !.answer = answer]]
    BY <1>5 DEF ConfirmCommit
  <2> QED  BY <1>0, <1>5, <2>1 DEF ConfirmCommit, InFlight
<1> QED  BY <1>1, <1>2, <1>3, <1>4, <1>5 DEF ConfirmStep

(* Login alone is Login beside refreshes that do not happen.                 *)
LEMMA AloneIsShared == Spec => SharedSpec
<1>1. [Next]_vars => [SharedNext]_vars
  BY DEF SharedNext
<1> QED  BY <1>1, PTL DEF Spec, SharedSpec

(* Type correctness and the arrival of inputs are inductive by themselves. *)
LEMMA NextTInv == TInv /\ [SharedNext]_vars => TInv'
<1> SUFFICES ASSUME TInv, [SharedNext]_vars PROVE TInv'
  OBVIOUS
<1>0. TypeOK /\ RequestsArrived
  BY DEF TInv
<1>1. ASSUME NEW p \in Logins,
             \/ \E e \in Emails : LoginStart(p, e)
             \/ LoginStep(p)
             \/ LoginFails(p)
      PROVE  TInv'
  <2>1. login' \in [Logins -> LoginRequest]
    BY <1>0, <1>1, LoginType DEF RequestsArrived
  <2>2. login_session' \in [Emails -> LoginSession \cup {NoRow}]
    <3>1. CASE \E e \in Emails : LoginStart(p, e)
      BY <1>0, <3>1 DEF LoginStart, CleanExpired, WithoutExpired, TypeOK
    <3>2. CASE LoginSave(p)
      <4>1. /\ login[p].acct \in Ids
            /\ login[p].expires \in Nat
        BY <1>0 DEF TypeOK, LoginRequest
      <4>2. SessionToSave(p) \in LoginSession
        BY <4>1 DEF SessionToSave, CodeOf, Hashes, LoginSession
      <4> QED  BY <1>0, <3>2, <4>2 DEF LoginSave, TypeOK
    <3>3. CASE LoginAccount(p) \/ LoginFind(p) \/ LoginFails(p)
      BY <1>0, <3>3 DEF LoginAccount, LoginFind, LoginFails, TypeOK
    <3> QED  BY <1>1, <3>1, <3>2, <3>3 DEF LoginStep
  <2>3. UNCHANGED <<now, users, refresh_token_session, confirm>>
    BY <1>1 DEF LoginStep, LoginStart, LoginAccount, LoginFind, LoginSave,
       LoginFails
  <2>4. \A o \in Logins : login'[o].pc # "idle" => login'[o].email \in Emails
    <3>1. \A o \in Logins : o # p => login'[o] = login[o]
      BY <1>0, <1>1 DEF LoginStep, LoginStart, LoginAccount, LoginFind,
         LoginSave, LoginFails, LoginAnswered, TypeOK
    <3>2. CASE \E e \in Emails : LoginStart(p, e)
      BY <1>0, <3>1, <3>2 DEF LoginStart, TypeOK, RequestsArrived
    <3>3. CASE LoginStep(p) \/ LoginFails(p)
      <4>1. login[p].pc # "idle" /\ login'[p].email = login[p].email
        BY <1>0, <3>3, LoginKeepsInputs
      <4> QED  BY <1>0, <3>1, <4>1 DEF RequestsArrived
    <3> QED  BY <1>1, <3>2, <3>3
  <2> QED
    BY <1>0, <2>1, <2>2, <2>3, <2>4
    DEF TInv, TypeOK, RequestsArrived, InFlight, users
<1>2. ASSUME NEW q \in Confirms,
             \/ \E e \in Emails, code \in Logins :
                  ConfirmRefused(q, e, code) \/ ConfirmFind(q, e, code)
             \/ ConfirmStep(q)
             \/ ConfirmFails(q)
      PROVE  TInv'
  <2>1. confirm' \in [Confirms -> ConfirmRequest]
    BY <1>0, <1>2, ConfirmType
  <2>2. UNCHANGED <<now, users, login>>
    BY <1>2 DEF ConfirmStep, ConfirmRefused, ConfirmFind, ConfirmVerify,
       ConfirmDelete, ConfirmSwitched, ConfirmIssue, ConfirmUnpayable,
       ConfirmCommit, ConfirmFails
  <2>3. /\ login_session' \in [Emails -> LoginSession \cup {NoRow}]
        /\ refresh_token_session' \subseteq RefreshRows(Accounts)
    <3>1. CASE ConfirmCommit(q)
      <4>1. /\ confirm[q].acct \in Accounts
            /\ confirm[q].issued \in Nat
        BY <1>0, <3>1 DEF TypeOK, RequestsArrived, InFlight, ConfirmRequest,
           ConfirmCommit
      <4>2. RefreshRow(confirm[q].acct, confirm[q].issued, RefreshTTL)
              \in RefreshRows(Accounts)
        BY <4>1, TimesAreNatural DEF RefreshRow, RefreshToken, RefreshRows
      <4> QED
        BY <1>0, <3>1, <4>2
        DEF ConfirmCommit, SessionsAfter, TokensAfter, UnexpiredTokens, TypeOK
    <3>2. CASE ~ConfirmCommit(q)
      BY <1>0, <1>2, <3>2 DEF ConfirmStep, ConfirmRefused, ConfirmFind,
         ConfirmVerify, ConfirmDelete, ConfirmSwitched, ConfirmIssue,
         ConfirmUnpayable, ConfirmFails, TypeOK
    <3> QED  BY <3>1, <3>2
  <2>4. \A o \in Confirms : o # q => confirm'[o] = confirm[o]
    BY <1>0, <1>2 DEF ConfirmStep, ConfirmRefused, ConfirmFind, ConfirmVerify,
       ConfirmDelete, ConfirmSwitched, ConfirmIssue, ConfirmUnpayable,
       ConfirmCommit, ConfirmFails, ConfirmAnswered, TypeOK
  <2>5. InFlight(q)' => /\ confirm'[q].email \in Emails
                        /\ confirm'[q].code \in Logins
                        /\ confirm'[q].acct \in Accounts
    <3>1. ASSUME NEW e \in Emails, NEW code \in Logins,
                 ConfirmFind(q, e, code)
          PROVE  /\ confirm'[q].email \in Emails
                 /\ confirm'[q].code \in Logins
                 /\ confirm'[q].acct \in Accounts
      <4>1. login_session[e].account_id \in Accounts
        BY <1>0, <3>1 DEF ConfirmFind, Refusal, TypeOK, LoginSession, Ids
      <4> QED  BY <1>0, <3>1, <4>1 DEF ConfirmFind, TypeOK
    <3>2. ASSUME NEW e \in Emails, NEW code \in Logins,
                 ConfirmRefused(q, e, code)
          PROVE  ~InFlight(q)'
      BY <1>0, <3>2 DEF ConfirmRefused, InFlight, TypeOK
    <3>3. CASE ConfirmStep(q) \/ ConfirmFails(q)
      BY <1>0, <3>3, ConfirmKeepsInputs DEF RequestsArrived
    <3> QED  BY <1>2, <3>1, <3>2, <3>3
  <2> QED
    BY <1>0, <2>1, <2>2, <2>3, <2>4, <2>5
    DEF TInv, TypeOK, RequestsArrived, InFlight, users
<1>3. ASSUME NEW e \in Emails, NEW a \in Accounts, CreateAccount(e, a)
      PROVE  TInv'
  BY <1>0, <1>3
  DEF CreateAccount, TInv, TypeOK, RequestsArrived, InFlight, Ids
<1>4. ASSUME NEW e \in Emails, LeaveEmail(e)
      PROVE  TInv'
  BY <1>0, <1>4
  DEF LeaveEmail, TInv, TypeOK, RequestsArrived, InFlight, Ids
<1>5. CASE Tick
  BY <1>0, <1>5 DEF Tick, TInv, TypeOK, RequestsArrived, InFlight, users
<1>6. CASE UNCHANGED vars
  BY <1>0, <1>6 DEF vars, TInv, TypeOK, RequestsArrived, InFlight
<1>7. CASE TokensRefreshed
  BY <1>0, <1>7 DEF TokensRefreshed, TInv, TypeOK, RequestsArrived, InFlight, users
<1> QED
  BY <1>1, <1>2, <1>3, <1>4, <1>5, <1>6, <1>7
  DEF SharedNext, Next, Requests, Terminating

(* Whatever the tables, the clock and the requests go through, every variable *)
(* keeps the type the code gives it.                                          *)
THEOREM TypeCorrect == SharedSpec => []TypeOK
<1>1. TInv => TypeOK
  BY DEF TInv
<1> QED  BY <1>1, InitTInv, NextTInv, PTL DEF SharedSpec
-----------------------------------------------------------------------------
(* Spent codes *)

(* A stored hash tells which code it is of, and is never the empty string. *)
LEMMA HashesAreOneWay ==
  /\ \A c, d \in Logins : HashCode(c) = HashCode(d) => c = d
  /\ \A c \in Logins : HashCode(c) # NoCode
BY SentinelsAreDistinct DEF HashCode, Hashes

(* A Login that was answered does not move again. *)
LEMMA DoneLoginsStay ==
  ASSUME TypeOK, [SharedNext]_vars, NEW o \in Logins, login[o].pc = "done"
  PROVE  login'[o] = login[o]
<1>1. ASSUME NEW p \in Logins, NEW e \in Emails, LoginStart(p, e)
      PROVE  login'[o] = login[o]
  BY <1>1 DEF LoginStart, TypeOK
<1>2. ASSUME NEW p \in Logins, LoginStep(p) \/ LoginFails(p)
      PROVE  login'[o] = login[o]
  BY <1>2, LoginKeepsInputs
<1>3. CASE login' = login
  BY <1>3
<1>4. ASSUME NEW q \in Confirms,
             \/ \E e \in Emails, code \in Logins :
                  ConfirmRefused(q, e, code) \/ ConfirmFind(q, e, code)
             \/ ConfirmStep(q)
             \/ ConfirmFails(q)
      PROVE  login' = login
  BY <1>4 DEF ConfirmStep, ConfirmRefused, ConfirmFind, ConfirmVerify,
     ConfirmDelete, ConfirmSwitched, ConfirmIssue, ConfirmUnpayable,
     ConfirmCommit, ConfirmFails
<1>5. CASE \/ \E e \in Emails :
                \/ \E a \in Accounts : CreateAccount(e, a)
                \/ LeaveEmail(e)
           \/ Tick \/ Terminating \/ TokensRefreshed \/ UNCHANGED vars
  BY <1>5 DEF CreateAccount, LeaveEmail, Tick, Terminating, TokensRefreshed, vars
<1> QED  BY <1>1, <1>2, <1>3, <1>4, <1>5 DEF SharedNext, Next, Requests

(* The row of an e-mail stays, goes, or is replaced by the one Login that   *)
(* saves it, which is answered in the same step.                            *)
Saves(p, e) ==
  /\ login[p].pc = "save"
  /\ login[p].email = e
  /\ login_session'[e] = SessionToSave(p)
  /\ login'[p].pc = "done"
  /\ login'[p].email = e
  /\ login'[p].acct = login[p].acct
  /\ UNCHANGED confirm

(* A row of login_session stays, goes, or is written by one Save. *)
LEMMA RowsComeFromSaves ==
  ASSUME TInv, [SharedNext]_vars, NEW e \in Emails
  PROVE  \/ login_session'[e] \in {login_session[e], NoRow}
         \/ \E p \in Logins : Saves(p, e)
<1>0. TypeOK /\ RequestsArrived
  BY DEF TInv
<1>1. ASSUME NEW p \in Logins, NEW f \in Emails, LoginStart(p, f)
      PROVE  login_session'[e] \in {login_session[e], NoRow}
  BY <1>0, <1>1 DEF LoginStart, CleanExpired, WithoutExpired, TypeOK
<1>2. ASSUME NEW p \in Logins, LoginSave(p)
      PROVE  \/ login_session'[e] = login_session[e]
             \/ Saves(p, e)
  <2>1. CASE login[p].email = e
    <3>1. PICK answer \in {"ok", "error"} : LoginAnswered(p, answer)
      BY <1>2 DEF LoginSave
    <3>2. /\ login'[p].pc = "done"
          /\ login'[p].email = login[p].email
          /\ login'[p].acct = login[p].acct
      BY <1>0, <3>1 DEF LoginAnswered, TypeOK
    <3> QED  BY <1>0, <1>2, <2>1, <3>2 DEF LoginSave, Saves, TypeOK
  <2>2. CASE login[p].email # e
    BY <1>0, <1>2, <2>2 DEF LoginSave, TypeOK
  <2> QED  BY <2>1, <2>2
<1>3. ASSUME NEW q \in Confirms, ConfirmCommit(q)
      PROVE  login_session'[e] \in {login_session[e], NoRow}
  BY <1>0, <1>3 DEF ConfirmCommit, SessionsAfter, TypeOK
<1>4. CASE UNCHANGED login_session
  BY <1>4
<1> QED
  BY <1>1, <1>2, <1>3, <1>4
     DEF SharedNext, TokensRefreshed, Next, Requests, LoginStep, ConfirmStep,
         LoginAccount, LoginFind, LoginFails, ConfirmRefused, ConfirmFind,
         ConfirmVerify, ConfirmDelete, ConfirmSwitched, ConfirmIssue,
         ConfirmUnpayable, ConfirmFails, CreateAccount, LeaveEmail, Tick,
         Terminating, vars

(* A saved row is of its Login; the other rows keep theirs, which is done. *)
LEMMA NextSessionMatches ==
  TInv /\ SessionMatchesLogin /\ [SharedNext]_vars => SessionMatchesLogin'
<1> SUFFICES ASSUME TInv, SessionMatchesLogin, [SharedNext]_vars,
                    NEW e \in Emails, Stored(e)'
             PROVE  LET row == login_session'[e]
                    IN \/ row.code = NoCode /\ row.account_id = NoAccount
                       \/ \E p \in Logins : /\ row.code = HashCode(p)
                                            /\ row.account_id = login'[p].acct
                                            /\ row.account_id # NoAccount
                                            /\ login'[p].email = e
                                            /\ login'[p].pc = "done"
  BY DEF SessionMatchesLogin, Stored
<1>1. CASE login_session'[e] = login_session[e]
  BY <1>1, DoneLoginsStay DEF SessionMatchesLogin, Stored, TInv
<1>2. ASSUME NEW p \in Logins, Saves(p, e)
      PROVE  LET row == login_session'[e]
             IN \/ row.code = NoCode /\ row.account_id = NoAccount
                \/ /\ row.code = HashCode(p)
                   /\ row.account_id = login'[p].acct
                   /\ row.account_id # NoAccount
                   /\ login'[p].email = e
                   /\ login'[p].pc = "done"
  BY <1>2 DEF Saves, SessionToSave, CodeOf
<1> QED  BY <1>1, <1>2, RowsComeFromSaves DEF Stored

(* What a step does to a confirmation, as far as codes and locks go. *)
Found(q) ==
  \E e \in Emails, code \in Logins : ConfirmFind(q, e, code)

GivenUp(q) ==
  /\ confirm[q].pc # "done"
  /\ confirm'[q].pc = "done"
  /\ confirm'[q].paid = confirm[q].paid
  /\ confirm'[q].stale = confirm[q].stale

(* What a step does to a confirmation: nothing, or one of these moves. *)
LEMMA ConfirmMoves ==
  ASSUME TInv, [SharedNext]_vars, NEW q \in Confirms
  PROVE  \/ confirm'[q] = confirm[q]
         \/ Found(q)
         \/ ConfirmVerify(q) \/ ConfirmDelete(q) \/ ConfirmIssue(q)
         \/ ConfirmCommit(q)
         \/ GivenUp(q)
<1>0. TypeOK /\ confirm \in [Confirms -> ConfirmRequest]
  BY DEF TInv, TypeOK
<1>1. ASSUME NEW o \in Confirms, NEW e \in Emails, NEW code \in Logins,
             ConfirmRefused(o, e, code), confirm'[q] # confirm[q]
      PROVE  GivenUp(q)
  <2>1. o = q
    BY <1>0, <1>1 DEF ConfirmRefused
  <2> DEFINE answer == Refusal(login_session[e], code)
  <2>2. /\ confirm[q].pc = "idle"
        /\ confirm' = [confirm EXCEPT ![q] =
             [@ EXCEPT !.pc = "done", !.email = e, !.answer = answer]]
    BY <1>1, <2>1 DEF ConfirmRefused
  <2> HIDE DEF answer
  <2> QED  BY <1>0, <2>2 DEF GivenUp
<1>2. ASSUME NEW o \in Confirms, confirm'[q] # confirm[q],
             ConfirmSwitched(o) \/ ConfirmUnpayable(o) \/ ConfirmFails(o)
      PROVE  GivenUp(q)
  <2>1. o = q
    BY <1>0, <1>2, ConfirmKeepsInputs DEF ConfirmStep
  <2>2. PICK answer \in {"invalidCode", "error"} : ConfirmAnswered(q, answer)
    BY <1>2, <2>1 DEF ConfirmSwitched, ConfirmUnpayable, ConfirmFails
  <2>3. confirm[q].pc # "done"
    BY <1>2, <2>1 DEF ConfirmSwitched, ConfirmUnpayable, ConfirmFails
  <2> QED  BY <1>0, <2>2, <2>3 DEF ConfirmAnswered, GivenUp
<1>3. ASSUME NEW o \in Confirms, confirm'[q] # confirm[q],
             \/ Found(o)
             \/ ConfirmVerify(o) \/ ConfirmDelete(o) \/ ConfirmIssue(o)
             \/ ConfirmCommit(o)
      PROVE  o = q
  <2>1. CASE Found(o)
    BY <1>0, <1>3, <2>1 DEF Found, ConfirmFind
  <2>2. CASE ~Found(o)
    BY <1>0, <1>3, <2>2, ConfirmKeepsInputs DEF ConfirmStep
  <2> QED  BY <2>1, <2>2
<1>4. CASE UNCHANGED confirm
  BY <1>4
<1> QED
  BY <1>1, <1>2, <1>3, <1>4
     DEF SharedNext, TokensRefreshed, Next, Requests, LoginStep, ConfirmStep, Found,
         LoginStart, LoginAccount, LoginFind, LoginSave, LoginFails, CreateAccount,
         LeaveEmail, Tick, Terminating, vars

(* A confirmation begins with the account of the row it read. *)
LEMMA FindStarts ==
  ASSUME TypeOK, NEW q \in Confirms, NEW e \in Emails, NEW code \in Logins,
         ConfirmFind(q, e, code)
  PROVE  /\ confirm[q].pc = "idle"
         /\ confirm'[q].pc = "verify"
         /\ confirm'[q].paid = confirm[q].paid
         /\ confirm'[q].email = e
         /\ confirm'[q].code = code
         /\ confirm'[q].acct = login_session[e].account_id
         /\ confirm'[q].stale = (login_session[e].account_id # account_of[e])
<1>0. confirm \in [Confirms -> ConfirmRequest]
  BY DEF TypeOK
<1> DEFINE acct == login_session[e].account_id
           stale == acct # account_of[e]
<1>1. /\ confirm[q].pc = "idle"
      /\ confirm' = [confirm EXCEPT ![q] =
           [@ EXCEPT !.pc = "verify", !.email = e, !.code = code,
                     !.acct = acct, !.began = now, !.stale = stale]]
  BY DEF ConfirmFind
<1> HIDE DEF acct, stale
<1>2. /\ confirm'[q].pc = "verify"
      /\ confirm'[q].paid = confirm[q].paid
      /\ confirm'[q].email = e
      /\ confirm'[q].code = code
      /\ confirm'[q].acct = acct
      /\ confirm'[q].stale = stale
  BY <1>0, <1>1 DEF ConfirmRequest
<1> QED  BY <1>1, <1>2 DEF acct, stale

(* The steps of a transaction keep what it read at its beginning. *)
LEMMA TransactionSteps ==
  ASSUME TypeOK, NEW q \in Confirms
  PROVE  /\ ConfirmVerify(q) =>
              /\ confirm'[q].pc = "delete"
              /\ confirm'[q].paid = confirm[q].paid
         /\ ConfirmDelete(q) =>
              /\ confirm'[q].pc = "issue"
              /\ confirm'[q].holds = Stored(confirm[q].email)
              /\ confirm'[q].paid = confirm[q].paid
              /\ UNCHANGED login_session
         /\ ConfirmIssue(q) =>
              /\ confirm[q].pc = "issue"
              /\ confirm'[q].pc = "commit"
              /\ confirm'[q].holds = confirm[q].holds
              /\ confirm'[q].paid = confirm[q].paid
<1>0. confirm \in [Confirms -> ConfirmRequest]
  BY DEF TypeOK
<1>1. ASSUME ConfirmVerify(q)
      PROVE  /\ confirm'[q].pc = "delete"
             /\ confirm'[q].paid = confirm[q].paid
  BY <1>0, <1>1 DEF ConfirmVerify
<1>2. ASSUME ConfirmDelete(q)
      PROVE  /\ confirm'[q].pc = "issue"
             /\ confirm'[q].holds = Stored(confirm[q].email)
             /\ confirm'[q].paid = confirm[q].paid
             /\ UNCHANGED login_session
  <2> DEFINE holds == Stored(confirm[q].email)
  <2>1. /\ confirm' = [confirm EXCEPT ![q] =
                         [@ EXCEPT !.pc = "issue", !.holds = holds]]
        /\ UNCHANGED login_session
    BY <1>2 DEF ConfirmDelete
  <2> HIDE DEF holds
  <2>2. /\ confirm'[q].pc = "issue"
        /\ confirm'[q].holds = holds
        /\ confirm'[q].paid = confirm[q].paid
    BY <1>0, <2>1 DEF ConfirmRequest
  <2> QED  BY <2>1, <2>2 DEF holds
<1>3. ASSUME ConfirmIssue(q)
      PROVE  /\ confirm[q].pc = "issue"
             /\ confirm'[q].pc = "commit"
             /\ confirm'[q].holds = confirm[q].holds
             /\ confirm'[q].paid = confirm[q].paid
  BY <1>0, <1>3 DEF ConfirmIssue
<1> QED  BY <1>1, <1>2, <1>3

(* A commit pays and ends the request. *)
LEMMA CommitEnds ==
  ASSUME TypeOK, NEW q \in Confirms, ConfirmCommit(q)
  PROVE  confirm'[q].pc = "done" /\ confirm'[q].paid
<1>0. confirm \in [Confirms -> ConfirmRequest]
  BY DEF TypeOK
<1>1. PICK answer \in {"tokens", "error"} :
        confirm' = [confirm EXCEPT ![q] =
           [@ EXCEPT !.pc = "done", !.valid = FALSE, !.holds = FALSE,
                     !.began = 0, !.paid = TRUE, !.answer = answer]]
  BY DEF ConfirmCommit
<1> QED  BY <1>0, <1>1

(* A code is verified against a row, whose Login is done by then. *)
LEMMA NextVerifiedCodes ==
  TInv /\ SessionMatchesLogin /\ VerifiedCodesWereSaved /\ [SharedNext]_vars
    => VerifiedCodesWereSaved'
<1> SUFFICES ASSUME TInv, SessionMatchesLogin, VerifiedCodesWereSaved,
                    [SharedNext]_vars,
                    NEW q \in Confirms, InFlight(q)' \/ confirm'[q].paid
             PROVE  /\ confirm'[q].paid => confirm'[q].pc = "done"
                    /\ confirm'[q].code \in Logins
                    /\ login'[confirm'[q].code].pc = "done"
                    /\ login'[confirm'[q].code].acct = confirm'[q].acct
                    /\ login'[confirm'[q].code].email = confirm'[q].email
  BY DEF VerifiedCodesWereSaved, InFlight
<1>0. TypeOK /\ RequestsArrived /\ confirm \in [Confirms -> ConfirmRequest]
  BY DEF TInv, TypeOK
<1>2. CASE confirm'[q] = confirm[q]
  BY <1>0, <1>2, DoneLoginsStay DEF VerifiedCodesWereSaved, InFlight
<1>3. CASE Found(q)
  <2>1. PICK e \in Emails, code \in Logins : ConfirmFind(q, e, code)
    BY <1>3 DEF Found
  <2>2. /\ Stored(e)
        /\ login_session[e].code = HashCode(code)
        /\ login_session[e].account_id # NoAccount
    BY <2>1 DEF ConfirmFind, Refusal, VerifyCode, Stored
  <2>3. /\ login[code].pc = "done"
        /\ login[code].acct = login_session[e].account_id
        /\ login[code].email = e
    BY <2>2, HashesAreOneWay DEF SessionMatchesLogin
  <2>4. /\ confirm[q].pc = "idle"
        /\ confirm'[q].paid = confirm[q].paid
        /\ confirm'[q].code = code
        /\ confirm'[q].acct = login_session[e].account_id
        /\ confirm'[q].email = e
    BY <1>0, <2>1, FindStarts
  <2>5. ~confirm[q].paid
    BY <2>4 DEF VerifiedCodesWereSaved
  <2>6. login'[code] = login[code]
    BY <1>0, <2>3, DoneLoginsStay
  <2> QED  BY <2>3, <2>4, <2>5, <2>6
<1>4. CASE ConfirmVerify(q) \/ ConfirmDelete(q) \/ ConfirmIssue(q)
  <2>1. /\ InFlight(q)
        /\ confirm'[q].email = confirm[q].email
        /\ confirm'[q].code = confirm[q].code
        /\ confirm'[q].acct = confirm[q].acct
    BY <1>0, <1>4, ConfirmKeepsInputs DEF ConfirmStep
  <2>2. confirm'[q].paid = confirm[q].paid
    BY <1>0, <1>4, TransactionSteps
  <2> QED
    BY <1>0, <2>1, <2>2, DoneLoginsStay DEF VerifiedCodesWereSaved, InFlight
<1>5. CASE ConfirmCommit(q)
  <2>1. /\ InFlight(q)
        /\ confirm'[q].email = confirm[q].email
        /\ confirm'[q].code = confirm[q].code
        /\ confirm'[q].acct = confirm[q].acct
    BY <1>0, <1>5, ConfirmKeepsInputs DEF ConfirmStep
  <2>2. confirm'[q].pc = "done"
    BY <1>0, <1>5, CommitEnds
  <2> QED
    BY <1>0, <2>1, <2>2, DoneLoginsStay DEF VerifiedCodesWereSaved
<1>6. CASE GivenUp(q)
  BY <1>6 DEF GivenUp, VerifiedCodesWereSaved, InFlight
<1> QED  BY <1>2, <1>3, <1>4, <1>5, <1>6, ConfirmMoves

(* A row that is saved carries the code of the Login that saves it, which is *)
(* not one that was verified before.                                         *)
LEMMA SavedCodesAreNew ==
  ASSUME TInv, NEW p \in Logins, NEW e \in Emails, Saves(p, e),
         NEW c \in Logins, login[c].pc = "done"
  PROVE  ~VerifyCode(login_session'[e].code, c)
BY HashesAreOneWay DEF Saves, SessionToSave, CodeOf, VerifyCode

(* Nobody else writes the row while it is locked, and no spent code returns. *)
LEMMA NextHeldOrGone ==
  TInv /\ VerifiedCodesWereSaved /\ HeldOrGone /\ [SharedNext]_vars => HeldOrGone'
<1> SUFFICES ASSUME TInv, VerifiedCodesWereSaved, HeldOrGone, [SharedNext]_vars,
                    NEW q \in Confirms,
                    confirm'[q].pc \in {"issue", "commit"},
                    ~confirm'[q].holds,
                    login_session'[confirm'[q].email] # NoRow
             PROVE  ~VerifyCode(login_session'[confirm'[q].email].code,
                                confirm'[q].code)
  BY DEF HeldOrGone, Stored
<1>0. TypeOK /\ RequestsArrived
  BY DEF TInv
<1>1. \/ confirm'[q] = confirm[q]
      \/ ConfirmDelete(q)
      \/ ConfirmIssue(q)
  <2>1. ~Found(q)
    BY <1>0, FindStarts DEF Found
  <2>2. ~ConfirmVerify(q) /\ ~ConfirmCommit(q) /\ ~GivenUp(q)
    BY <1>0, TransactionSteps, CommitEnds DEF GivenUp
  <2> QED  BY <2>1, <2>2, ConfirmMoves
<1>2. /\ InFlight(q)
      /\ confirm'[q].email = confirm[q].email
      /\ confirm'[q].code = confirm[q].code
  BY <1>0, <1>1, ConfirmKeepsInputs DEF ConfirmStep, InFlight
<1>3. /\ confirm[q].email \in Emails
      /\ confirm[q].code \in Logins
      /\ login[confirm[q].code].pc = "done"
  BY <1>0, <1>2 DEF RequestsArrived, VerifiedCodesWereSaved
<1>4. CASE login_session'[confirm[q].email] = login_session[confirm[q].email]
  <2>1. /\ confirm[q].pc \in {"issue", "commit"}
        /\ ~confirm[q].holds
    BY <1>0, <1>1, <1>2, <1>4, TransactionSteps DEF Stored
  <2> QED  BY <1>2, <1>4, <2>1 DEF HeldOrGone, Stored
<1>5. ASSUME NEW p \in Logins, Saves(p, confirm[q].email)
      PROVE  ~VerifyCode(login_session'[confirm'[q].email].code,
                         confirm'[q].code)
  BY <1>2, <1>3, <1>5, SavedCodesAreNew
<1> QED  BY <1>2, <1>3, <1>4, <1>5, RowsComeFromSaves DEF Stored

(* A commit takes the row its transaction holds; where it holds none, there *)
(* is no row with its code.                                                  *)
LEMMA NextSpentCodes ==
  IInv /\ [SharedNext]_vars => SpentCodesAreGone'
<1> SUFFICES ASSUME IInv, [SharedNext]_vars,
                    NEW q \in Confirms, confirm'[q].paid,
                    NEW e \in Emails, Stored(e)'
             PROVE  ~VerifyCode(login_session'[e].code, confirm'[q].code)
  BY DEF SpentCodesAreGone, Stored
<1>0. /\ TInv /\ TypeOK /\ RequestsArrived
      /\ SessionMatchesLogin /\ VerifiedCodesWereSaved /\ HeldOrGone
      /\ SpentCodesAreGone
  BY DEF IInv, TInv
<1>1. CASE confirm[q].paid
  <2>1. confirm[q].pc = "done"
    BY <1>0, <1>1 DEF VerifiedCodesWereSaved
  <2>2. confirm'[q] = confirm[q]
    <3>1. ~Found(q) /\ ~GivenUp(q)
      BY <1>0, <2>1, FindStarts DEF Found, GivenUp
    <3>2. ~ConfirmVerify(q) /\ ~ConfirmDelete(q) /\ ~ConfirmIssue(q)
          /\ ~ConfirmCommit(q)
      BY <1>0, <2>1, ConfirmKeepsInputs DEF ConfirmStep, InFlight
    <3> QED  BY <1>0, <3>1, <3>2, ConfirmMoves
  <2>3. confirm[q].code \in Logins /\ login[confirm[q].code].pc = "done"
    BY <1>0, <1>1 DEF VerifiedCodesWereSaved
  <2>4. CASE login_session'[e] = login_session[e]
    BY <1>0, <1>1, <2>2, <2>4 DEF SpentCodesAreGone, Stored
  <2>5. ASSUME NEW p \in Logins, Saves(p, e)
        PROVE  ~VerifyCode(login_session'[e].code, confirm'[q].code)
    BY <1>0, <2>2, <2>3, <2>5, SavedCodesAreNew
  <2> QED  BY <1>0, <2>4, <2>5, RowsComeFromSaves DEF Stored
<1>2. CASE ~confirm[q].paid
  <2>1. ConfirmCommit(q)
    <3>1. ~Found(q) /\ ~GivenUp(q)
      BY <1>0, <1>2, FindStarts DEF Found, GivenUp
    <3>2. ~ConfirmVerify(q) /\ ~ConfirmDelete(q) /\ ~ConfirmIssue(q)
      BY <1>0, <1>2, TransactionSteps
    <3> QED  BY <1>0, <1>2, <3>1, <3>2, ConfirmMoves
  <2>2. /\ confirm[q].pc = "commit"
        /\ login_session' = SessionsAfter(q)
    BY <2>1 DEF ConfirmCommit
  <2>3. /\ confirm'[q].code = confirm[q].code
        /\ InFlight(q)
    BY <1>0, <2>1, ConfirmKeepsInputs DEF ConfirmStep
  <2>4. /\ confirm[q].email \in Emails
        /\ confirm[q].code \in Logins
        /\ login[confirm[q].code].email = confirm[q].email
    BY <1>0, <2>3 DEF RequestsArrived, VerifiedCodesWereSaved
  <2>5. CASE e = confirm[q].email
    <3>1. ~confirm[q].holds /\ login_session' = login_session
      BY <1>0, <2>2, <2>5 DEF SessionsAfter, Stored, TypeOK
    <3> QED  BY <1>0, <2>2, <2>3, <2>5, <3>1 DEF HeldOrGone, Stored
  <2>6. CASE e # confirm[q].email
    <3>1. login_session'[e] = login_session[e]
      BY <1>0, <2>2, <2>6 DEF SessionsAfter, TypeOK
    <3> QED
      BY <1>0, <2>3, <2>4, <2>6, <3>1, HashesAreOneWay
      DEF SessionMatchesLogin, Stored, VerifyCode
  <2> QED  BY <2>5, <2>6
<1> QED  BY <1>1, <1>2

(* The inductive invariant holds on empty tables ... *)
LEMMA InitIInv == Init => IInv
BY InitTInv DEF Init, IInv, SessionMatchesLogin, VerifiedCodesWereSaved,
   HeldOrGone, SpentCodesAreGone, Stored, InFlight, NewConfirm

(* ... every step keeps it ... *)
LEMMA NextIInv == IInv /\ [SharedNext]_vars => IInv'
BY NextTInv, NextSessionMatches, NextVerifiedCodes, NextHeldOrGone,
   NextSpentCodes DEF IInv

(* ... and so it holds always. *)
LEMMA InductiveInvariant == SharedSpec => []IInv
BY InitIInv, NextIInv, PTL DEF SharedSpec

(* Whatever Logins and confirmations race, a row never mixes two of them:    *)
(* code, account and e-mail come from one request that has been answered.    *)
THEOREM SessionsMatchLogins == SharedSpec => []SessionMatchesLogin
<1>1. IInv => SessionMatchesLogin
  BY DEF IInv
<1> QED  BY <1>1, InductiveInvariant, PTL

(* No row verifies a code that has bought a pair, so a code that is replayed *)
(* after the purchase is refused.                                            *)
THEOREM SpentCodesStayGone == SharedSpec => []SpentCodesAreGone
<1>1. IInv => SpentCodesAreGone
  BY DEF IInv
<1> QED  BY <1>1, InductiveInvariant, PTL

(* A code pays the account and the e-mail it was generated for.              *)
THEOREM OwnersArePaid == SharedSpec => []CodesPayTheirOwner
<1>1. IInv => CodesPayTheirOwner
  BY DEF IInv, VerifiedCodesWereSaved, CodesPayTheirOwner
<1> QED  BY <1>1, InductiveInvariant, PTL

-----------------------------------------------------------------------------
(* Account switches *)

Born(a) == a \in Accounts /\ account_state[a] # "unborn"

(* The ids requests and e-mails refer to were drawn by the account table, so *)
(* an account that takes over an e-mail is none of them.                     *)
AccountsWereBorn ==
  /\ \A e \in Emails : account_of[e] # NoAccount => Born(account_of[e])
  /\ \A p \in Logins : login[p].acct # NoAccount => Born(login[p].acct)

(* A confirmation that started with a code of an account that had lost the   *)
(* e-mail never gets past verifyAccountStillValid.                           *)
StaleStopsAtVerify ==
  \A q \in Confirms : confirm[q].stale =>
    /\ ~confirm[q].paid
    /\ confirm[q].pc \notin {"issue", "commit"}
    /\ confirm[q].pc = "delete" => ~confirm[q].valid
    /\ InFlight(q) => /\ Born(confirm[q].acct)
                      /\ account_of[confirm[q].email] # confirm[q].acct

(* What a step does to userMicro's table. *)
LEMMA AccountsMove ==
  ASSUME TypeOK, [SharedNext]_vars
  PROVE  /\ \A a \in Accounts : Born(a) => Born(a)'
         /\ \A e \in Emails :
              \/ account_of'[e] = account_of[e]
              \/ account_of'[e] = NoAccount
              \/ /\ account_of'[e] \in Accounts
                 /\ ~Born(account_of'[e])
                 /\ account_state'[account_of'[e]] = "present"
         /\ ~UNCHANGED users => UNCHANGED <<login, confirm>>
<1>1. ASSUME NEW e \in Emails, NEW a \in Accounts, CreateAccount(e, a)
      PROVE  /\ \A b \in Accounts : Born(b) => Born(b)'
             /\ \A f \in Emails :
                  \/ account_of'[f] = account_of[f]
                  \/ /\ account_of'[f] \in Accounts
                     /\ ~Born(account_of'[f])
                     /\ account_state'[account_of'[f]] = "present"
             /\ UNCHANGED <<login, confirm>>
  BY <1>1 DEF CreateAccount, Born, TypeOK
<1>2. ASSUME NEW e \in Emails, LeaveEmail(e)
      PROVE  /\ \A b \in Accounts : Born(b) => Born(b)'
             /\ \A f \in Emails : \/ account_of'[f] = account_of[f]
                                  \/ account_of'[f] = NoAccount
             /\ UNCHANGED <<login, confirm>>
  BY <1>2 DEF LeaveEmail, Born, TypeOK
<1>3. CASE UNCHANGED users
  BY <1>3 DEF users, Born
<1> QED
  BY <1>1, <1>2, <1>3
     DEF SharedNext, TokensRefreshed, Next, Requests, LoginStep, ConfirmStep,
         LoginStart, LoginAccount, LoginFind, LoginSave, LoginFails, ConfirmRefused,
         ConfirmFind, ConfirmVerify, ConfirmDelete, ConfirmSwitched, ConfirmIssue,
         ConfirmUnpayable, ConfirmCommit, ConfirmFails, Tick, Terminating, vars,
         users

(* Ids in sessions and requests are of accounts that were created. *)
LEMMA NextAccountsWereBorn ==
  TInv /\ AccountsWereBorn /\ [SharedNext]_vars => AccountsWereBorn'
<1> SUFFICES ASSUME TInv, AccountsWereBorn, [SharedNext]_vars
             PROVE  AccountsWereBorn'
  OBVIOUS
<1>0. TypeOK /\ RequestsArrived
  BY DEF TInv
<1>1. ASSUME NEW e \in Emails, account_of'[e] # NoAccount
      PROVE  /\ account_of'[e] \in Accounts
             /\ account_state'[account_of'[e]] # "unborn"
  <2>1. CASE account_of'[e] = account_of[e]
    <3>1. Born(account_of[e])
      BY <1>1, <2>1 DEF AccountsWereBorn
    <3> QED  BY <1>0, <2>1, <3>1, AccountsMove DEF Born
  <2> QED  BY <1>0, <1>1, <2>1, AccountsMove DEF Born
<1>2. ASSUME NEW p \in Logins, login'[p].acct # NoAccount
      PROVE  /\ login'[p].acct \in Accounts
             /\ account_state'[login'[p].acct] # "unborn"
  <2>1. \/ login'[p].acct = login[p].acct
        \/ /\ login[p].email \in Emails
           /\ login'[p].acct = account_of[login[p].email]
    <3>1. ASSUME NEW o \in Logins, NEW e \in Emails, LoginStart(o, e)
          PROVE  login'[p].acct = login[p].acct
      BY <1>0, <3>1 DEF LoginStart, TypeOK
    <3>2. ASSUME NEW o \in Logins, LoginStep(o) \/ LoginFails(o), o # p
          PROVE  login'[p].acct = login[p].acct
      BY <1>0, <3>2, LoginKeepsInputs
    <3>3. CASE LoginAccount(p)
      <4>1. login'[p].acct = account_of[login[p].email]
        BY <1>0, <3>3 DEF LoginAccount, TypeOK
      <4>2. login[p].email \in Emails
        BY <1>0, <3>3 DEF LoginAccount, RequestsArrived
      <4> QED  BY <4>1, <4>2
    <3>4. CASE /\ ~LoginAccount(p)
               /\ LoginFind(p) \/ LoginSave(p) \/ LoginFails(p)
      BY <1>0, <3>4, LoginKeepsInputs DEF LoginStep
    <3>5. CASE login' = login
      BY <3>5
    <3> QED
      BY <3>1, <3>2, <3>3, <3>4, <3>5
         DEF SharedNext, TokensRefreshed, Next, Requests, LoginStep, ConfirmStep,
             ConfirmRefused, ConfirmFind, ConfirmVerify, ConfirmDelete,
             ConfirmSwitched, ConfirmIssue, ConfirmUnpayable, ConfirmCommit,
             ConfirmFails, CreateAccount, LeaveEmail, Tick, Terminating, vars
  <2>2. Born(login'[p].acct)
    BY <1>2, <2>1 DEF AccountsWereBorn
  <2> QED  BY <1>0, <2>2, AccountsMove DEF Born
<1> QED  BY <1>1, <1>2 DEF AccountsWereBorn, Born

(* An account that has left an e-mail never holds it again, so a stale code *)
(* does not get past the check.                                             *)
LEMMA NextStaleStops ==
  /\ TInv /\ SessionMatchesLogin /\ VerifiedCodesWereSaved
  /\ AccountsWereBorn /\ StaleStopsAtVerify /\ [SharedNext]_vars
  => StaleStopsAtVerify'
<1> SUFFICES ASSUME TInv, SessionMatchesLogin, VerifiedCodesWereSaved,
                    AccountsWereBorn, StaleStopsAtVerify, [SharedNext]_vars,
                    NEW q \in Confirms, confirm'[q].stale
             PROVE  /\ ~confirm'[q].paid
                    /\ confirm'[q].pc \notin {"issue", "commit"}
                    /\ confirm'[q].pc = "delete" => ~confirm'[q].valid
                    /\ InFlight(q)' =>
                         /\ confirm'[q].acct \in Accounts
                         /\ account_state'[confirm'[q].acct] # "unborn"
                         /\ account_of'[confirm'[q].email] # confirm'[q].acct
  BY DEF StaleStopsAtVerify, Born
<1>0. TypeOK /\ RequestsArrived
  BY DEF TInv
<1>1. CASE confirm'[q] = confirm[q]
  <2>1. CASE InFlight(q)
    <3>1. /\ confirm[q].email \in Emails
          /\ confirm[q].acct \in Accounts
          /\ confirm[q].acct # NoAccount
      BY <1>0, <2>1, SentinelsAreDistinct DEF RequestsArrived
    <3>2. /\ Born(confirm[q].acct)
          /\ account_of[confirm[q].email] # confirm[q].acct
      BY <1>1, <2>1 DEF StaleStopsAtVerify
    <3>3. account_state'[confirm[q].acct] # "unborn"
      BY <1>0, <3>1, <3>2, AccountsMove DEF Born
    <3>4. account_of'[confirm[q].email] # confirm[q].acct
      BY <1>0, <3>1, <3>2, AccountsMove
    <3> QED  BY <1>1, <3>1, <3>3, <3>4 DEF StaleStopsAtVerify
  <2>2. CASE ~InFlight(q)
    BY <1>1, <2>2 DEF StaleStopsAtVerify, InFlight
  <2> QED  BY <2>1, <2>2
<1>2. CASE Found(q)
  <2>1. PICK e \in Emails, code \in Logins : ConfirmFind(q, e, code)
    BY <1>2 DEF Found
  <2>2. /\ confirm[q].pc = "idle"
        /\ confirm'[q].pc = "verify"
        /\ confirm'[q].paid = confirm[q].paid
        /\ confirm'[q].email = e
        /\ confirm'[q].acct = login_session[e].account_id
        /\ login_session[e].account_id # account_of[e]
    BY <1>0, <2>1, FindStarts
  <2>3. Stored(e) /\ login_session[e].account_id # NoAccount
    BY <2>1 DEF ConfirmFind, Refusal, Stored
  <2>4. Born(login_session[e].account_id)
    BY <2>3 DEF SessionMatchesLogin, AccountsWereBorn
  <2>5. UNCHANGED users
    BY <2>1 DEF ConfirmFind
  <2>6. ~confirm[q].paid
    BY <2>2 DEF VerifiedCodesWereSaved
  <2> QED  BY <2>2, <2>4, <2>5, <2>6 DEF users, Born
<1>3. CASE ConfirmVerify(q)
  <2>1. /\ InFlight(q)
        /\ confirm[q].stale
        /\ confirm'[q].email = confirm[q].email
        /\ confirm'[q].acct = confirm[q].acct
        /\ confirm'[q].pc = "delete"
        /\ confirm'[q].paid = confirm[q].paid
    BY <1>0, <1>3, ConfirmKeepsInputs, TransactionSteps DEF ConfirmStep
  <2>2. /\ Born(confirm[q].acct)
        /\ account_of[confirm[q].email] # confirm[q].acct
        /\ ~confirm[q].paid
    BY <2>1 DEF StaleStopsAtVerify
  <2>3. UNCHANGED users
    BY <1>3 DEF ConfirmVerify
  <2>4. ~confirm'[q].valid
    <3>1. AccountStillValid(q) = FALSE
      BY <2>2 DEF AccountStillValid
    <3>2. confirm' = [confirm EXCEPT ![q] =
                        [@ EXCEPT !.pc = "delete", !.valid = FALSE]]
      BY <1>3, <3>1 DEF ConfirmVerify
    <3> QED  BY <1>0, <3>2 DEF TypeOK, ConfirmRequest
  <2> QED  BY <2>1, <2>2, <2>3, <2>4 DEF users, Born
<1>4. CASE ConfirmDelete(q) \/ ConfirmIssue(q) \/ ConfirmCommit(q)
  <2>1. confirm[q].stale
    BY <1>0, <1>4, ConfirmKeepsInputs DEF ConfirmStep
  <2>2. \/ confirm[q].pc \in {"issue", "commit"}
        \/ confirm[q].pc = "delete" /\ confirm[q].valid
    BY <1>4 DEF ConfirmDelete, ConfirmIssue, ConfirmCommit
  <2> QED  BY <2>1, <2>2 DEF StaleStopsAtVerify
<1>5. CASE GivenUp(q)
  BY <1>5 DEF GivenUp, StaleStopsAtVerify, InFlight
<1> QED  BY <1>0, <1>1, <1>2, <1>3, <1>4, <1>5, ConfirmMoves

(* A code whose account lost the e-mail before the code was submitted buys   *)
(* nothing, whoever has the e-mail by then.                                  *)
THEOREM StaleCodesAreRefused == SharedSpec => []StaleCodesBuyNothing
<1>1. Init => AccountsWereBorn /\ StaleStopsAtVerify
  BY DEF Init, AccountsWereBorn, StaleStopsAtVerify, NewLogin, NewConfirm
<1>2. /\ IInv /\ AccountsWereBorn /\ StaleStopsAtVerify /\ [SharedNext]_vars
      => AccountsWereBorn' /\ StaleStopsAtVerify'
  BY NextAccountsWereBorn, NextStaleStops DEF IInv
<1>3. StaleStopsAtVerify => StaleCodesBuyNothing
  BY DEF StaleStopsAtVerify, StaleCodesBuyNothing
<1> QED  BY <1>1, <1>2, <1>3, InductiveInvariant, PTL DEF SharedSpec

-----------------------------------------------------------------------------
(* Live codes *)

(* A row with a live code goes only when a code of its e-mail is paid for:   *)
(* the clean-up, the refusals and the rollbacks leave it alone.              *)
THEOREM LiveCodesAreKept == SharedSpec => LiveCodesVanishWhenSpent
<1> DEFINE Kept ==
      \A e \in Emails :
        Live(e) /\ login_session'[e] = NoRow =>
          \E q \in Confirms : /\ confirm[q].email = e
                              /\ ~confirm[q].paid
                              /\ confirm'[q].paid
<1>1. IInv /\ [SharedNext]_vars => Kept
  <2> SUFFICES ASSUME IInv, [SharedNext]_vars, NEW e \in Emails, Live(e),
                      login_session'[e] = NoRow
               PROVE  \E q \in Confirms : /\ confirm[q].email = e
                                          /\ ~confirm[q].paid
                                          /\ confirm'[q].paid
    OBVIOUS
  <2>0. TInv /\ TypeOK /\ VerifiedCodesWereSaved
    BY DEF IInv, TInv
  <2>1. /\ login_session[e] # NoRow
        /\ login_session[e] \in LoginSession
        /\ login_session[e].code_expires \in Nat
        /\ login_session[e].code_expires >= now + Skew
        /\ now \in Nat
    BY <2>0 DEF Live, Stored, TypeOK, LoginSession
  <2>2. ASSUME NEW p \in Logins, NEW f \in Emails, LoginStart(p, f)
        PROVE  login_session'[e] = login_session[e]
    BY <2>0, <2>1, <2>2, TimesAreNatural DEF LoginStart, CleanExpired,
       WithoutExpired, StoredExpired, Expired, Before, DatabaseClock, TypeOK
  <2>3. ASSUME NEW p \in Logins, LoginSave(p)
        PROVE  login_session'[e] # NoRow
    <3>1. /\ login[p].acct \in Ids
          /\ login[p].expires \in Nat
      BY <2>0 DEF TypeOK, LoginRequest
    <3>2. SessionToSave(p) \in LoginSession
      BY <3>1 DEF SessionToSave, CodeOf, Hashes, LoginSession
    <3> QED
      BY <2>0, <2>1, <2>3, <3>2, SentinelsAreDistinct DEF LoginSave, TypeOK
  <2>4. ASSUME NEW q \in Confirms, ConfirmCommit(q)
        PROVE  /\ confirm[q].email = e
               /\ ~confirm[q].paid
               /\ confirm'[q].paid
    <3>1. confirm[q].email = e
      BY <2>0, <2>1, <2>4 DEF ConfirmCommit, SessionsAfter, TypeOK
    <3>2. ~confirm[q].paid
      BY <2>0, <2>4 DEF ConfirmCommit, VerifiedCodesWereSaved
    <3> QED  BY <2>0, <2>4, <3>1, <3>2, CommitEnds
  <2>5. ~UNCHANGED login_session
    BY <2>1
  <2> QED
    BY <2>1, <2>2, <2>3, <2>4, <2>5
       DEF SharedNext, TokensRefreshed, Next, Requests, LoginStep, ConfirmStep,
           LoginAccount, LoginFind, LoginFails, ConfirmRefused, ConfirmFind,
           ConfirmVerify, ConfirmDelete, ConfirmSwitched, ConfirmIssue,
           ConfirmUnpayable, ConfirmFails, CreateAccount, LeaveEmail, Tick,
           Terminating, vars
<1> QED  BY <1>1, InductiveInvariant, PTL DEF SharedSpec, LiveCodesVanishWhenSpent

(* A Login about to save found no row, or a row that had expired, or a row   *)
(* of another account; time does not run backwards, so this stays so.        *)
SavesAreCalledFor ==
  \A p \in Logins : login[p].pc = "save" => MustSave(login[p].seen, login[p].acct)

(* What was a reason to save stays one. *)
LEMMA NextSavesAreCalledFor ==
  TInv /\ SavesAreCalledFor /\ [SharedNext]_vars => SavesAreCalledFor'
<1> SUFFICES ASSUME TInv, SavesAreCalledFor, [SharedNext]_vars,
                    NEW p \in Logins, login'[p].pc = "save"
             PROVE  MustSave(login[p].seen, login[p].acct)'
  BY DEF SavesAreCalledFor
<1>0. TypeOK /\ RequestsArrived /\ login \in [Logins -> LoginRequest]
  BY DEF TInv, TypeOK
<1>1. CASE login'[p] = login[p]
  <2>1. Tick \/ now' = now
    BY DEF SharedNext, TokensRefreshed, Next, Requests, LoginStep, ConfirmStep,
           LoginStart, LoginAccount, LoginFind, LoginSave, LoginFails,
           ConfirmRefused, ConfirmFind, ConfirmVerify, ConfirmDelete,
           ConfirmSwitched, ConfirmIssue, ConfirmUnpayable, ConfirmCommit,
           ConfirmFails, CreateAccount, LeaveEmail, Terminating, vars
  <2>2. now \in Nat /\ now' \in Nat
    BY NextTInv DEF TInv, TypeOK
  <2>3. login[p].seen # NoRow => login[p].seen.code_expires \in Nat
    BY <1>0 DEF LoginRequest, LoginSession
  <2> QED
    BY <1>1, <2>1, <2>2, <2>3
    DEF SavesAreCalledFor, MustSave, Expired, Before, Tick
<1>2. CASE LoginFind(p)
  <2> DEFINE row == login_session[login[p].email]
             expires == now + CodeTTL
  <2>1. ASSUME LoginAnswered(p, "ok") PROVE FALSE
    <3>1. login'[p].pc = "done"
      BY <1>0, <2>1 DEF LoginAnswered
    <3> QED  BY <3>1
  <2>2. /\ MustSave(row, login[p].acct)
        /\ login' = [login EXCEPT ![p] =
                       [@ EXCEPT !.pc = "save", !.seen = row,
                                 !.expires = expires]]
        /\ now' = now
    BY <1>2, <2>1 DEF LoginFind
  <2>3. login'[p].seen = row /\ login'[p].acct = login[p].acct
    <3> HIDE DEF row, expires
    <3> QED  BY <1>0, <2>2 DEF LoginRequest
  <2> QED  BY <2>2, <2>3 DEF MustSave, Expired
<1>3. CASE LoginAccount(p) \/ \E e \in Emails : LoginStart(p, e)
  <2>1. CASE LoginAccount(p)
    <3>1. login'[p].pc = "find"
      BY <1>0, <2>1 DEF LoginAccount
    <3> QED  BY <3>1
  <2>2. ASSUME NEW e \in Emails, LoginStart(p, e) PROVE FALSE
    <3>1. login'[p].pc = "account"
      BY <1>0, <2>2 DEF LoginStart
    <3> QED  BY <3>1
  <2> QED  BY <1>3, <2>1, <2>2
<1>4. CASE LoginSave(p) \/ LoginFails(p)
  <2>1. PICK answer \in {"ok", "error"} : LoginAnswered(p, answer)
    BY <1>4 DEF LoginSave, LoginFails
  <2> QED  BY <1>0, <2>1 DEF LoginAnswered
<1>5. ASSUME NEW o \in Logins, o # p,
             \/ \E e \in Emails : LoginStart(o, e)
             \/ LoginStep(o) \/ LoginFails(o)
      PROVE  login'[p] = login[p]
  <2>1. CASE \E e \in Emails : LoginStart(o, e)
    BY <1>0, <1>5, <2>1 DEF LoginStart
  <2> QED  BY <1>0, <1>5, <2>1, LoginKeepsInputs
<1>6. CASE login' = login
  BY <1>1, <1>6
<1> QED
  BY <1>1, <1>2, <1>3, <1>4, <1>5, <1>6
     DEF SharedNext, TokensRefreshed, Next, Requests, LoginStep, ConfirmStep,
         ConfirmRefused, ConfirmFind, ConfirmVerify, ConfirmDelete, ConfirmSwitched,
         ConfirmIssue, ConfirmUnpayable, ConfirmCommit, ConfirmFails, CreateAccount,
         LeaveEmail, Tick, Terminating, vars

(* Asking again replaces a live code only after an account switch or when    *)
(* the table was read before that code was in it.                            *)
THEOREM LiveCodesAreNotReissued == SharedSpec => OnlyRacesReplaceLiveCodes
<1> DEFINE Justified ==
      \A e \in Emails :
        Live(e) /\ login_session'[e] \notin {login_session[e], NoRow} =>
          \E p \in Logins : /\ login[p].pc = "save"
                            /\ login'[p].pc = "done"
                            /\ login[p].email = e
                            /\ \/ login[p].seen # login_session[e]
                               \/ login[p].acct # login_session[e].account_id
<1>1. TInv /\ SavesAreCalledFor /\ [SharedNext]_vars => Justified
  <2> SUFFICES ASSUME TInv, SavesAreCalledFor, [SharedNext]_vars,
                      NEW e \in Emails, Live(e),
                      login_session'[e] \notin {login_session[e], NoRow}
               PROVE  \E p \in Logins :
                        /\ login[p].pc = "save"
                        /\ login'[p].pc = "done"
                        /\ login[p].email = e
                        /\ \/ login[p].seen # login_session[e]
                           \/ login[p].acct # login_session[e].account_id
    OBVIOUS
  <2>1. PICK p \in Logins : Saves(p, e)
    BY RowsComeFromSaves
  <2>2. MustSave(login[p].seen, login[p].acct)
    BY <2>1 DEF Saves, SavesAreCalledFor
  <2>3. /\ login_session[e] # NoRow
        /\ login_session[e].code_expires \in Nat
        /\ login_session[e].code_expires >= now
        /\ now \in Nat
    BY TimesAreNatural DEF Live, Stored, TInv, TypeOK, LoginSession
  <2>4. \/ login[p].seen # login_session[e]
        \/ login[p].acct # login_session[e].account_id
    BY <2>2, <2>3 DEF MustSave, Expired, Before
  <2> QED  BY <2>1, <2>4 DEF Saves
<1>2. Init => SavesAreCalledFor
  BY DEF Init, SavesAreCalledFor, NewLogin
<1> QED
  BY <1>1, <1>2, InitTInv, NextTInv, NextSavesAreCalledFor, PTL
  DEF SharedSpec, OnlyRacesReplaceLiveCodes

(* A Login succeeds for an account when it found a live row of the account, *)
(* which has a code since rows without one are nobody's, or saved its own.  *)
LEMMA SuccessHasACode ==
  ASSUME TInv, SessionMatchesLogin, [SharedNext]_vars,
         NEW p \in Logins, login[p].acct # NoAccount,
         login[p].pc # "done", login'[p].pc = "done", login'[p].answer = "ok"
  PROVE  LET row == login_session'[login[p].email]
         IN /\ row.account_id = login[p].acct
            /\ \E s \in Logins : row.code = HashCode(s)
<1>0. /\ TypeOK
      /\ login \in [Logins -> LoginRequest]
      /\ login_session \in [Emails -> LoginSession \cup {NoRow}]
      /\ login[p].pc \in {"find", "save"} => login[p].email \in Emails
  BY DEF TInv, TypeOK, RequestsArrived
<1> DEFINE e == login[p].email
<1>1. CASE LoginFind(p)
  <2>1. /\ ~MustSave(login_session[e], login[p].acct)
        /\ login_session' = login_session /\ e \in Emails
    <3> DEFINE row == login_session[e]
               expires == now + CodeTTL
    <3>1. ASSUME login' = [login EXCEPT ![p] =
                             [@ EXCEPT !.pc = "save", !.seen = row, !.expires = expires]]
          PROVE  FALSE
      <4> HIDE DEF row, expires
      <4>1. login'[p].pc = "save"
        BY <1>0, <3>1
      <4> QED  BY <4>1
    <3> QED  BY <1>0, <1>1, <3>1 DEF LoginFind
  <2>2. Stored(e) /\ login_session[e].account_id = login[p].acct
    BY <2>1 DEF MustSave, Stored
  <2> QED  BY <2>1, <2>2 DEF SessionMatchesLogin
<1>2. CASE LoginSave(p)
  <2>1. login_session' = [login_session EXCEPT ![e] = SessionToSave(p)] /\ e \in Emails
    BY <1>0, <1>2 DEF LoginSave
  <2>2. login_session'[e] = SessionToSave(p)
    BY <1>0, <2>1
  <2> QED  BY <2>2 DEF SessionToSave, CodeOf
<1>3. CASE LoginFails(p)
  <2>1. login'[p].answer = "error"
    BY <1>0, <1>3 DEF LoginFails, LoginAnswered
  <2> QED  BY <2>1
<1>4. CASE LoginAccount(p) \/ \E f \in Emails : LoginStart(p, f)
  <2>1. CASE LoginAccount(p)
    <3>1. login'[p].pc = "find"
      BY <1>0, <2>1 DEF LoginAccount
    <3> QED  BY <3>1
  <2>2. ASSUME NEW f \in Emails, LoginStart(p, f) PROVE FALSE
    <3>1. login'[p].pc = "account"
      BY <1>0, <2>2 DEF LoginStart
    <3> QED  BY <3>1
  <2> QED  BY <1>4, <2>1, <2>2
<1>5. ASSUME NEW o \in Logins, o # p,
             \/ \E f \in Emails : LoginStart(o, f)
             \/ LoginStep(o) \/ LoginFails(o)
      PROVE  login'[p] = login[p]
  <2>1. CASE \E f \in Emails : LoginStart(o, f)
    BY <1>0, <1>5, <2>1 DEF LoginStart
  <2> QED  BY <1>0, <1>5, <2>1, LoginKeepsInputs
<1>6. ASSUME login'[p] = login[p] PROVE FALSE
  BY <1>6
<1> QED
  BY <1>1, <1>2, <1>3, <1>4, <1>5, <1>6
     DEF SharedNext, TokensRefreshed, Next, Requests, LoginStep, ConfirmStep,
         ConfirmRefused, ConfirmFind, ConfirmVerify, ConfirmDelete, ConfirmSwitched,
         ConfirmIssue, ConfirmUnpayable, ConfirmCommit, ConfirmFails, CreateAccount,
         LeaveEmail, Tick, Terminating, vars

(* Nobody who has an account is told of a success while the table has no    *)
(* code for that account (login.go:99-109).                                 *)
THEOREM AccountsGetACode == SharedSpec => SuccessLeavesACode
<1>1. IInv => TInv /\ SessionMatchesLogin
  BY DEF IInv
<1>2. TInv /\ SessionMatchesLogin /\ [SharedNext]_vars =>
        \A p \in Logins :
          /\ login[p].acct # NoAccount
          /\ login[p].pc # "done" /\ login'[p].pc = "done" /\ login'[p].answer = "ok"
          => LET row == login_session'[login[p].email]
             IN /\ row.account_id = login[p].acct
                /\ \E s \in Logins : row.code = HashCode(s)
  BY SuccessHasACode
<1> QED
  BY <1>1, <1>2, InductiveInvariant, PTL DEF SharedSpec, SuccessLeavesACode
-----------------------------------------------------------------------------
(* Tokens *)

(* Time does not run backwards.                                             *)
LEMMA TimeGoesOn ==
  ASSUME TInv, [SharedNext]_vars
  PROVE  now' \in Nat /\ now <= now'
<1>0. now \in Nat
  BY DEF TInv, TypeOK
<1>1. CASE Tick
  BY <1>0, <1>1 DEF Tick
<1>2. CASE ~Tick
  <2>1. now' = now
    BY <1>2
       DEF SharedNext, TokensRefreshed, Next, Requests, LoginStep, ConfirmStep,
           LoginStart, LoginAccount, LoginFind, LoginSave, LoginFails,
           ConfirmRefused, ConfirmFind, ConfirmVerify, ConfirmDelete,
           ConfirmSwitched, ConfirmIssue, ConfirmUnpayable, ConfirmCommit,
           ConfirmFails, CreateAccount, LeaveEmail, Terminating, vars
  <2> QED  BY <1>0, <2>1
<1> QED  BY <1>1, <1>2

(* The clock a transaction cleans up by is not ahead.                       *)
BeganInThePast == \A q \in Confirms : InFlight(q) => confirm[q].began <= now

(* A transaction begins now, and keeps the instant.                         *)
LEMMA NextBegan == TInv /\ BeganInThePast /\ [SharedNext]_vars => BeganInThePast'
<1> SUFFICES ASSUME TInv, BeganInThePast, [SharedNext]_vars, NEW q \in Confirms, InFlight(q)'
             PROVE  confirm'[q].began <= now'
  BY DEF BeganInThePast, InFlight
<1>0. TypeOK /\ confirm \in [Confirms -> ConfirmRequest]
      /\ now \in Nat /\ confirm[q].began \in Nat
  BY DEF TInv, TypeOK, ConfirmRequest
<1>1. now' \in Nat /\ now <= now'
  BY TimeGoesOn
<1>2. CASE confirm'[q] = confirm[q]
  BY <1>0, <1>1, <1>2 DEF BeganInThePast, InFlight
<1>3. CASE Found(q)
  <2>1. PICK e \in Emails, code \in Logins : ConfirmFind(q, e, code)
    BY <1>3 DEF Found
  <2> DEFINE acct == login_session[e].account_id
             stale == acct # account_of[e]
  <2>2. confirm' = [confirm EXCEPT ![q] =
           [@ EXCEPT !.pc = "verify", !.email = e, !.code = code,
                     !.acct = acct, !.began = now, !.stale = stale]]
    BY <2>1 DEF ConfirmFind
  <2> HIDE DEF acct, stale
  <2>3. confirm'[q] = [confirm[q] EXCEPT !.pc = "verify", !.email = e, !.code = code,
                                         !.acct = acct, !.began = now, !.stale = stale]
    BY <1>0, <2>2
  <2>4. confirm'[q].began = now
    BY <1>0, <2>3 DEF ConfirmRequest
  <2> QED  BY <1>0, <1>1, <2>4
<1>4. CASE ConfirmVerify(q) \/ ConfirmDelete(q) \/ ConfirmIssue(q)
  <2>1. confirm'[q].began = confirm[q].began
    <3>1. CASE ConfirmVerify(q)
      BY <1>0, <3>1 DEF ConfirmVerify
    <3>2. CASE ConfirmDelete(q)
      <4> DEFINE holds == Stored(confirm[q].email)
      <4>1. confirm' = [confirm EXCEPT ![q] =
                          [@ EXCEPT !.pc = "issue", !.holds = holds]]
        BY <3>2 DEF ConfirmDelete
      <4> HIDE DEF holds
      <4> QED  BY <1>0, <4>1
    <3>3. CASE ConfirmIssue(q)
      BY <1>0, <3>3 DEF ConfirmIssue
    <3> QED  BY <1>4, <3>1, <3>2, <3>3
  <2>2. InFlight(q)
    BY <1>0, <1>4, ConfirmKeepsInputs DEF ConfirmStep
  <2> QED  BY <1>0, <1>1, <2>1, <2>2 DEF BeganInThePast
<1>5. CASE ConfirmCommit(q)
  BY <1>0, <1>5, CommitEnds DEF InFlight
<1>6. CASE GivenUp(q)
  BY <1>6 DEF GivenUp, InFlight
<1> QED  BY <1>2, <1>3, <1>4, <1>5, <1>6, ConfirmMoves

(* A row of refresh_token_session goes only when its expiry may have passed *)
(* by the clock of the database.                                            *)
LEMMA TokensLastUntilExpiry ==
  ASSUME TInv, BeganInThePast, [Next]_vars, NEW row \in refresh_token_session
  PROVE  row \in refresh_token_session' \/ row.expires_at < now + Skew
<1>0. row.expires_at \in Nat /\ now \in Nat /\ Skew \in Nat
  BY TimesAreNatural DEF TInv, TypeOK, RefreshRows
<1>1. ASSUME NEW q \in Confirms, ConfirmCommit(q)
      PROVE  row \in refresh_token_session' \/ row.expires_at < now + Skew
  <2>1. confirm[q].began \in Nat /\ confirm[q].began <= now
    BY <1>1 DEF ConfirmCommit, BeganInThePast, InFlight, TInv, TypeOK, ConfirmRequest
  <2>2. PICK db \in DatabaseClock(confirm[q].began, Skew) :
               refresh_token_session' = TokensAfter(q, db)
    BY <1>1 DEF ConfirmCommit
  <2>3. db \in Int /\ db <= now + Skew
    BY <1>0, <2>1 DEF DatabaseClock
  <2> QED  BY <1>0, <2>2, <2>3 DEF TokensAfter, UnexpiredTokens, Before
<1>2. CASE UNCHANGED refresh_token_session
  BY <1>2
<1> QED
  BY <1>1, <1>2 DEF Next, Requests, LoginStep, ConfirmStep, LoginStart, LoginAccount,
     LoginFind, LoginSave, LoginFails, ConfirmRefused, ConfirmFind,
     ConfirmVerify, ConfirmDelete, ConfirmSwitched, ConfirmIssue,
     ConfirmUnpayable, ConfirmFails, CreateAccount, LeaveEmail, Tick,
     Terminating, vars

(* A pair that was paid for is backed by its row from the commit on.        *)
LEMMA NextBacked ==
  IInv /\ BeganInThePast /\ TokensAreBacked /\ [Next]_vars => TokensAreBacked'
<1> SUFFICES ASSUME IInv, BeganInThePast, TokensAreBacked, [Next]_vars,
                    NEW q \in Confirms, confirm'[q].paid
             PROVE  \/ RefreshRow(confirm'[q].acct, confirm'[q].issued, RefreshTTL)
                         \in refresh_token_session'
                    \/ confirm'[q].issued + RefreshTTL < now' + Skew
  BY DEF TokensAreBacked
<1>0. /\ TInv /\ TypeOK /\ VerifiedCodesWereSaved
      /\ confirm \in [Confirms -> ConfirmRequest]
      /\ [SharedNext]_vars
  BY DEF IInv, TInv, TypeOK, SharedNext
<1>1. CASE confirm[q].paid
  <2>1. confirm[q].pc = "done"
    BY <1>0, <1>1 DEF VerifiedCodesWereSaved
  <2>2. confirm'[q] = confirm[q]
    BY <1>0, <2>1, ConfirmMoves
    DEF Found, ConfirmFind, ConfirmVerify, ConfirmDelete, ConfirmIssue,
        ConfirmCommit, GivenUp
  <2>3. /\ confirm[q].issued \in Nat /\ now \in Nat /\ now' \in Nat /\ Skew \in Nat
        /\ RefreshTTL \in Nat
    BY <1>0, NextTInv, TimesAreNatural DEF TInv, TypeOK, ConfirmRequest
  <2>4. now <= now'
    BY <1>0, TimeGoesOn
  <2>5. RefreshRow(confirm[q].acct, confirm[q].issued, RefreshTTL).expires_at
          = confirm[q].issued + RefreshTTL
    BY DEF RefreshRow
  <2> QED
    BY <1>0, <1>1, <2>2, <2>3, <2>4, <2>5, TokensLastUntilExpiry
    DEF TokensAreBacked
<1>2. CASE ~confirm[q].paid
  <2>1. ConfirmCommit(q)
    <3>1. ASSUME Found(q) PROVE confirm'[q].paid = confirm[q].paid
      BY <1>0, <3>1, FindStarts DEF Found
    <3> QED
      BY <1>0, <1>2, <3>1, ConfirmMoves, TransactionSteps DEF GivenUp
  <2>2. PICK answer \in {"tokens", "error"} :
          confirm' = [confirm EXCEPT ![q] =
             [@ EXCEPT !.pc = "done", !.valid = FALSE, !.holds = FALSE,
                       !.began = 0, !.paid = TRUE, !.answer = answer]]
    BY <2>1 DEF ConfirmCommit
  <2>3. confirm'[q].acct = confirm[q].acct /\ confirm'[q].issued = confirm[q].issued
    BY <1>0, <2>2
  <2> QED  BY <2>1, <2>3 DEF ConfirmCommit, TokensAfter
<1> QED  BY <1>1, <1>2

(* Every pair handed out by a login can be refreshed until it expires       *)
(* (token.go:172-176).                                                      *)
THEOREM PaidTokensAreBacked == Spec => []TokensAreBacked
<1>1. Init => BeganInThePast /\ TokensAreBacked
  BY DEF Init, BeganInThePast, InFlight, TokensAreBacked, NewConfirm
<1>2. IInv /\ BeganInThePast /\ [SharedNext]_vars => BeganInThePast'
  BY NextBegan DEF IInv
<1> QED
  BY <1>1, <1>2, NextBacked, AloneIsShared, InductiveInvariant, PTL
  DEF Spec, SharedSpec

-----------------------------------------------------------------------------
(* Login implements OneTimeCodes                                            *)

(* The tables without rows offer nothing, and nobody has claimed anything.  *)
LEMMA CodesInit == Init => Codes!Init
<1> SUFFICES ASSUME Init PROVE Codes!Init
  OBVIOUS
<1>1. Offered = [e \in Emails |-> NoCode]
  BY DEF Init, Offered, OfferedBy
<1>2. Drawn = {}
  BY DEF Init, Drawn, NewLogin
<1>3. Claimed = {} /\ Paid = {}
  BY DEF Init, Claimed, Paid, InTransaction, NewConfirm
<1> QED  BY <1>1, <1>2, <1>3 DEF Codes!Init

(* The steps of a Login, and those of a confirmation.                       *)
LoginMove(p) ==
  \/ \E e \in Emails : LoginStart(p, e)
  \/ LoginStep(p)
  \/ LoginFails(p)

ConfirmMove(q) ==
  \/ \E e \in Emails, code \in Logins :
       ConfirmRefused(q, e, code) \/ ConfirmFind(q, e, code)
  \/ ConfirmStep(q)
  \/ ConfirmFails(q)

(* What a Login shows of itself: it is over, with its code drawn, or not    *)
(* yet; claims and purchases are not its business.                          *)
LEMMA LoginShows ==
  ASSUME TInv, NEW p \in Logins, LoginMove(p)
  PROVE  /\ p \notin Drawn
         /\ login'[p].pc = "done" => Drawn' = Drawn \cup {p}
         /\ login'[p].pc # "done" => Drawn' = Drawn
         /\ UNCHANGED <<Claimed, Paid>>
<1>1. /\ \A o \in Logins : o # p => login'[o] = login[o]
      /\ login[p].pc # "done"
  <2>1. CASE \E e \in Emails : LoginStart(p, e)
    BY <2>1 DEF LoginStart, TInv, TypeOK
  <2>2. CASE LoginStep(p) \/ LoginFails(p)
    BY <2>2, LoginKeepsInputs DEF TInv
  <2> QED  BY <2>1, <2>2 DEF LoginMove
<1>2. UNCHANGED confirm
  BY DEF LoginMove, LoginStep, LoginStart, LoginAccount, LoginFind, LoginSave,
     LoginFails
<1>3. UNCHANGED <<Claimed, Paid>>
  BY <1>2 DEF Claimed, Paid, InTransaction, ClaimOf
<1> QED  BY <1>1, <1>3 DEF Drawn

(* A code that is saved is put on offer.                                    *)
LEMMA SavedIsOffered ==
  ASSUME NEW p \in Logins
  PROVE  /\ OfferedBy(SessionToSave(p)) \in {p, NoCode}
         /\ HashCode(p).bcrypt = p
BY HashesAreOneWay DEF OfferedBy, SessionToSave, CodeOf, HashCode

(* Each step of a Login draws its code, withdraws offers that have expired, *)
(* or shows nothing.                                                        *)
LEMMA LoginRefines ==
  ASSUME TInv, NEW p \in Logins, LoginMove(p)
  PROVE  [Codes!Next]_(Codes!vars)
<1>0. /\ p \notin Drawn
      /\ login'[p].pc = "done" => Drawn' = Drawn \cup {p}
      /\ login'[p].pc # "done" => Drawn' = Drawn
      /\ UNCHANGED <<Claimed, Paid>>
  BY LoginShows
<1>1. ASSUME NEW e \in Emails, LoginStart(p, e)
      PROVE  Codes!Next
  <2> DEFINE gone == {f \in Emails : login_session'[f] # login_session[f]}
  <2>1. \A f \in Emails : login_session'[f] \in {login_session[f], NoRow}
    BY <1>1 DEF LoginStart, CleanExpired, WithoutExpired, TInv, TypeOK
  <2>2. Offered' = [f \in Emails |-> IF f \in gone THEN NoCode ELSE Offered[f]]
    BY <2>1 DEF Offered, OfferedBy
  <2>3. login'[p].pc # "done"
    <3>1. login' = [login EXCEPT ![p] = [@ EXCEPT !.pc = "account", !.email = e]]
      BY <1>1 DEF LoginStart
    <3>2. login'[p].pc = "account"
      BY <3>1 DEF TInv, TypeOK, LoginRequest
    <3> QED  BY <3>2
  <2>4. gone \in SUBSET Emails
    OBVIOUS
  <2> HIDE DEF gone
  <2>5. Codes!Withdraw(gone)
    BY <1>0, <2>2, <2>3 DEF Codes!Withdraw
  <2> QED  BY <2>4, <2>5 DEF Codes!Next
<1>2. ASSUME UNCHANGED login_session, login'[p].pc # "done"
      PROVE  UNCHANGED Codes!vars
  BY <1>0, <1>2 DEF Codes!vars, Offered
<1>3. ASSUME NEW e \in Emails, NEW code \in {p, NoCode, Offered[e]},
             login'[p].pc = "done",
             Offered' = [Offered EXCEPT ![e] = code]
      PROVE  Codes!Next
  <2>1. Codes!Draw(e, p)
    BY <1>0, <1>3 DEF Codes!Draw
  <2> QED  BY <2>1 DEF Codes!Next
<1>4. ASSUME UNCHANGED login_session, login'[p].pc = "done", login[p].pc # "idle"
      PROVE  Codes!Next
  <2>1. login[p].email \in Emails
    BY <1>4 DEF TInv, RequestsArrived
  <2>2. Offered' = [Offered EXCEPT ![login[p].email] = Offered[login[p].email]]
    BY <1>4, <2>1 DEF Offered
  <2> QED  BY <1>3, <1>4, <2>1, <2>2
<1>5. CASE LoginSave(p)
  <2> DEFINE e == login[p].email
             code == OfferedBy(SessionToSave(p))
  <2>1. e \in Emails /\ login'[p].pc = "done"
    <3>1. PICK answer \in {"ok", "error"} : LoginAnswered(p, answer)
      BY <1>5 DEF LoginSave
    <3> QED
      BY <1>5, <3>1 DEF LoginSave, LoginAnswered, TInv, TypeOK, RequestsArrived
  <2>2. login_session' = [login_session EXCEPT ![e] = SessionToSave(p)]
    BY <1>5 DEF LoginSave
  <2>3. code \in {p, NoCode}
    BY SavedIsOffered
  <2>4. \A f \in Emails :
          login_session'[f] = IF f = e THEN SessionToSave(p) ELSE login_session[f]
    BY <2>1, <2>2 DEF TInv, TypeOK
  <2>5. Offered' = [Offered EXCEPT ![e] = code]
    <3> HIDE DEF e
    <3> QED  BY <2>1, <2>4 DEF Offered
  <2> QED  BY <1>3, <2>1, <2>3, <2>5
<1>6. CASE LoginAccount(p) \/ LoginFind(p) \/ LoginFails(p)
  <2>1. UNCHANGED login_session /\ login[p].pc # "idle"
    BY <1>6 DEF LoginAccount, LoginFind, LoginFails
  <2> QED  BY <1>2, <1>4, <2>1
<1> QED  BY <1>1, <1>5, <1>6 DEF LoginMove, LoginStep

-----------------------------------------------------------------------------
(* How the claims and the purchases follow one confirmation: a claim comes,  *)
(* stays, or goes, and goes unpaid or paid.                                  *)
LEMMA ClaimsFollowRequest ==
  ASSUME NEW q \in Confirms,
         \A o \in Confirms : o # q => confirm'[o] = confirm[o]
  PROVE  /\ InTransaction(q) /\ InTransaction(q)' /\ ClaimOf(q)' = ClaimOf(q)
              => Claimed' = Claimed
         /\ ~InTransaction(q) /\ ~InTransaction(q)' => Claimed' = Claimed
         /\ InTransaction(q) /\ ~InTransaction(q)' => Claimed' = Claimed \ {ClaimOf(q)}
         /\ ~InTransaction(q) /\ InTransaction(q)'
              => Claimed' = Claimed \cup {ClaimOf(q)'}
         /\ ~confirm[q].paid /\ ~confirm'[q].paid => Paid' = Paid
         /\ ~confirm[q].paid /\ confirm'[q].paid => Paid' = Paid \cup {ClaimOf(q)'}
<1>1. \A o \in Confirms : o # q =>
        /\ ClaimOf(o)' = ClaimOf(o)
        /\ InTransaction(o)' <=> InTransaction(o)
        /\ confirm'[o].paid = confirm[o].paid
  BY DEF ClaimOf, InTransaction
<1>2. \A o \in Confirms : ClaimOf(o) = ClaimOf(q) => o = q
  <2> SUFFICES ASSUME NEW o \in Confirms, ClaimOf(o) = ClaimOf(q) PROVE o = q
    OBVIOUS
  <2>1. ClaimOf(q).by = q /\ ClaimOf(o).by = o
    BY DEF ClaimOf
  <2> QED  BY <2>1
<1> DEFINE others == {ClaimOf(o) : o \in {c \in Confirms : c # q /\ InTransaction(c)}}
           payers == {ClaimOf(o) : o \in {c \in Confirms : c # q /\ confirm[c].paid}}
<1>3. /\ Claimed = others \cup (IF InTransaction(q) THEN {ClaimOf(q)} ELSE {})
      /\ Paid = payers \cup (IF confirm[q].paid THEN {ClaimOf(q)} ELSE {})
  BY DEF Claimed, Paid
<1>4. /\ Claimed' = others \cup (IF InTransaction(q)' THEN {ClaimOf(q)'} ELSE {})
      /\ Paid' = payers \cup (IF confirm'[q].paid THEN {ClaimOf(q)'} ELSE {})
  BY <1>1 DEF Claimed, Paid
<1>5. ClaimOf(q) \notin others
  BY <1>2
<1> HIDE DEF others, payers
<1> QED  BY <1>3, <1>4, <1>5

(* Each step of a confirmation claims with the code on offer, drops its     *)
(* claim, buys, or shows nothing.                                           *)
LEMMA ConfirmRefines ==
  ASSUME IInv, [SharedNext]_vars, NEW q \in Confirms, ConfirmMove(q)
  PROVE  [Codes!Next]_(Codes!vars)
<1>0. /\ TInv /\ TypeOK /\ VerifiedCodesWereSaved /\ HeldOrGone
      /\ confirm \in [Confirms -> ConfirmRequest]
      /\ confirm[q].paid \in BOOLEAN
  BY DEF IInv, TInv, TypeOK, ConfirmRequest
<1>1. /\ \A o \in Confirms : o # q => confirm'[o] = confirm[o]
      /\ UNCHANGED login
  BY <1>0 DEF ConfirmMove, ConfirmStep, ConfirmRefused, ConfirmFind, ConfirmVerify,
     ConfirmDelete, ConfirmSwitched, ConfirmIssue, ConfirmUnpayable,
     ConfirmCommit, ConfirmFails, ConfirmAnswered
<1>2. UNCHANGED Drawn
  BY <1>1 DEF Drawn
<1>3. ~ConfirmCommit(q) => UNCHANGED Offered
  BY DEF ConfirmMove, ConfirmStep, ConfirmRefused, ConfirmFind, ConfirmVerify,
     ConfirmDelete, ConfirmSwitched, ConfirmIssue, ConfirmUnpayable,
     ConfirmFails, Offered
<1>4. ConfirmCommit(q) \/ confirm[q].pc = "done" \/ ~confirm[q].paid
  BY <1>0 DEF VerifiedCodesWereSaved
<1>5. CASE Found(q)
  <2>1. PICK e \in Emails, code \in Logins : ConfirmFind(q, e, code)
    BY <1>5 DEF Found
  <2>2. /\ confirm[q].pc = "idle" /\ confirm'[q].pc = "verify"
        /\ confirm'[q].paid = confirm[q].paid
        /\ ClaimOf(q)' = [by |-> q, email |-> e, code |-> code]
    BY <1>0, <2>1, FindStarts DEF ClaimOf
  <2>3. Claimed' = Claimed \cup {[by |-> q, email |-> e, code |-> code]}
    BY <1>1, <2>2, ClaimsFollowRequest DEF InTransaction
  <2>4. Paid' = Paid
    BY <1>0, <1>1, <2>2, ClaimsFollowRequest DEF VerifiedCodesWereSaved
  <2>5. Offered[e] = code
    <3>1. login_session[e] # NoRow /\ login_session[e].code = HashCode(code)
      BY <2>1 DEF ConfirmFind, Refusal, VerifyCode
    <3> QED  BY <3>1, HashesAreOneWay, SavedIsOffered DEF Offered, OfferedBy
  <2>6. UNCHANGED Offered
    BY <2>1 DEF ConfirmFind, Offered
  <2>7. Codes!Claim(q, e)
    BY <1>2, <2>3, <2>4, <2>5, <2>6, NoCodeIsDrawn DEF Codes!Claim, Codes!Taken
  <2> QED  BY <2>7 DEF Codes!Next
<1>6. CASE ConfirmVerify(q) \/ ConfirmDelete(q) \/ ConfirmIssue(q)
  <2>1. /\ InFlight(q)
        /\ confirm'[q].email = confirm[q].email
        /\ confirm'[q].code = confirm[q].code
    BY <1>0, <1>6, ConfirmKeepsInputs DEF ConfirmStep
  <2>2. /\ confirm'[q].pc \in {"delete", "issue", "commit"}
        /\ confirm'[q].paid = confirm[q].paid
    BY <1>0, <1>6, TransactionSteps
  <2>3. ~confirm[q].paid
    BY <1>0, <2>1 DEF VerifiedCodesWereSaved, InFlight
  <2>4. Claimed' = Claimed /\ Paid' = Paid
    BY <1>1, <2>1, <2>2, <2>3, ClaimsFollowRequest
    DEF InTransaction, InFlight, ClaimOf
  <2>5. UNCHANGED Offered
    BY <1>6 DEF ConfirmVerify, ConfirmDelete, ConfirmIssue, Offered
  <2> QED  BY <1>2, <2>4, <2>5 DEF Codes!vars
<1>7. CASE ConfirmCommit(q)
  <2> DEFINE e == confirm[q].email
             c == confirm[q].code
  <2>1. /\ InFlight(q) /\ confirm[q].pc = "commit" /\ e \in Emails /\ c \in Logins
        /\ ~confirm[q].paid
        /\ confirm'[q].pc = "done" /\ confirm'[q].paid
        /\ ClaimOf(q)' = ClaimOf(q)
    <3>1. /\ InFlight(q) /\ confirm[q].pc = "commit"
          /\ ClaimOf(q)' = ClaimOf(q)
      BY <1>0, <1>7, ConfirmKeepsInputs DEF ConfirmStep, ConfirmCommit, ClaimOf
    <3>2. e \in Emails /\ c \in Logins /\ ~confirm[q].paid
      BY <1>0, <3>1 DEF TInv, RequestsArrived, VerifiedCodesWereSaved
    <3> QED  BY <1>0, <1>7, <3>1, <3>2, CommitEnds
  <2>2. /\ Claimed' = Claimed \ {ClaimOf(q)}
        /\ Paid' = Paid \cup {ClaimOf(q)}
        /\ ClaimOf(q) \in Claimed
    BY <1>1, <2>1, ClaimsFollowRequest DEF InTransaction, InFlight, Claimed
  <2>3. ClaimOf(q).email = e /\ ClaimOf(q).code = c
    BY DEF ClaimOf
  <2>4. login_session' = SessionsAfter(q)
    BY <1>7 DEF ConfirmCommit
  <2>5. CASE confirm[q].holds
    <3>1. \A f \in Emails :
            login_session'[f] = IF f = e THEN NoRow ELSE login_session[f]
      BY <1>0, <2>1, <2>4, <2>5 DEF SessionsAfter, TypeOK
    <3>2. Offered' = [Offered EXCEPT ![e] = NoCode]
      <4> HIDE DEF e
      <4> QED  BY <2>1, <3>1 DEF Offered, OfferedBy
    <3>3. NoCode \in Codes!OfferAfter(ClaimOf(q))
      BY DEF Codes!OfferAfter
    <3>4. Codes!Buy(ClaimOf(q))
      <4> HIDE DEF e, c
      <4> QED
        BY <1>2, <2>2, <2>3, <3>2, <3>3 DEF Codes!Buy, Codes!Voided
    <3> QED  BY <2>2, <3>4 DEF Codes!Next
  <2>6. CASE ~confirm[q].holds
    <3>1. login_session' = login_session
      BY <2>4, <2>6 DEF SessionsAfter
    <3>2. Offered[e] # c
      <4>1. CASE login_session[e] = NoRow
        BY <2>1, <4>1, NoCodeIsDrawn DEF Offered, OfferedBy
      <4>2. CASE login_session[e] # NoRow
        <5>1. login_session[e].code # HashCode(c)
          BY <1>0, <2>1, <2>6, <4>2 DEF HeldOrGone, Stored, VerifyCode
        <5>2. login_session[e].code \in Hashes \cup {NoCode}
          BY <1>0, <2>1, <4>2 DEF TypeOK, LoginSession
        <5>3. CASE login_session[e].code = NoCode
          BY <2>1, <4>2, <5>3, NoCodeIsDrawn DEF Offered, OfferedBy
        <5>4. ASSUME NEW p \in Logins, login_session[e].code = HashCode(p)
              PROVE  Offered[e] # c
          <6>1. p # c
            BY <5>1, <5>4
          <6>2. Offered[e] = p
            BY <2>1, <4>2, <5>4, HashesAreOneWay, SavedIsOffered
            DEF Offered, OfferedBy
          <6> QED  BY <6>1, <6>2
        <5> QED  BY <5>2, <5>3, <5>4 DEF Hashes
      <4> QED  BY <4>1, <4>2
    <3>3. Offered' = [Offered EXCEPT ![e] = Offered[e]]
      BY <2>1, <3>1 DEF Offered
    <3>4. Offered[e] \in Codes!OfferAfter(ClaimOf(q))
      <4> HIDE DEF e, c
      <4> QED  BY <2>3, <3>2 DEF Codes!OfferAfter
    <3>5. Codes!Buy(ClaimOf(q))
      <4> HIDE DEF e, c
      <4> QED
        BY <1>2, <2>2, <2>3, <3>3, <3>4 DEF Codes!Buy, Codes!Voided
    <3> QED  BY <2>2, <3>5 DEF Codes!Next
  <2> QED  BY <2>5, <2>6
<1>8. CASE GivenUp(q) /\ ~ConfirmCommit(q)
  <2>1. /\ ~confirm[q].paid /\ ~confirm'[q].paid
        /\ ~InTransaction(q)'
    BY <1>0, <1>8 DEF GivenUp, VerifiedCodesWereSaved, InTransaction
  <2>2. Paid' = Paid
    BY <1>1, <2>1, ClaimsFollowRequest
  <2>3. CASE InTransaction(q)
    <3>1. Claimed' = Claimed \ {ClaimOf(q)} /\ ClaimOf(q) \in Claimed
      BY <1>1, <2>1, <2>3, ClaimsFollowRequest DEF Claimed
    <3>2. Codes!Drop(ClaimOf(q))
      BY <1>2, <1>3, <1>8, <2>2, <3>1 DEF Codes!Drop
    <3> QED  BY <3>1, <3>2 DEF Codes!Next
  <2>4. CASE ~InTransaction(q)
    <3>1. Claimed' = Claimed
      BY <1>1, <2>1, <2>4, ClaimsFollowRequest
    <3> QED  BY <1>2, <1>3, <1>8, <2>2, <3>1 DEF Codes!vars
  <2> QED  BY <2>3, <2>4
<1>9. CASE confirm'[q] = confirm[q] /\ ~ConfirmCommit(q)
  <2>1. \A o \in Confirms : confirm'[o] = confirm[o]
    BY <1>1, <1>9
  <2>2. Claimed' = Claimed /\ Paid' = Paid
    BY <2>1 DEF Claimed, Paid, ClaimOf, InTransaction
  <2> QED  BY <1>2, <1>3, <1>9, <2>2 DEF Codes!vars
<1> QED  BY <1>0, <1>5, <1>6, <1>7, <1>8, <1>9, ConfirmMoves

(* Login implements OneTimeCodes: whatever races, failures, rollbacks and   *)
(* account switches do, only the code on offer gives a claim, only a claim  *)
(* buys, and the purchase ends the offer (login.go:74-122, 183-234;         *)
(* authenticate_user.go:29-50).                                             *)
THEOREM LoginImplementsOneTimeCodes == SharedSpec => CodesAreOffered
<1>1. IInv /\ [SharedNext]_vars => [Codes!Next]_(Codes!vars)
  <2> SUFFICES ASSUME IInv, [SharedNext]_vars PROVE [Codes!Next]_(Codes!vars)
    OBVIOUS
  <2>1. TInv
    BY DEF IInv
  <2>2. ASSUME UNCHANGED <<login_session, login, confirm>>
        PROVE  UNCHANGED Codes!vars
    BY <2>2 DEF Codes!vars, Offered, Drawn, Claimed, Paid, InTransaction, ClaimOf
  <2>3. ASSUME \/ \E e \in Emails :
                    \/ \E a \in Accounts : CreateAccount(e, a)
                    \/ LeaveEmail(e)
               \/ Tick \/ Terminating \/ UNCHANGED vars
        PROVE  UNCHANGED <<login_session, login, confirm>>
    BY <2>3 DEF CreateAccount, LeaveEmail, Tick, Terminating, vars
  <2> QED
    BY <2>1, <2>2, <2>3, LoginRefines, ConfirmRefines
    DEF SharedNext, TokensRefreshed, Next, Requests, LoginMove, ConfirmMove
<1> QED
  BY <1>1, CodesInit, InductiveInvariant, PTL
  DEF SharedSpec, CodesAreOffered, Codes!Spec
=============================================================================
