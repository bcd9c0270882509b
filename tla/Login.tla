------------------------------- MODULE Login -------------------------------
(***************************************************************************)
(* Passwordless login of authMicro: LoginService.Login, the use case        *)
(* AuthenticateUser.Execute (LoginService.ConfirmLogin followed by          *)
(* TokenService.CreateTokens in one database transaction), the table        *)
(* login_session they race on and the table refresh_token_session they      *)
(* fill.                                                                    *)
(*                                                                         *)
(* An HTTP request is one process.  Each statement sent to Postgres and     *)
(* each call to userMicro is one step, since any other request can run      *)
(* between two of them.  The transaction of Execute runs at READ COMMITTED: *)
(* its reads see what is committed, its writes are seen by nobody before    *)
(* Commit, and the row it deleted stays locked until then.                  *)
(*                                                                         *)
(* The code a Login generates is named by the request that generated it:    *)
(* codes are drawn at random, and two equal draws are left out.             *)
(***************************************************************************)
EXTENDS Credentials

CONSTANTS
  Emails,      \* e-mail addresses that pass the validation of the requests
  Accounts,    \* account ids (UUIDs drawn by the account table)
  Logins,      \* requests POST /login; each is also the code it generates
  Confirms,    \* requests POST /login/confirmEmail
  CodeTTL,     \* CodeGenConfig.CodeTTL, in seconds
  RefreshTTL,  \* refreshTokenTTL, in seconds
  Skew,        \* how far the clock of the database may be from authMicro's
  MaxTime,     \* bound: the clock stops here
  NoAccount,   \* the nil account id
  NoEmail,     \* the e-mail of a request that has not arrived
  NoCode,      \* the empty string in the column code
  NoRow        \* what FindByEmail returns when there is no row

Ids == Accounts \cup {NoAccount}

Hashes == {HashCode(p) : p \in Logins}

(* A row of login_session (entity.LoginSession), keyed by its e-mail. *)
LoginSession ==
  [account_id : Ids, code : Hashes \cup {NoCode}, code_expires : Nat]

ASSUME TimesAreNatural ==
  CodeTTL \in Nat /\ RefreshTTL \in Nat /\ Skew \in Nat /\ MaxTime \in Nat

ASSUME SentinelsAreDistinct ==
  /\ NoAccount \notin Accounts
  /\ NoEmail \notin Emails
  /\ NoCode \notin Hashes
  /\ NoRow \notin LoginSession

VARIABLES
  now,                    \* the clock of authMicro
  account_of,             \* userMicro: the account an e-mail belongs to
  account_state,          \* userMicro: "unborn", "present" or "removed"
  login_session,          \* authMicro: e-mail -> row or NoRow
  refresh_token_session,  \* authMicro: the set of rows
  login,                  \* the state of each POST /login
  confirm                 \* the state of each POST /login/confirmEmail

vars == <<now, account_of, account_state, login_session,
          refresh_token_session, login, confirm>>

users == <<account_of, account_state>>

-----------------------------------------------------------------------------
(* The two kinds of request.                                                *)
(*   acct     the account id the request works with                         *)
(*   seen     the row createOrUpdateSession found                           *)
(*   expires  the expiry it computed for the row it is about to save        *)
(*   valid    accountStillValid                                             *)
(*   holds    the transaction deleted a row, and so keeps it locked         *)
(*   began    the instant the transaction started, which NOW() is inside it *)
(*   issued   the instant in the claims of the tokens                       *)
(* and two facts no line of the code stores, kept to state properties:      *)
(*   stale    the row found belonged to an account that had already lost    *)
(*            the e-mail                                                    *)
(*   paid     the transaction committed: the code bought a pair of tokens   *)

LoginRequest ==
  [pc : {"idle", "account", "find", "save", "done"},
   email : Emails \cup {NoEmail},
   acct : Ids,
   seen : LoginSession \cup {NoRow},
   expires : Nat,
   answer : {"none", "ok", "error"}]

ConfirmRequest ==
  [pc : {"idle", "verify", "delete", "issue", "commit", "done"},
   email : Emails \cup {NoEmail},
   code : Logins \cup {NoCode},
   acct : Ids,
   valid : BOOLEAN,
   holds : BOOLEAN,
   began : Nat,
   issued : Nat,
   stale : BOOLEAN,
   paid : BOOLEAN,
   answer : {"none", "tokens", "invalidCode", "codeExpired", "error"}]

NewLogin ==
  [pc |-> "idle", email |-> NoEmail, acct |-> NoAccount, seen |-> NoRow,
   expires |-> 0, answer |-> "none"]

NewConfirm ==
  [pc |-> "idle", email |-> NoEmail, code |-> NoCode, acct |-> NoAccount,
   valid |-> FALSE, holds |-> FALSE, began |-> 0, issued |-> 0,
   stale |-> FALSE, paid |-> FALSE, answer |-> "none"]

TypeOK ==
  /\ now \in Nat
  /\ account_of \in [Emails -> Ids]
  /\ account_state \in [Accounts -> {"unborn", "present", "removed"}]
  /\ login_session \in [Emails -> LoginSession \cup {NoRow}]
  /\ refresh_token_session \subseteq RefreshRows(Accounts)
  /\ login \in [Logins -> LoginRequest]
  /\ confirm \in [Confirms -> ConfirmRequest]

(* The service starts on empty tables. *)
Init ==
  /\ now = 0
  /\ account_of = [e \in Emails |-> NoAccount]
  /\ account_state = [a \in Accounts |-> "unborn"]
  /\ login_session = [e \in Emails |-> NoRow]
  /\ refresh_token_session = {}
  /\ login = [p \in Logins |-> NewLogin]
  /\ confirm = [q \in Confirms |-> NewConfirm]

(* A request is answered: the locals no property reads are forgotten. *)
LoginAnswered(p, answer) ==
  login' = [login EXCEPT ![p] =
              [@ EXCEPT !.pc = "done", !.seen = NoRow, !.expires = 0,
                        !.answer = answer]]

ConfirmAnswered(q, answer) ==
  confirm' = [confirm EXCEPT ![q] =
                [@ EXCEPT !.pc = "done", !.valid = FALSE, !.holds = FALSE,
                          !.began = 0, !.answer = answer]]

-----------------------------------------------------------------------------
(* The row lock and the clean-up of login_session. *)

LockedBySwitched(e) ==  \* mutant: an account switch ends without a rollback
  \E q \in Confirms :
    /\ confirm[q].email = e
    /\ \/ confirm[q].pc \in {"issue", "commit"} /\ confirm[q].holds
       \/ confirm[q].answer = "invalidCode" /\ confirm[q].acct # NoAccount

(* The row of e was deleted by a transaction that has not ended: every      *)
(* statement that writes the row waits.                                     *)
Locked(e) ==
  \E q \in Confirms : /\ confirm[q].pc \in {"issue", "commit"}
                      /\ confirm[q].email = e
                      /\ confirm[q].holds

ExpiredAtTheSecond(row, instant) == row.code_expires <= instant  \* mutant

Expired(row, instant) == Before(row.code_expires, instant)

Stored(e) == login_session[e] # NoRow

(* The rows "DELETE ... WHERE code_expires < NOW()" matches. *)
StoredExpired(e, db) == Stored(e) /\ Expired(login_session[e], db)

WithoutExpired(db) ==
  [e \in Emails |-> IF StoredExpired(e, db) THEN NoRow ELSE login_session[e]]

(* cleanupExpiredSessions logs an error of the DELETE and goes on. *)
CleanExpired ==
  \/ \E db \in DatabaseClock(now, Skew) :
       /\ \A e \in Emails : StoredExpired(e, db) => ~Locked(e)
       /\ login_session' = WithoutExpired(db)
  \/ UNCHANGED login_session

-----------------------------------------------------------------------------
(* LoginService.Login *)

LoginStart(p, e) ==
  /\ login[p].pc = "idle"
  /\ CleanExpired
  /\ login' = [login EXCEPT ![p] = [@ EXCEPT !.pc = "account", !.email = e]]
  /\ UNCHANGED <<now, users, refresh_token_session, confirm>>

(* GetAccountByEmail answers; no account leaves accountId nil. *)
LoginAccount(p) ==
  /\ login[p].pc = "account"
  /\ login' = [login EXCEPT ![p] =
                 [@ EXCEPT !.pc = "find", !.acct = account_of[login[p].email]]]
  /\ UNCHANGED <<now, users, login_session, refresh_token_session, confirm>>

CodeInTheClear(p) ==  \* mutant: the code is stored as it was generated
  IF login[p].acct = NoAccount THEN NoCode ELSE p

(* A code is generated, and hashed, only for an e-mail with an account. *)
CodeOf(p) == IF login[p].acct = NoAccount THEN NoCode ELSE HashCode(p)

SaveAlways(row, accountId) == TRUE  \* mutant: a live row is renewed too

SaveWhenExpired(row, accountId) ==  \* mutant: whose row it is does not matter
  row # NoRow => Expired(row, now)

(* createOrUpdateSession saves unless it found a live row of this account. *)
MustSave(row, accountId) ==
  row # NoRow => Expired(row, now) \/ row.account_id # accountId

(* FindByEmail, the decision, and the expiry of the row to be saved. *)
LoginFind(p) ==
  LET row == login_session[login[p].email]
  IN /\ login[p].pc = "find"
     /\ \/ /\ MustSave(row, login[p].acct)
           /\ login' = [login EXCEPT ![p] =
                          [@ EXCEPT !.pc = "save", !.seen = row,
                                    !.expires = now + CodeTTL]]
        \/ /\ ~MustSave(row, login[p].acct)
           /\ LoginAnswered(p, "ok")
     /\ UNCHANGED <<now, users, login_session, refresh_token_session, confirm>>

SessionOfSeenAccount(p) ==  \* mutant: a renewed row keeps its account_id
  [account_id |-> IF login[p].seen = NoRow THEN login[p].acct
                  ELSE login[p].seen.account_id,
   code |-> CodeOf(p), code_expires |-> login[p].expires]

(* The row sent to Save: a found row is changed in place, and every column  *)
(* that Save writes has been given a new value.                             *)
SessionToSave(p) ==
  [account_id |-> login[p].acct, code |-> CodeOf(p),
   code_expires |-> login[p].expires]

(* The upsert of Save; it waits for the lock of a deleted row.  The code is *)
(* handed over (logged) after Save returns.  The answer is an error when    *)
(* the row was written but the caller did not learn of it.                  *)
LoginSave(p) ==
  LET e == login[p].email
  IN /\ login[p].pc = "save"
     /\ ~Locked(e)
     /\ login_session' = [login_session EXCEPT ![e] = SessionToSave(p)]
     /\ \E answer \in {"ok", "error"} : LoginAnswered(p, answer)
     /\ UNCHANGED <<now, users, refresh_token_session, confirm>>

(* A call of userMicro, bcrypt, a statement or the process fails, or the    *)
(* client goes away, which cancels the context of the request.              *)
LoginFails(p) ==
  /\ login[p].pc \in {"account", "find", "save"}
  /\ LoginAnswered(p, "error")
  /\ UNCHANGED <<now, users, login_session, refresh_token_session, confirm>>

-----------------------------------------------------------------------------
(* AuthenticateUser.Execute: ConfirmLogin, then CreateTokens *)

RefusalOfAbsent(row, code) ==  \* mutant: the code is not compared
  IF row = NoRow THEN "invalidCode"
  ELSE IF Expired(row, now) THEN "codeExpired"
  ELSE IF row.account_id # NoAccount THEN "none"
  ELSE "invalidCode"

(* What ConfirmLogin says of the row it found and the code submitted. *)
Refusal(row, code) ==
  IF row = NoRow THEN "invalidCode"
  ELSE IF Expired(row, now) THEN "codeExpired"
  ELSE IF VerifyCode(row.code, code) /\ row.account_id # NoAccount THEN "none"
  ELSE "invalidCode"

(* BEGIN and FindByEmail; the request is refused and rolled back ... *)
ConfirmRefused(q, e, code) ==
  LET answer == Refusal(login_session[e], code)
  IN /\ confirm[q].pc = "idle"
     /\ answer # "none"
     /\ confirm' = [confirm EXCEPT ![q] =
                      [@ EXCEPT !.pc = "done", !.email = e, !.answer = answer]]
     /\ UNCHANGED <<now, users, login_session, refresh_token_session, login>>

(* ... or the code is right. *)
ConfirmFind(q, e, code) ==
  LET row == login_session[e]
  IN /\ confirm[q].pc = "idle"
     /\ Refusal(row, code) = "none"
     /\ confirm' = [confirm EXCEPT ![q] =
                      [@ EXCEPT !.pc = "verify", !.email = e, !.code = code,
                                !.acct = row.account_id, !.began = now,
                                !.stale = row.account_id # account_of[e]]]
     /\ UNCHANGED <<now, users, login_session, refresh_token_session, login>>

SomeAccount(q) == account_of[confirm[q].email] # NoAccount  \* mutant

(* verifyAccountStillValid; ConfirmLogin drops its error and keeps FALSE. *)
AccountStillValid(q) == account_of[confirm[q].email] = confirm[q].acct

ConfirmVerify(q) ==
  /\ confirm[q].pc = "verify"
  /\ \E valid \in {AccountStillValid(q), FALSE} :
       confirm' = [confirm EXCEPT ![q] =
                     [@ EXCEPT !.pc = "delete", !.valid = valid]]
  /\ UNCHANGED <<now, users, login_session, refresh_token_session, login>>

(* DeleteByEmail inside the transaction: it waits for the row lock, and     *)
(* takes it when there is a row; nobody reads how many rows it deleted.     *)
ConfirmDelete(q) ==
  /\ confirm[q].pc = "delete"
  /\ ~Locked(confirm[q].email)
  /\ confirm[q].valid
  /\ confirm' = [confirm EXCEPT ![q] =
                   [@ EXCEPT !.pc = "issue", !.holds = Stored(confirm[q].email)]]
  /\ UNCHANGED <<now, users, login_session, refresh_token_session, login>>

(* The account switch answers an error, which rolls the DELETE back. *)
ConfirmSwitched(q) ==
  /\ confirm[q].pc = "delete"
  /\ ~Locked(confirm[q].email)
  /\ ~confirm[q].valid
  /\ ConfirmAnswered(q, "invalidCode")
  /\ UNCHANGED <<now, users, login_session, refresh_token_session, login>>

(* CreateTokens up to its INSERT: the clean-up, GetAccessTokenPayload       *)
(* (which fails for an account that is gone) and the signing of the pair.   *)
ConfirmIssue(q) ==
  /\ confirm[q].pc = "issue"
  /\ account_state[confirm[q].acct] = "present"
  /\ confirm' = [confirm EXCEPT ![q] =
                   [@ EXCEPT !.pc = "commit", !.issued = now]]
  /\ UNCHANGED <<now, users, login_session, refresh_token_session, login>>

ConfirmUnpayable(q) ==
  /\ confirm[q].pc = "issue"
  /\ account_state[confirm[q].acct] # "present"
  /\ ConfirmAnswered(q, "error")
  /\ UNCHANGED <<now, users, login_session, refresh_token_session, login>>

TokensOnePerAccount(q, db) ==  \* mutant: an account keeps its last token only
  {r \in refresh_token_session : r.account_id # confirm[q].acct}
    \cup {RefreshRow(confirm[q].acct, confirm[q].issued, RefreshTTL)}

(* The token table after a transaction: it cleaned up as of the instant it  *)
(* began, by the clock of the database, and inserted one row.               *)
TokensAfter(q, db) ==
  UnexpiredTokens(refresh_token_session, db)
    \cup {RefreshRow(confirm[q].acct, confirm[q].issued, RefreshTTL)}

SessionsUntouched(q) == login_session  \* mutant: nothing is deleted

(* login_session after a transaction that deleted its row, if it did. *)
SessionsAfter(q) ==
  IF confirm[q].holds
  THEN [login_session EXCEPT ![confirm[q].email] = NoRow]
  ELSE login_session

(* COMMIT makes the DELETE and the INSERT visible at once.  The answer is   *)
(* an error when the commit went through but the caller did not learn.      *)
ConfirmCommit(q) ==
  /\ confirm[q].pc = "commit"
  /\ login_session' = SessionsAfter(q)
  /\ \E db \in DatabaseClock(confirm[q].began, Skew) :
       refresh_token_session' = TokensAfter(q, db)
  /\ \E answer \in {"tokens", "error"} :
       confirm' = [confirm EXCEPT ![q] =
                     [@ EXCEPT !.pc = "done", !.valid = FALSE, !.holds = FALSE,
                               !.began = 0, !.paid = TRUE, !.answer = answer]]
  /\ UNCHANGED <<now, users, login>>

ConfirmFailsAfterInsert(q) ==  \* mutant: the INSERT is not in the transaction
  /\ confirm[q].pc \in {"verify", "delete", "issue", "commit"}
  /\ ConfirmAnswered(q, "error")
  /\ refresh_token_session' =
       IF confirm[q].pc = "commit" THEN TokensAfter(q, now) ELSE refresh_token_session
  /\ UNCHANGED <<now, users, login_session, login>>

(* Anything fails before the commit (userMicro, a statement, the process,   *)
(* the client): the transaction is rolled back and its lock is released.    *)
ConfirmFails(q) ==
  /\ confirm[q].pc \in {"verify", "delete", "issue", "commit"}
  /\ ConfirmAnswered(q, "error")
  /\ UNCHANGED <<now, users, login_session, refresh_token_session, login>>

-----------------------------------------------------------------------------
(* The environment: userMicro's account table, and time *)

(* AccountRepository.CreateAccount: a new id, and an e-mail nobody has (the *)
(* unique index).                                                           *)
CreateAccount(e, a) ==
  /\ account_of[e] = NoAccount
  /\ account_state[a] = "unborn"
  /\ account_of' = [account_of EXCEPT ![e] = a]
  /\ account_state' = [account_state EXCEPT ![a] = "present"]
  /\ UNCHANGED <<now, login_session, refresh_token_session, login, confirm>>

(* Login and ConfirmLogin expect an e-mail to change hands.  userMicro has  *)
(* no operation for it yet, so this is the least it would do: the account   *)
(* leaves the e-mail for good, and is removed or kept.                      *)
LeaveEmail(e) ==
  LET a == account_of[e]
  IN /\ a # NoAccount
     /\ account_of' = [account_of EXCEPT ![e] = NoAccount]
     /\ \E state \in {"present", "removed"} :
          account_state' = [account_state EXCEPT ![a] = state]
     /\ UNCHANGED <<now, login_session, refresh_token_session, login, confirm>>

Tick ==
  /\ now < MaxTime
  /\ now' = now + 1
  /\ UNCHANGED <<users, login_session, refresh_token_session, login, confirm>>

(* The instance is over when every request it was given is answered. *)
Terminating ==
  /\ \A p \in Logins : login[p].pc = "done"
  /\ \A q \in Confirms : confirm[q].pc = "done"
  /\ UNCHANGED vars

(* What a request that has arrived does next when nothing fails. *)
LoginStep(p) == LoginAccount(p) \/ LoginFind(p) \/ LoginSave(p)

ConfirmStep(q) ==
  \/ ConfirmVerify(q) \/ ConfirmDelete(q) \/ ConfirmSwitched(q)
  \/ ConfirmIssue(q) \/ ConfirmUnpayable(q) \/ ConfirmCommit(q)

Requests ==
  \/ \E p \in Logins :
       \/ \E e \in Emails : LoginStart(p, e)
       \/ LoginStep(p)
       \/ LoginFails(p)
  \/ \E q \in Confirms :
       \/ \E e \in Emails, code \in Logins :
            ConfirmRefused(q, e, code) \/ ConfirmFind(q, e, code)
       \/ ConfirmStep(q)
       \/ ConfirmFails(q)

Next ==
  \/ Requests
  \/ \E e \in Emails :
       \/ \E a \in Accounts : CreateAccount(e, a)
       \/ LeaveEmail(e)
  \/ Tick
  \/ Terminating

Spec == Init /\ [][Next]_vars

(* RefreshTokens of other requests: it fills and cleans the same table of    *)
(* tokens, and touches nothing else of a login.                              *)
TokensRefreshed ==
  /\ refresh_token_session' \subseteq RefreshRows(Accounts)
  /\ UNCHANGED <<now, users, login_session, login, confirm>>

SharedNext == Next \/ TokensRefreshed

(* Login beside the refreshes, as it is in AuthSystem. *)
SharedSpec == Init /\ [][SharedNext]_vars

-----------------------------------------------------------------------------
(* Safety *)

(* A row with a code belongs to the account the code was generated for, sits *)
(* under the e-mail that request named, and was saved by it; a row without a  *)
(* code belongs to nobody.  Saves race with each other and with account       *)
(* switches, and a renewed row must not mix two requests (login.go:91-110).   *)
SessionMatchesLogin ==
  \A e \in Emails : Stored(e) =>
    LET row == login_session[e]
    IN \/ row.code = NoCode /\ row.account_id = NoAccount
       \/ \E p \in Logins : /\ row.code = HashCode(p)
                            /\ row.account_id = login[p].acct
                            /\ row.account_id # NoAccount
                            /\ login[p].email = e
                            /\ login[p].pc = "done"

(* Once a code has bought a pair of tokens no row verifies it any more: not   *)
(* the row of a Login that was already under way, not a row whose DELETE was  *)
(* rolled back, not a row saved while the transaction ran.  A confirmation    *)
(* that BEGINS after the purchase is refused (login.go:222).                  *)
SpentCodesAreGone ==
  \A q \in Confirms : confirm[q].paid =>
    \A e \in Emails :
      Stored(e) => ~VerifyCode(login_session[e].code, confirm[q].code)

(* The pair a code buys is for the account and the e-mail the code was        *)
(* generated for, whatever happened to the e-mail in between.                 *)
CodesPayTheirOwner ==
  \A q \in Confirms : confirm[q].paid =>
    LET p == confirm[q].code
    IN /\ p \in Logins
       /\ confirm[q].acct = login[p].acct
       /\ confirm[q].email = login[p].email

(* A code whose account had lost the e-mail before the code was submitted     *)
(* buys nothing, although its row is still live (login.go:61-72, 220-230).    *)
StaleCodesBuyNothing ==
  \A q \in Confirms : confirm[q].stale => ~confirm[q].paid

(* Every pair handed out can be refreshed until it expires: its row was       *)
(* committed with it, and no clean-up of another transaction, which looks at  *)
(* the database's clock as of its own beginning, takes it away before that    *)
(* clock may have reached the expiry (token.go:172-176).                      *)
TokensAreBacked ==
  \A q \in Confirms : confirm[q].paid =>
    \/ RefreshRow(confirm[q].acct, confirm[q].issued, RefreshTTL)
         \in refresh_token_session
    \/ confirm[q].issued + RefreshTTL < now + Skew

(* The row of e holds a code that can still be confirmed, by either clock. *)
Live(e) ==
  /\ Stored(e)
  /\ login_session[e].code # NoCode
  /\ login_session[e].code_expires >= now + Skew

(* A live code disappears only in the step in which a code of its e-mail buys *)
(* a pair: no clean-up, no rolled back transaction and no refused request     *)
(* takes it (login.go:55-59, 222-230; authenticate_user.go:32-44).            *)
LiveCodesVanishWhenSpent ==
  [][\A e \in Emails :
       Live(e) /\ login_session'[e] = NoRow =>
         \E q \in Confirms : /\ confirm[q].email = e
                             /\ ~confirm[q].paid
                             /\ confirm'[q].paid]_vars

(* A live code is replaced only by a Login for another account, or by one     *)
(* that read the table before the code was there: asking again does not       *)
(* invalidate the code already sent (login.go:99-109).                        *)
OnlyRacesReplaceLiveCodes ==
  [][\A e \in Emails :
       Live(e) /\ login_session'[e] \notin {login_session[e], NoRow} =>
         \E p \in Logins : /\ login[p].pc = "save"
                           /\ login'[p].pc = "done"
                           /\ login[p].email = e
                           /\ \/ login[p].seen # login_session[e]
                              \/ login[p].acct # login_session[e].account_id]_vars

(* A Login that succeeds for an account leaves a code of that account behind, *)
(* its own or an earlier one: what an earlier Login saved while nobody had    *)
(* the e-mail, or for an account that has lost it since, is not taken for the *)
(* session of the account although it is live (login.go:99-109).              *)
SuccessLeavesACode ==
  [][\A p \in Logins :
       /\ login[p].acct # NoAccount
       /\ login[p].pc # "done" /\ login'[p].pc = "done" /\ login'[p].answer = "ok"
       => LET row == login_session'[login[p].email]
          IN /\ row.account_id = login[p].acct
             /\ \E s \in Logins : row.code = HashCode(s)]_vars

(* Liveness is a matter of all requests together and stated in AuthSystem:    *)
(* here is who of a login is waiting for an answer.                           *)
Quiet ==
  /\ \A p \in Logins : login[p].pc \in {"idle", "done"}
  /\ \A q \in Confirms : confirm[q].pc \in {"idle", "done"}

-----------------------------------------------------------------------------
(* What the documents say and the code does not do *)

(* "Authentication (by one-time codes sent to the e-mail)", docs/ТЗ_Auth.md.  *)
(* A code buys at most one pair.                                              *)
CodesAreOneTime ==
  \A q1, q2 \in Confirms :
    /\ confirm[q1].paid /\ confirm[q2].paid
    /\ confirm[q1].code = confirm[q2].code
    => q1 = q2

=============================================================================
