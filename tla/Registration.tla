---------------------------- MODULE Registration ----------------------------
(***************************************************************************)
(* Registration: RegistrationService.Register and ConfirmRegistration of    *)
(* authMicro, the table registration_session they race on, and              *)
(* AccountService.CreateAccount of userMicro, which ConfirmRegistration     *)
(* calls between its two statements.                                        *)
(*                                                                         *)
(* Nothing here is transactional: every statement commits by itself, and a  *)
(* confirmation that ends after the account was created and before the row  *)
(* was deleted leaves the row.  A call of userMicro whose caller has gone    *)
(* may still be carried out.                                                *)
(*                                                                         *)
(* As in Login, the code a request generates is named by that request; and  *)
(* the account a call creates is named by the confirmation that called.     *)
(***************************************************************************)
EXTENDS Credentials

CONSTANTS
  Emails,     \* e-mails in user data that pass ValidateAccountData
  Registers,  \* requests POST /registration; each is also its code
  Confirms,   \* requests POST /registration/confirmEmail
  CodeTTL,    \* CodeGenConfig.CodeTTL, in seconds
  Skew,       \* how far the clock of the database may be from authMicro's
  MaxTime,    \* bound: the clock stops here
  NoAccount,  \* no account has the e-mail
  NoEmail,    \* the e-mail of a request that has not arrived
  NoCode,     \* the empty string in the column code
  NoRow       \* what FindByEmail returns when there is no row

Hashes == {HashCode(p) : p \in Registers}

(* A row of registration_session, keyed by its e-mail. *)
RegistrationSession == [code : Hashes \cup {NoCode}, code_expires : Nat]

ASSUME TimesAreNatural == CodeTTL \in Nat /\ Skew \in Nat /\ MaxTime \in Nat

ASSUME SentinelsAreDistinct ==
  /\ NoAccount \notin Confirms
  /\ NoEmail \notin Emails
  /\ NoCode \notin Hashes
  /\ NoRow \notin RegistrationSession

VARIABLES
  now,                   \* the clock of authMicro
  account_of,            \* userMicro: the account an e-mail belongs to
  registration_session,  \* authMicro: e-mail -> row or NoRow
  register,              \* the state of each POST /registration
  confirm                \* the state of each POST /registration/confirmEmail

vars == <<now, account_of, registration_session, register, confirm>>

-----------------------------------------------------------------------------
(*   exists   GetAccountByEmail found an account                            *)
(*   seen     the row createOrUpdateSession found                           *)
(*   expires  the expiry it computed for the row it is about to save        *)
(*   sent     the code it generated was handed over                         *)
(*   call     the CreateAccount call as userMicro sees it; it outlives a    *)
(*            request that gave up                                          *)

RegisterRequest ==
  [pc : {"idle", "account", "find", "save", "done"},
   email : Emails \cup {NoEmail},
   exists : BOOLEAN,
   seen : RegistrationSession \cup {NoRow},
   expires : Nat,
   sent : BOOLEAN,
   answer : {"none", "ok", "error"}]

ConfirmRequest ==
  [pc : {"idle", "create", "await", "delete", "done"},
   email : Emails \cup {NoEmail},
   code : Registers \cup {NoCode},
   call : {"none", "sent", "created", "refused", "lost"},
   answer : {"none", "ok", "invalidCode", "codeExpired", "error"}]

NewRegister ==
  [pc |-> "idle", email |-> NoEmail, exists |-> FALSE, seen |-> NoRow,
   expires |-> 0, sent |-> FALSE, answer |-> "none"]

NewConfirm ==
  [pc |-> "idle", email |-> NoEmail, code |-> NoCode, call |-> "none",
   answer |-> "none"]

TypeOK ==
  /\ now \in Nat
  /\ account_of \in [Emails -> Confirms \cup {NoAccount}]
  /\ registration_session \in [Emails -> RegistrationSession \cup {NoRow}]
  /\ register \in [Registers -> RegisterRequest]
  /\ confirm \in [Confirms -> ConfirmRequest]

(* Both services start on empty tables. *)
Init ==
  /\ now = 0
  /\ account_of = [e \in Emails |-> NoAccount]
  /\ registration_session = [e \in Emails |-> NoRow]
  /\ register = [p \in Registers |-> NewRegister]
  /\ confirm = [q \in Confirms |-> NewConfirm]

RegisterEnds(p, answer, sent) ==
  register' = [register EXCEPT ![p] =
                 [@ EXCEPT !.pc = "done", !.seen = NoRow, !.expires = 0,
                           !.sent = sent, !.answer = answer]]

RegisterAnswered(p, answer) == RegisterEnds(p, answer, FALSE)

ConfirmAnswered(q, answer) ==
  confirm' = [confirm EXCEPT ![q] =
                [@ EXCEPT !.pc = "done", !.answer = answer]]

-----------------------------------------------------------------------------
(* RegistrationService.Register *)

Expired(row, instant) == Before(row.code_expires, instant)

Stored(e) == registration_session[e] # NoRow

(* "DELETE ... WHERE code_expires < NOW()" *)
WithoutExpired(db) ==
  [e \in Emails |-> IF Stored(e) /\ Expired(registration_session[e], db)
                    THEN NoRow ELSE registration_session[e]]

(* cleanupExpiredSessions logs an error of the DELETE and goes on; then     *)
(* ValidateAccountData accepts the data.                                    *)
RegisterStart(p, e) ==
  /\ register[p].pc = "idle"
  /\ registration_session' \in
       {registration_session} \cup {WithoutExpired(db) : db \in DatabaseClock(now, Skew)}
  /\ register' = [register EXCEPT ![p] =
                    [@ EXCEPT !.pc = "account", !.email = e]]
  /\ UNCHANGED <<now, account_of, confirm>>

RegisterAccount(p) ==
  LET exists == account_of[register[p].email] # NoAccount
  IN /\ register[p].pc = "account"
     /\ register' = [register EXCEPT ![p] =
                       [@ EXCEPT !.pc = "find", !.exists = exists]]
     /\ UNCHANGED <<now, account_of, registration_session, confirm>>

CodeInTheClear(p) ==  \* mutant: the code is stored as it was generated
  IF register[p].exists THEN NoCode ELSE p

CodeForEverybody(p) == HashCode(p)  \* mutant: the account is not looked at

(* A code is generated, and hashed, only for an e-mail without an account.  *)
CodeOf(p) == IF register[p].exists THEN NoCode ELSE HashCode(p)

SaveWhenCode(row, code) ==  \* mutant: whoever has a code gets a new session
  row # NoRow => Expired(row, now) \/ code # NoCode

(* createOrUpdateSession saves unless it found a live row with a code, or   *)
(* has no code to put into a live row without one.                          *)
MustSave(row, code) ==
  row # NoRow => Expired(row, now) \/ (row.code = NoCode /\ code # NoCode)

(* FindByEmail, the decision, and the expiry of the row to be saved. *)
RegisterFind(p) ==
  LET row == registration_session[register[p].email]
  IN /\ register[p].pc = "find"
     /\ \/ /\ MustSave(row, CodeOf(p))
           /\ register' = [register EXCEPT ![p] =
                             [@ EXCEPT !.pc = "save", !.seen = row,
                                       !.expires = now + CodeTTL]]
        \/ /\ ~MustSave(row, CodeOf(p))
           /\ RegisterAnswered(p, "ok")
     /\ UNCHANGED <<now, account_of, registration_session, confirm>>

SessionToSave(p) ==
  [code |-> CodeOf(p), code_expires |-> register[p].expires]

(* The upsert of Save.  The code is handed over (logged) when Save returns  *)
(* without an error, and not when the row was written but the caller did    *)
(* not learn of it, or was gone.                                            *)
RegisterSave(p) ==
  /\ register[p].pc = "save"
  /\ registration_session' =
       [registration_session EXCEPT ![register[p].email] = SessionToSave(p)]
  /\ \/ RegisterEnds(p, "ok", CodeOf(p) # NoCode)
     \/ RegisterAnswered(p, "error")
  /\ UNCHANGED <<now, account_of, confirm>>

RegisterFails(p) ==
  /\ register[p].pc \in {"account", "find", "save"}
  /\ RegisterAnswered(p, "error")
  /\ UNCHANGED <<now, account_of, registration_session, confirm>>

-----------------------------------------------------------------------------
(* RegistrationService.ConfirmRegistration *)

RefusalOfAbsent(row, code) ==  \* mutant: the code is not compared
  IF row = NoRow THEN "invalidCode"
  ELSE IF Expired(row, now) THEN "codeExpired"
  ELSE "none"

(* validateConfirmationCode *)
Refusal(row, code) ==
  IF row = NoRow THEN "invalidCode"
  ELSE IF Expired(row, now) THEN "codeExpired"
  ELSE IF VerifyCode(row.code, code) THEN "none"
  ELSE "invalidCode"

ConfirmRefused(q, e, code) ==
  LET answer == Refusal(registration_session[e], code)
  IN /\ confirm[q].pc = "idle"
     /\ answer # "none"
     /\ confirm' = [confirm EXCEPT ![q] =
                      [@ EXCEPT !.pc = "done", !.email = e, !.answer = answer]]
     /\ UNCHANGED <<now, account_of, registration_session, register>>

ConfirmFind(q, e, code) ==
  /\ confirm[q].pc = "idle"
  /\ Refusal(registration_session[e], code) = "none"
  /\ confirm' = [confirm EXCEPT ![q] =
                   [@ EXCEPT !.pc = "create", !.email = e, !.code = code]]
  /\ UNCHANGED <<now, account_of, registration_session, register>>

(* The CreateAccount call leaves authMicro. *)
ConfirmCall(q) ==
  /\ confirm[q].pc = "create"
  /\ confirm' = [confirm EXCEPT ![q] =
                   [@ EXCEPT !.pc = "await", !.call = "sent"]]
  /\ UNCHANGED <<now, account_of, registration_session, register>>

AnyAnswer(q) == confirm[q].call \in {"created", "refused", "lost"}  \* mutant

CallSucceeded(q) == confirm[q].call = "created"

(* userMicro's answer arrives: on to the DELETE ... *)
ConfirmCreated(q) ==
  /\ confirm[q].pc = "await"
  /\ CallSucceeded(q)
  /\ confirm' = [confirm EXCEPT ![q].pc = "delete"]
  /\ UNCHANGED <<now, account_of, registration_session, register>>

(* ... or the error is returned and the session stays.                      *)
ConfirmNotCreated(q) ==
  /\ confirm[q].pc = "await"
  /\ confirm[q].call \in {"refused", "lost"}
  /\ ConfirmAnswered(q, "error")
  /\ UNCHANGED <<now, account_of, registration_session, register>>

(* DeleteByEmail takes whatever row the e-mail has by now; an error when    *)
(* the row was deleted but the caller did not learn of it.                  *)
ConfirmDelete(q) ==
  /\ confirm[q].pc = "delete"
  /\ registration_session' =
       [registration_session EXCEPT ![confirm[q].email] = NoRow]
  /\ \E answer \in {"ok", "error"} : ConfirmAnswered(q, answer)
  /\ UNCHANGED <<now, account_of, register>>

(* A statement or the process fails, or the client goes away.  The call, if *)
(* it was sent, is on its own from here.                                    *)
ConfirmFails(q) ==
  /\ confirm[q].pc \in {"create", "await", "delete"}
  /\ ConfirmAnswered(q, "error")
  /\ UNCHANGED <<now, account_of, registration_session, register>>

-----------------------------------------------------------------------------
(* AccountService.CreateAccount of userMicro *)

AlwaysFree(e) == TRUE  \* mutant: no unique index on account(email)

Free(e) == account_of[e] = NoAccount

(* The INSERT goes through ... *)
UserCreates(q) ==
  LET e == confirm[q].email
  IN /\ confirm[q].call = "sent"
     /\ Free(e)
     /\ account_of' = [account_of EXCEPT ![e] = q]
     /\ confirm' = [confirm EXCEPT ![q].call = "created"]
     /\ UNCHANGED <<now, registration_session, register>>

(* ... or violates the unique index, ... *)
UserRefuses(q) ==
  /\ confirm[q].call = "sent"
  /\ ~Free(confirm[q].email)
  /\ confirm' = [confirm EXCEPT ![q].call = "refused"]
  /\ UNCHANGED <<now, account_of, registration_session, register>>

(* ... or the call is lost or cancelled before it reaches the database.     *)
CallIsLost(q) ==
  /\ confirm[q].call = "sent"
  /\ confirm' = [confirm EXCEPT ![q].call = "lost"]
  /\ UNCHANGED <<now, account_of, registration_session, register>>

Tick ==
  /\ now < MaxTime
  /\ now' = now + 1
  /\ UNCHANGED <<account_of, registration_session, register, confirm>>

(* The instance is over when every request it was given is answered and no  *)
(* call is under way.                                                       *)
Terminating ==
  /\ \A p \in Registers : register[p].pc = "done"
  /\ \A q \in Confirms : confirm[q].pc = "done" /\ confirm[q].call # "sent"
  /\ UNCHANGED vars

RegisterStep(p) == RegisterAccount(p) \/ RegisterFind(p) \/ RegisterSave(p)

ConfirmStep(q) ==
  ConfirmCall(q) \/ ConfirmCreated(q) \/ ConfirmNotCreated(q) \/ ConfirmDelete(q)

UserStep(q) == UserCreates(q) \/ UserRefuses(q)

Requests ==
  \/ \E p \in Registers :
       \/ \E e \in Emails : RegisterStart(p, e)
       \/ RegisterStep(p)
       \/ RegisterFails(p)
  \/ \E q \in Confirms :
       \/ \E e \in Emails, code \in Registers :
            ConfirmRefused(q, e, code) \/ ConfirmFind(q, e, code)
       \/ ConfirmStep(q)
       \/ ConfirmFails(q)
       \/ UserStep(q)
       \/ CallIsLost(q)

Next == Requests \/ Tick \/ Terminating

Spec == Init /\ [][Next]_vars

-----------------------------------------------------------------------------
(* Safety *)

(* A row with a code holds the code of a request for that e-mail, which saved *)
(* it, has been answered, and had found no account.                           *)
SessionMatchesRegister ==
  \A e \in Emails :
    Stored(e) /\ registration_session[e].code # NoCode =>
      \E p \in Registers : /\ registration_session[e].code = HashCode(p)
                           /\ register[p].email = e
                           /\ register[p].pc = "done"
                           /\ ~register[p].exists

(* Nobody gets an account without the code that was generated for its e-mail: *)
(* not by a confirmation that raced a new session, not by a call that was     *)
(* carried out after its caller had given up (registration.go:88-113).        *)
AccountsAreConfirmed ==
  \A e \in Emails : account_of[e] # NoAccount =>
    LET q == account_of[e]
    IN /\ confirm[q].email = e
       /\ confirm[q].code \in Registers
       /\ register[confirm[q].code].email = e
       /\ register[confirm[q].code].pc = "done"

(* A confirmation that is answered with success created the account itself,   *)
(* so of several confirmations of one code at most one succeeds               *)
(* (registration.go:103-105; the unique index of userMicro).                  *)
SuccessMeansOwnAccount ==
  \A q \in Confirms :
    confirm[q].answer = "ok" => account_of[confirm[q].email] = q

(* The row of e holds a code that can still be confirmed, by either clock. *)
Live(e) ==
  /\ Stored(e)
  /\ registration_session[e].code # NoCode
  /\ registration_session[e].code_expires >= now + Skew

(* A live code disappears only when its e-mail has an account: a confirmation *)
(* that fails anywhere before that can be repeated with the same code         *)
(* (registration.go:99-110).                                                  *)
LiveCodesVanishWhenUsed ==
  [][\A e \in Emails :
       Live(e) /\ registration_session'[e] = NoRow =>
         account_of[e] # NoAccount]_vars

(* A live code is replaced only by a request that read the table before that  *)
(* code was there (registration.go:167-172).                                  *)
OnlyRacesReplaceLiveCodes ==
  [][\A e \in Emails :
       /\ Live(e)
       /\ registration_session'[e] \notin {registration_session[e], NoRow}
       => \E p \in Registers : /\ register[p].pc = "save"
                               /\ register'[p].pc = "done"
                               /\ register[p].email = e
                               /\ register[p].seen # registration_session[e]]_vars

(* Liveness *)

(* Nobody waits for an answer; that this comes about is stated in AuthSystem. *)
Quiet ==
  /\ \A p \in Registers : register[p].pc \in {"idle", "done"}
  /\ \A q \in Confirms : confirm[q].pc \in {"idle", "done"}

-----------------------------------------------------------------------------
(* What the documents say and the code does not do *)

(* "Start a registration: sends the code", README.md, of POST /registration.  *)
(* When such a request succeeds, for an e-mail without an account, a code was *)
(* handed over for that e-mail, by this request or another.                   *)
SuccessMeansACodeWasSent ==
  \A p \in Registers : register[p].answer = "ok" /\ ~register[p].exists =>
    \E s \in Registers : register[s].email = register[p].email /\ register[s].sent

=============================================================================
