-------------------------- MODULE AuthSystemProofs --------------------------
(***************************************************************************)
(* Proofs about the composition, for any number of e-mails and requests of  *)
(* every kind.                                                              *)
(*                                                                         *)
(* What a refresh token says has to be followed back through three          *)
(* components: a token to the confirmation of a login that was paid with    *)
(* the first of its line (TokensArePaid), that confirmation to the Login    *)
(* whose code it presented (CodesWereSent), that Login to the account it    *)
(* found under its e-mail (AccountsWereFound), the account to the           *)
(* confirmation of a registration that created it, and that one to the      *)
(* registration whose code it presented (AccountsWereEnrolled).  Along the  *)
(* way an account stays with its e-mail, since nothing takes it away, and   *)
(* the rows of both session tables are of requests that have been answered. *)
(*                                                                         *)
(* And that the parts fit: the steps of userMicro in Registration are the   *)
(* ones Login expects of the accounts, and the transactions of Login are    *)
(* the logins of Tokens.                                                    *)
(***************************************************************************)
EXTENDS AuthSystem, TLAPS

(* The functions and records that the variables are. *)
Shapes ==
  /\ now \in Nat
  /\ DOMAIN account_of = Emails
  /\ \A e \in Emails : account_of[e] \in Enrolments \cup {NoAccount}
  /\ DOMAIN registration_session = Emails /\ DOMAIN login_session = Emails
  /\ DOMAIN register = Registers /\ DOMAIN enrol = Enrolments
  /\ DOMAIN login = Logins /\ DOMAIN confirm = Confirms /\ DOMAIN refresh = Refreshes
  /\ \A p \in Registers : DOMAIN register[p] = DOMAIN R!NewRegister
  /\ \A a \in Enrolments : DOMAIN enrol[a] = DOMAIN R!NewConfirm
  /\ \A p \in Logins : DOMAIN login[p] = DOMAIN L!NewLogin
  /\ \A q \in Confirms : DOMAIN confirm[q] = DOMAIN L!NewConfirm
  /\ \A r \in Refreshes : DOMAIN refresh[r] = DOMAIN T!NewRefresh

-----------------------------------------------------------------------------
(* Registration *)

RegistersHaveEmails ==
  \A p \in Registers : register[p].pc # "idle" => register[p].email \in Emails

SessionsWereRegistered ==
  \A e \in Emails : R!Stored(e) /\ registration_session[e].code # NoCode =>
    \E p \in Registers : /\ registration_session[e].code = HashCode(p)
                         /\ register[p].email = e
                         /\ register[p].pc = "done"

(* The confirmation a presented a code, which was generated for its e-mail. *)
Enrolled(a) ==
  /\ enrol[a].email \in Emails
  /\ enrol[a].code \in Registers
  /\ register[enrol[a].code].email = enrol[a].email
  /\ register[enrol[a].code].pc = "done"

EnrolmentsHaveCodes ==
  \A a \in Enrolments :
    /\ enrol[a].pc \in {"create", "await", "delete"} \/ enrol[a].call # "none" => Enrolled(a)
    /\ enrol[a].pc = "idle" => enrol[a].call = "none"

AccountsWereEnrolled ==
  \A e \in Emails : account_of[e] # NoAccount =>
    enrol[account_of[e]].email = e /\ enrol[account_of[e]].call # "none"

-----------------------------------------------------------------------------
(* Login *)

AccountsWereFound ==
  \A p \in Logins :
    /\ login[p].pc # "idle" => login[p].email \in Emails
    /\ login[p].acct # NoAccount =>
         login[p].pc # "idle" /\ account_of[login[p].email] = login[p].acct

SessionsWereSaved ==
  \A e \in Emails : L!Stored(e) /\ login_session[e].account_id # NoAccount =>
    \E p \in Logins : /\ login_session[e].code = HashCode(p)
                      /\ login_session[e].account_id = login[p].acct
                      /\ login[p].email = e
                      /\ login[p].pc = "done"

(* The confirmation q presented a code, which was generated for its e-mail  *)
(* and account.                                                             *)
Presented(q) ==
  /\ confirm[q].code \in Logins
  /\ confirm[q].email \in Emails
  /\ confirm[q].acct # NoAccount
  /\ confirm[q].acct = account_of[confirm[q].email]
  /\ login[confirm[q].code].email = confirm[q].email
  /\ login[confirm[q].code].pc = "done"

CodesWereSent ==
  \A q \in Confirms :
    /\ confirm[q].pc \in {"verify", "delete", "issue", "commit"} \/ confirm[q].paid =>
         Presented(q)
    /\ confirm[q].pc = "idle" => ~confirm[q].paid /\ ~Answered(q)
    /\ Answered(q) => confirm[q].paid

-----------------------------------------------------------------------------
(* Tokens *)

Paid(a) == \E q \in Confirms : confirm[q].paid /\ confirm[q].acct = a

TokensArePaid ==
  /\ \A token \in handed : Paid(token.sub)
  /\ \A row \in refresh_token_session : Paid(row.refresh_token.sub)
  /\ \A r \in Refreshes : refresh[r].pc \notin {"idle", "done"} => Paid(refresh[r].token.sub)

IInv ==
  /\ Shapes
  /\ RegistersHaveEmails
  /\ SessionsWereRegistered
  /\ EnrolmentsHaveCodes
  /\ AccountsWereEnrolled
  /\ AccountsWereFound
  /\ SessionsWereSaved
  /\ CodesWereSent
  /\ TokensArePaid


-----------------------------------------------------------------------------
(* The start *)

(* Nobody has registered, logged in or been handed a token.                 *)
LEMMA InitIInv == Init => IInv
<1> SUFFICES ASSUME Init PROVE IInv
  OBVIOUS
<1> USE DEF Init, R!Init, L!Init, T!Init
<1>1. Shapes
  BY DEF Shapes, R!NewRegister, R!NewConfirm, L!NewLogin, L!NewConfirm, T!NewRefresh
<1>2. RegistersHaveEmails
  BY DEF RegistersHaveEmails, R!NewRegister
<1>3. SessionsWereRegistered
  BY DEF SessionsWereRegistered, R!Stored
<1>4. EnrolmentsHaveCodes
  BY DEF EnrolmentsHaveCodes, R!NewConfirm
<1>5. AccountsWereEnrolled
  BY DEF AccountsWereEnrolled
<1>6. AccountsWereFound
  BY DEF AccountsWereFound, L!NewLogin
<1>7. SessionsWereSaved
  BY DEF SessionsWereSaved, L!Stored
<1>8. CodesWereSent
  BY DEF CodesWereSent, L!NewConfirm, Answered
<1>9. TokensArePaid
  BY DEF TokensArePaid, T!NewRefresh
<1> QED
  BY <1>1, <1>2, <1>3, <1>4, <1>5, <1>6, <1>7, <1>8, <1>9 DEF IInv

-----------------------------------------------------------------------------
(* Registration *)

(* A step of POST /registration: a row it leaves is the one that was there, *)
(* or its own, saved with its own code as its last act.                     *)
LEMMA RegisterMoves ==
  ASSUME IInv, NEW p \in Registers,
         \/ \E e \in Emails : R!RegisterStart(p, e)
         \/ R!RegisterStep(p)
         \/ R!RegisterFails(p)
  PROVE  /\ UNCHANGED <<account_of, enrol>>
         /\ DOMAIN register' = Registers
         /\ DOMAIN register'[p] = DOMAIN R!NewRegister
         /\ \A o \in Registers : o # p => register'[o] = register[o]
         /\ register[p].pc # "done" /\ register'[p].pc # "idle"
         /\ register'[p].email \in Emails
         /\ register[p].pc # "idle" => register'[p].email = register[p].email
         /\ DOMAIN registration_session' = Emails
         /\ \A e \in Emails : R!Stored(e)' =>
              \/ R!Stored(e) /\ registration_session'[e] = registration_session[e]
              \/ /\ registration_session'[e].code \in {NoCode, HashCode(p)}
                 /\ register'[p].email = e
                 /\ register'[p].pc = "done"
<1>0. /\ DOMAIN register = Registers /\ DOMAIN register[p] = DOMAIN R!NewRegister
      /\ register[p].pc # "idle" => register[p].email \in Emails
      /\ DOMAIN registration_session = Emails
  BY DEF IInv, Shapes, RegistersHaveEmails
<1> USE DEF R!NewRegister
<1>1. CASE \E e \in Emails : R!RegisterStart(p, e)
  <2>1. PICK e \in Emails : R!RegisterStart(p, e)
    BY <1>1
  <2>2. register' = [register EXCEPT ![p] = [@ EXCEPT !.pc = "account", !.email = e]]
        /\ register[p].pc = "idle" /\ UNCHANGED <<account_of, enrol>>
    BY <2>1 DEF R!RegisterStart
  <2>3. \/ registration_session' = registration_session
        \/ \E db : registration_session' = R!WithoutExpired(db)
    BY <2>1 DEF R!RegisterStart
  <2>4. /\ DOMAIN registration_session' = Emails
        /\ \A o \in Emails : registration_session'[o] \in {registration_session[o], NoRow}
    BY <1>0, <2>3 DEF R!WithoutExpired
  <2> QED  BY <1>0, <2>2, <2>4 DEF R!Stored
<1>2. CASE R!RegisterSave(p)
  <2>1. /\ registration_session' =
             [registration_session EXCEPT ![register[p].email] = R!SessionToSave(p)]
        /\ register[p].pc = "save" /\ UNCHANGED <<account_of, enrol>>
        /\ \E answer, sent :
             register' = [register EXCEPT ![p] =
                 [@ EXCEPT !.pc = "done", !.seen = NoRow, !.expires = 0,
                           !.sent = sent, !.answer = answer]]
    BY <1>2 DEF R!RegisterSave, R!RegisterEnds, R!RegisterAnswered
  <2>2. R!SessionToSave(p).code \in {NoCode, HashCode(p)}
    BY DEF R!SessionToSave, R!CodeOf, R!HashCode, HashCode
  <2> HIDE DEF R!SessionToSave
  <2> QED  BY <1>0, <2>1, <2>2 DEF R!Stored
<1>3. CASE R!RegisterAccount(p) \/ R!RegisterFind(p) \/ R!RegisterFails(p)
  <2>1. /\ UNCHANGED <<registration_session, account_of, enrol>>
        /\ register[p].pc \in {"account", "find", "save"}
    BY <1>3 DEF R!RegisterAccount, R!RegisterFind, R!RegisterFails
  <2>2. CASE R!RegisterAccount(p)
    BY <1>0, <2>1, <2>2 DEF R!RegisterAccount, R!Stored
  <2>3. CASE R!RegisterFind(p)
    <3>1. \/ \E seen, expires : register' = [register EXCEPT ![p] =
                 [@ EXCEPT !.pc = "save", !.seen = seen, !.expires = expires]]
          \/ \E answer, sent : register' = [register EXCEPT ![p] =
                 [@ EXCEPT !.pc = "done", !.seen = NoRow, !.expires = 0,
                           !.sent = sent, !.answer = answer]]
      BY <2>3 DEF R!RegisterFind, R!RegisterEnds, R!RegisterAnswered
    <3>2. CASE \E seen, expires : register' = [register EXCEPT ![p] =
                 [@ EXCEPT !.pc = "save", !.seen = seen, !.expires = expires]]
      BY <1>0, <2>1, <3>2 DEF R!Stored
    <3>3. CASE \E answer, sent : register' = [register EXCEPT ![p] =
                 [@ EXCEPT !.pc = "done", !.seen = NoRow, !.expires = 0,
                           !.sent = sent, !.answer = answer]]
      BY <1>0, <2>1, <3>3 DEF R!Stored
    <3> QED  BY <3>1, <3>2, <3>3
  <2>4. CASE R!RegisterFails(p)
    BY <1>0, <2>1, <2>4
       DEF R!RegisterFails, R!RegisterEnds, R!RegisterAnswered, R!Stored
  <2> QED  BY <1>3, <2>2, <2>3, <2>4
<1> QED
  BY <1>1, <1>2, <1>3 DEF R!RegisterStep

(* A row with a code names its request: the hash is of one code only.       *)
LEMMA RegisteredCode ==
  ASSUME IInv, NEW e \in Emails, NEW code \in Registers,
         R!Refusal(registration_session[e], code) = "none"
  PROVE  register[code].email = e /\ register[code].pc = "done"
<1>1. R!Stored(e) /\ registration_session[e].code = HashCode(code)
  BY DEF R!Refusal, R!Stored, R!VerifyCode, R!HashCode, HashCode
<1>2. HashCode(code) # NoCode
  BY SentinelsAreDistinct DEF R!Hashes, R!HashCode, HashCode
<1>3. \A p : HashCode(p) = HashCode(code) => p = code
  BY DEF HashCode
<1> QED
  BY <1>1, <1>2, <1>3 DEF IInv, SessionsWereRegistered

(* A step of POST /registration/confirmEmail, or of the call it made: once  *)
(* the code was accepted, the e-mail and the code stay, and the account of  *)
(* an e-mail is that of the call that was sent for it.                      *)
LEMMA EnrolMoves ==
  ASSUME IInv, NEW a \in Enrolments,
         \/ \E e \in Emails, code \in Registers :
              R!ConfirmRefused(a, e, code) \/ R!ConfirmFind(a, e, code)
         \/ R!ConfirmStep(a)
         \/ R!ConfirmFails(a)
         \/ R!UserStep(a)
         \/ R!CallIsLost(a)
  PROVE  /\ register' = register
         /\ DOMAIN enrol' = Enrolments
         /\ DOMAIN enrol'[a] = DOMAIN R!NewConfirm
         /\ \A o \in Enrolments : o # a => enrol'[o] = enrol[o]
         /\ enrol'[a].pc # "idle" 
         /\ enrol[a].call # "none" =>
              /\ enrol'[a].email = enrol[a].email
              /\ enrol'[a].call # "none"
         /\ enrol'[a].pc \in {"create", "await", "delete"} \/ enrol'[a].call # "none" =>
              Enrolled(a)'
         /\ DOMAIN registration_session' = Emails
         /\ \A e \in Emails : R!Stored(e)' =>
              R!Stored(e) /\ registration_session'[e] = registration_session[e]
         /\ \/ account_of' = account_of
            \/ R!UserCreates(a)
<1>0. /\ DOMAIN enrol = Enrolments /\ DOMAIN enrol[a] = DOMAIN R!NewConfirm
      /\ DOMAIN registration_session = Emails
      /\ enrol[a].pc \in {"create", "await", "delete"} \/ enrol[a].call # "none" =>
           Enrolled(a)
      /\ enrol[a].pc = "idle" => enrol[a].call = "none"
  BY DEF IInv, Shapes, EnrolmentsHaveCodes
<1> USE DEF R!NewConfirm
<1>1. ASSUME NEW e \in Emails, NEW code \in Registers, R!ConfirmRefused(a, e, code)
      PROVE  /\ UNCHANGED <<register, registration_session, account_of>>
             /\ enrol[a].pc = "idle"
             /\ \E answer : enrol' = [enrol EXCEPT ![a] =
                      [@ EXCEPT !.pc = "done", !.email = e, !.answer = answer]]
  BY <1>1 DEF R!ConfirmRefused
<1>2. ASSUME NEW e \in Emails, NEW code \in Registers, R!ConfirmFind(a, e, code)
      PROVE  /\ UNCHANGED <<register, registration_session, account_of>>
             /\ enrol[a].pc = "idle"
             /\ register[code].email = e /\ register[code].pc = "done"
             /\ enrol' = [enrol EXCEPT ![a] =
                      [@ EXCEPT !.pc = "create", !.email = e, !.code = code]]
  BY <1>2, RegisteredCode DEF R!ConfirmFind
<1>3. CASE \E e \in Emails, code \in Registers : R!ConfirmRefused(a, e, code)
  <2>1. PICK e \in Emails, code \in Registers : R!ConfirmRefused(a, e, code)
    BY <1>3
  <2>2. PICK answer : enrol' = [enrol EXCEPT ![a] =
                        [@ EXCEPT !.pc = "done", !.email = e, !.answer = answer]]
    BY <2>1, <1>1
  <2>3. UNCHANGED <<register, registration_session, account_of>> /\ enrol[a].pc = "idle"
    BY <2>1, <1>1
  <2> QED  BY <1>0, <2>2, <2>3 DEF R!Stored
<1>4. CASE \E e \in Emails, code \in Registers : R!ConfirmFind(a, e, code)
  <2>1. PICK e \in Emails, code \in Registers : R!ConfirmFind(a, e, code)
    BY <1>4
  <2>2. enrol' = [enrol EXCEPT ![a] =
                    [@ EXCEPT !.pc = "create", !.email = e, !.code = code]]
        /\ enrol[a].pc = "idle" /\ register[code].email = e /\ register[code].pc = "done"
        /\ UNCHANGED <<register, registration_session, account_of>>
    BY <2>1, <1>2
  <2> QED  BY <1>0, <2>2 DEF R!Stored, Enrolled
<1>5. CASE R!ConfirmDelete(a)
  <2>1. /\ registration_session' =
             [registration_session EXCEPT ![enrol[a].email] = NoRow]
        /\ enrol[a].pc = "delete" /\ UNCHANGED <<register, account_of>>
        /\ \E answer : enrol' = [enrol EXCEPT ![a] =
                [@ EXCEPT !.pc = "done", !.answer = answer]]
    BY <1>5 DEF R!ConfirmDelete, R!ConfirmAnswered
  <2> QED  BY <1>0, <2>1 DEF R!Stored, Enrolled
<1>6. CASE R!ConfirmCall(a)
  BY <1>0, <1>6 DEF R!ConfirmCall, R!Stored, Enrolled
<1>9. CASE R!ConfirmCreated(a)
  BY <1>0, <1>9 DEF R!ConfirmCreated, R!Stored, Enrolled
<1>8. CASE R!ConfirmNotCreated(a) \/ R!ConfirmFails(a)
  <2>1. /\ UNCHANGED <<registration_session, register, account_of>>
        /\ enrol[a].pc \in {"create", "await", "delete"}
        /\ enrol' = [enrol EXCEPT ![a] = [@ EXCEPT !.pc = "done", !.answer = "error"]]
    BY <1>8 DEF R!ConfirmNotCreated, R!ConfirmFails, R!ConfirmAnswered
  <2> QED  BY <1>0, <2>1 DEF R!Stored, Enrolled
<1>7. CASE R!UserCreates(a) \/ R!UserRefuses(a) \/ R!CallIsLost(a)
  BY <1>0, <1>7
     DEF R!UserCreates, R!UserRefuses, R!CallIsLost, R!Stored, Enrolled
<1> QED
  BY <1>3, <1>4, <1>5, <1>6, <1>7, <1>8, <1>9 DEF R!ConfirmStep, R!UserStep

(* The account of an e-mail stays: the only step that writes the table is   *)
(* the INSERT of userMicro, under an e-mail that was free.                  *)
LEMMA AccountsStay ==
  ASSUME IInv, NEW a \in Enrolments,
         account_of' = account_of \/ R!UserCreates(a)
  PROVE  /\ DOMAIN account_of' = Emails
         /\ \A e \in Emails :
              /\ account_of'[e] \in Enrolments \cup {NoAccount}
              /\ account_of[e] # NoAccount => account_of'[e] = account_of[e]
              /\ account_of'[e] # account_of[e] =>
                   account_of'[e] = a /\ enrol[a].email = e /\ enrol[a].call = "sent"
<1>1. /\ DOMAIN account_of = Emails
      /\ \A e \in Emails : account_of[e] \in Enrolments \cup {NoAccount}
  BY DEF IInv, Shapes
<1> QED
  BY <1>1 DEF R!UserCreates, R!Free

(* What a registration does to its session, the session of another and the  *)
(* confirmations that rely on both.                                         *)
LEMMA RegisterKeepsIInv ==
  ASSUME IInv, UNCHANGED <<now, logins, tokens>>, NEW p \in Registers,
         \/ \E e \in Emails : R!RegisterStart(p, e)
         \/ R!RegisterStep(p)
         \/ R!RegisterFails(p)
  PROVE  IInv'
<1> DEFINE Moves ==
      /\ UNCHANGED <<account_of, enrol>>
      /\ DOMAIN register' = Registers
      /\ DOMAIN register'[p] = DOMAIN R!NewRegister
      /\ \A o \in Registers : o # p => register'[o] = register[o]
      /\ register[p].pc # "done" /\ register'[p].pc # "idle"
      /\ register'[p].email \in Emails
      /\ DOMAIN registration_session' = Emails
      /\ \A e \in Emails : R!Stored(e)' =>
           \/ R!Stored(e) /\ registration_session'[e] = registration_session[e]
           \/ /\ registration_session'[e].code \in {NoCode, HashCode(p)}
              /\ register'[p].email = e
              /\ register'[p].pc = "done"
<1>0. Moves
  BY RegisterMoves
<1> HIDE DEF Moves
<1>a. UNCHANGED <<now, account_of, enrol, login_session, login, confirm,
                  refresh_token_session, handed, refresh>>
  BY <1>0 DEF Moves, logins, tokens
<1>1. Shapes'
  BY <1>0, <1>a DEF Moves, IInv, Shapes, R!NewRegister, R!NewConfirm, L!NewLogin,
     L!NewConfirm, T!NewRefresh
<1>2. RegistersHaveEmails'
  BY <1>0 DEF Moves, IInv, RegistersHaveEmails
<1>3. SessionsWereRegistered'
  <2> SUFFICES ASSUME NEW e \in Emails, R!Stored(e)',
                      registration_session'[e].code # NoCode
               PROVE  \E o \in Registers :
                        /\ registration_session'[e].code = HashCode(o)
                        /\ register'[o].email = e
                        /\ register'[o].pc = "done"
    BY DEF SessionsWereRegistered
  <2>1. CASE R!Stored(e) /\ registration_session'[e] = registration_session[e]
    <3>1. PICK o \in Registers : /\ registration_session[e].code = HashCode(o)
                                 /\ register[o].email = e
                                 /\ register[o].pc = "done"
      BY <2>1 DEF IInv, SessionsWereRegistered
    <3>2. register'[o] = register[o]
      BY <3>1, <1>0 DEF Moves
    <3> QED  BY <2>1, <3>1, <3>2
  <2>2. CASE /\ registration_session'[e].code \in {NoCode, HashCode(p)}
             /\ register'[p].email = e
             /\ register'[p].pc = "done"
    BY <2>2
  <2> QED  BY <2>1, <2>2, <1>0 DEF Moves
<1>4. EnrolmentsHaveCodes'
  BY <1>0, <1>a DEF Moves, IInv, EnrolmentsHaveCodes, Enrolled
<1>5. AccountsWereEnrolled' /\ AccountsWereFound'
  BY <1>a DEF IInv, AccountsWereEnrolled, AccountsWereFound
<1>6. SessionsWereSaved' /\ CodesWereSent' /\ TokensArePaid'
  BY <1>a DEF IInv, SessionsWereSaved, L!Stored, CodesWereSent, Presented, Answered,
     TokensArePaid, Paid
<1> QED
  BY <1>1, <1>2, <1>3, <1>4, <1>5, <1>6 DEF IInv

(* What a confirmation of a registration does to the accounts that logins   *)
(* have found.                                                              *)
LEMMA EnrolKeepsIInv ==
  ASSUME IInv, UNCHANGED <<now, logins, tokens>>, NEW a \in Enrolments,
         \/ \E e \in Emails, code \in Registers :
              R!ConfirmRefused(a, e, code) \/ R!ConfirmFind(a, e, code)
         \/ R!ConfirmStep(a)
         \/ R!ConfirmFails(a)
         \/ R!UserStep(a)
         \/ R!CallIsLost(a)
  PROVE  IInv'
<1> DEFINE Moves ==
      /\ DOMAIN enrol' = Enrolments
      /\ DOMAIN enrol'[a] = DOMAIN R!NewConfirm
      /\ \A o \in Enrolments : o # a => enrol'[o] = enrol[o]
      /\ enrol'[a].pc # "idle"
      /\ enrol[a].call # "none" =>
           /\ enrol'[a].email = enrol[a].email
           /\ enrol'[a].call # "none"
      /\ enrol'[a].pc \in {"create", "await", "delete"} \/ enrol'[a].call # "none" =>
           Enrolled(a)'
      /\ DOMAIN registration_session' = Emails
      /\ \A e \in Emails : R!Stored(e)' =>
           R!Stored(e) /\ registration_session'[e] = registration_session[e]
<1>0. Moves /\ register' = register /\ (account_of' = account_of \/ R!UserCreates(a))
  BY EnrolMoves
<1> HIDE DEF Moves
<1>a. UNCHANGED <<now, register, login_session, login, confirm,
                  refresh_token_session, handed, refresh>>
  BY <1>0 DEF logins, tokens
<1>b. /\ DOMAIN account_of' = Emails
      /\ \A e \in Emails :
           /\ account_of'[e] \in Enrolments \cup {NoAccount}
           /\ account_of[e] # NoAccount => account_of'[e] = account_of[e]
           /\ account_of'[e] # account_of[e] =>
                account_of'[e] = a /\ enrol[a].email = e /\ enrol[a].call = "sent"
  BY <1>0, AccountsStay
<1>1. Shapes'
  BY <1>0, <1>a, <1>b DEF Moves, IInv, Shapes, R!NewRegister, R!NewConfirm,
     L!NewLogin, L!NewConfirm, T!NewRefresh
<1>2. RegistersHaveEmails' /\ SessionsWereRegistered'
  BY <1>0, <1>a DEF Moves, IInv, RegistersHaveEmails, SessionsWereRegistered
<1>3. EnrolmentsHaveCodes'
  <2>1. \A o \in Enrolments : o # a => (Enrolled(o)' <=> Enrolled(o))
    BY <1>0, <1>a DEF Moves, Enrolled
  <2> QED  BY <2>1, <1>0 DEF Moves, IInv, EnrolmentsHaveCodes
<1>4. AccountsWereEnrolled'
  BY <1>0, <1>b DEF Moves, IInv, Shapes, AccountsWereEnrolled
<1>5. AccountsWereFound'
  BY <1>a, <1>b, SentinelsAreDistinct DEF IInv, AccountsWereFound
<1>6. CodesWereSent'
  <2>1. \A q \in Confirms : Presented(q) => Presented(q)'
    BY <1>a, <1>b DEF Presented
  <2> QED  BY <2>1, <1>a DEF IInv, CodesWereSent, Answered
<1>7. SessionsWereSaved' /\ TokensArePaid'
  BY <1>a DEF IInv, SessionsWereSaved, L!Stored, TokensArePaid, Paid
<1> QED
  BY <1>1, <1>2, <1>3, <1>4, <1>5, <1>6, <1>7 DEF IInv

(* Every step of the registration is one of the two.                        *)
LEMMA RegistrationKeepsIInv ==
  ASSUME IInv, Registration
  PROVE  IInv'
<1>1. UNCHANGED <<now, logins, tokens>> /\ R!Requests
  BY DEF Registration
<1> QED
  BY <1>1, RegisterKeepsIInv, EnrolKeepsIInv DEF R!Requests

-----------------------------------------------------------------------------
(* Login *)

(* A step of POST /login/sendCodeEmail: a row it leaves is the one that was *)
(* there, or its own, with its own code if it has an account.               *)
LEMMA LoginMoves ==
  ASSUME IInv, NEW p \in Logins,
         \/ \E e \in Emails : L!LoginStart(p, e)
         \/ L!LoginStep(p)
         \/ L!LoginFails(p)
  PROVE  /\ UNCHANGED <<refresh_token_session, confirm>>
         /\ DOMAIN login' = Logins
         /\ DOMAIN login'[p] = DOMAIN L!NewLogin
         /\ \A o \in Logins : o # p => login'[o] = login[o]
         /\ login[p].pc # "done" /\ login'[p].pc # "idle"
         /\ login'[p].email \in Emails
         /\ login'[p].acct # NoAccount => account_of[login'[p].email] = login'[p].acct
         /\ DOMAIN login_session' = Emails
         /\ \A e \in Emails : L!Stored(e)' =>
              \/ L!Stored(e) /\ login_session'[e] = login_session[e]
              \/ /\ login_session'[e].account_id # NoAccount =>
                      login_session'[e].code = HashCode(p)
                 /\ login_session'[e].account_id = login'[p].acct
                 /\ login'[p].email = e
                 /\ login'[p].pc = "done"
<1>0. /\ DOMAIN login = Logins /\ DOMAIN login[p] = DOMAIN L!NewLogin
      /\ login[p].pc # "idle" => login[p].email \in Emails
      /\ login[p].acct # NoAccount =>
           login[p].pc # "idle" /\ account_of[login[p].email] = login[p].acct
      /\ DOMAIN login_session = Emails
  BY DEF IInv, Shapes, AccountsWereFound
<1> USE DEF L!NewLogin
<1>1. CASE \E e \in Emails : L!LoginStart(p, e)
  <2>1. PICK e \in Emails : L!LoginStart(p, e)
    BY <1>1
  <2>2. login' = [login EXCEPT ![p] = [@ EXCEPT !.pc = "account", !.email = e]]
        /\ login[p].pc = "idle" /\ UNCHANGED <<refresh_token_session, confirm>>
    BY <2>1 DEF L!LoginStart
  <2>3. \/ login_session' = login_session
        \/ \E db : login_session' = L!WithoutExpired(db)
    BY <2>1 DEF L!LoginStart, L!CleanExpired
  <2>4. /\ DOMAIN login_session' = Emails
        /\ \A o \in Emails : login_session'[o] \in {login_session[o], NoRow}
    BY <1>0, <2>3 DEF L!WithoutExpired
  <2> QED  BY <1>0, <2>2, <2>4 DEF L!Stored
<1>2. CASE L!LoginSave(p)
  <2>1. /\ login_session' = [login_session EXCEPT ![login[p].email] = L!SessionToSave(p)]
        /\ login[p].pc = "save" /\ UNCHANGED <<refresh_token_session, confirm>>
        /\ \E answer : login' = [login EXCEPT ![p] =
                 [@ EXCEPT !.pc = "done", !.seen = NoRow, !.expires = 0,
                           !.answer = answer]]
    BY <1>2 DEF L!LoginSave, L!LoginAnswered
  <2>2. /\ L!SessionToSave(p).account_id = login[p].acct
        /\ login[p].acct # NoAccount => L!SessionToSave(p).code = HashCode(p)
    BY DEF L!SessionToSave, L!CodeOf, L!HashCode, HashCode
  <2> HIDE DEF L!SessionToSave
  <2> QED  BY <1>0, <2>1, <2>2 DEF L!Stored
<1>3. CASE L!LoginAccount(p) \/ L!LoginFind(p) \/ L!LoginFails(p)
  <2>1. /\ UNCHANGED <<login_session, refresh_token_session, confirm>>
        /\ login[p].pc \in {"account", "find", "save"}
    BY <1>3 DEF L!LoginAccount, L!LoginFind, L!LoginFails
  <2>2. CASE L!LoginAccount(p)
    BY <1>0, <2>1, <2>2 DEF L!LoginAccount, L!Stored
  <2>3. CASE L!LoginFind(p)
    <3>1. \/ \E seen, expires : login' = [login EXCEPT ![p] =
                 [@ EXCEPT !.pc = "save", !.seen = seen, !.expires = expires]]
          \/ \E answer : login' = [login EXCEPT ![p] =
                 [@ EXCEPT !.pc = "done", !.seen = NoRow, !.expires = 0,
                           !.answer = answer]]
      BY <2>3 DEF L!LoginFind, L!LoginAnswered
    <3>2. CASE \E seen, expires : login' = [login EXCEPT ![p] =
                 [@ EXCEPT !.pc = "save", !.seen = seen, !.expires = expires]]
      BY <1>0, <2>1, <3>2 DEF L!Stored
    <3>3. CASE \E answer : login' = [login EXCEPT ![p] =
                 [@ EXCEPT !.pc = "done", !.seen = NoRow, !.expires = 0,
                           !.answer = answer]]
      BY <1>0, <2>1, <3>3 DEF L!Stored
    <3> QED  BY <3>1, <3>2, <3>3
  <2>4. CASE L!LoginFails(p)
    BY <1>0, <2>1, <2>4 DEF L!LoginFails, L!LoginAnswered, L!Stored
  <2> QED  BY <1>3, <2>2, <2>3, <2>4
<1> QED
  BY <1>1, <1>2, <1>3 DEF L!LoginStep

(* A code that is accepted was generated for the account and the e-mail of  *)
(* its row, and the account has the e-mail still: accounts stay.            *)
LEMMA AcceptedCode ==
  ASSUME IInv, NEW e \in Emails, NEW code \in Logins,
         L!Refusal(login_session[e], code) = "none"
  PROVE  /\ login[code].email = e /\ login[code].pc = "done"
         /\ login_session[e].account_id # NoAccount
         /\ login_session[e].account_id = account_of[e]
<1>1. /\ L!Stored(e) /\ login_session[e].code = HashCode(code)
      /\ login_session[e].account_id # NoAccount
  BY DEF L!Refusal, L!Stored, L!VerifyCode, L!HashCode, HashCode
<1>2. \A p : HashCode(p) = HashCode(code) => p = code
  BY DEF HashCode
<1>3. /\ login[code].email = e /\ login[code].pc = "done"
      /\ login_session[e].account_id = login[code].acct
  BY <1>1, <1>2 DEF IInv, SessionsWereSaved
<1> QED
  BY <1>1, <1>3 DEF IInv, AccountsWereFound

(* A step of POST /login/confirmEmail: what it works with stays once the    *)
(* code was accepted, and a row of the token table that was not there is    *)
(* of the account it was paid for.                                          *)
LEMMA ConfirmMoves ==
  ASSUME IInv, NEW q \in Confirms, UNCHANGED account_of,
         \/ \E e \in Emails, code \in Logins :
              L!ConfirmRefused(q, e, code) \/ L!ConfirmFind(q, e, code)
         \/ L!ConfirmStep(q)
         \/ L!ConfirmFails(q)
  PROVE  /\ login' = login
         /\ DOMAIN confirm' = Confirms
         /\ DOMAIN confirm'[q] = DOMAIN L!NewConfirm
         /\ \A o \in Confirms : o # q => confirm'[o] = confirm[o]
         /\ confirm'[q].pc # "idle"
         /\ confirm[q].paid => confirm'[q].paid /\ confirm'[q].acct = confirm[q].acct
         /\ confirm'[q].pc \in {"verify", "delete", "issue", "commit"} \/ confirm'[q].paid =>
              Presented(q)'
         /\ Answered(q)' => confirm'[q].paid
         /\ DOMAIN login_session' = Emails
         /\ \A e \in Emails : L!Stored(e)' =>
              L!Stored(e) /\ login_session'[e] = login_session[e]
         /\ \A row \in refresh_token_session' :
              \/ row \in refresh_token_session
              \/ confirm'[q].paid /\ row.refresh_token.sub = confirm'[q].acct
<1>0. /\ DOMAIN confirm = Confirms /\ DOMAIN confirm[q] = DOMAIN L!NewConfirm
      /\ DOMAIN login_session = Emails
      /\ confirm[q].pc \in {"verify", "delete", "issue", "commit"} \/ confirm[q].paid =>
           Presented(q)
      /\ confirm[q].pc = "idle" => ~confirm[q].paid /\ ~Answered(q)
      /\ Answered(q) => confirm[q].paid
  BY DEF IInv, Shapes, CodesWereSent
<1> USE DEF L!NewConfirm, Answered
<1>1. CASE \E e \in Emails, code \in Logins : L!ConfirmRefused(q, e, code)
  <2>1. PICK e \in Emails, code \in Logins : L!ConfirmRefused(q, e, code)
    BY <1>1
  <2>2. PICK answer \in {"invalidCode", "codeExpired"} :
          confirm' = [confirm EXCEPT ![q] =
                        [@ EXCEPT !.pc = "done", !.email = e, !.answer = answer]]
    BY <2>1 DEF L!ConfirmRefused, L!Refusal
  <2>3. confirm[q].pc = "idle"
        /\ UNCHANGED <<login, login_session, refresh_token_session>>
    BY <2>1 DEF L!ConfirmRefused
  <2> QED  BY <1>0, <2>2, <2>3 DEF L!Stored
<1>2. CASE \E e \in Emails, code \in Logins : L!ConfirmFind(q, e, code)
  <2>1. PICK e \in Emails, code \in Logins : L!ConfirmFind(q, e, code)
    BY <1>2
  <2>2. /\ confirm' = [confirm EXCEPT ![q] =
             [@ EXCEPT !.pc = "verify", !.email = e, !.code = code,
                       !.acct = login_session[e].account_id, !.began = now,
                       !.stale = login_session[e].account_id # account_of[e]]]
        /\ confirm[q].pc = "idle" /\ L!Refusal(login_session[e], code) = "none"
        /\ UNCHANGED <<login, login_session, refresh_token_session>>
    BY <2>1 DEF L!ConfirmFind
  <2>3. /\ login[code].email = e /\ login[code].pc = "done"
        /\ login_session[e].account_id # NoAccount
        /\ login_session[e].account_id = account_of[e]
    BY <2>2, AcceptedCode
  <2> HIDE DEF L!Refusal
  <2> QED  BY <1>0, <2>2, <2>3 DEF L!Stored, Presented
<1>3. CASE L!ConfirmCommit(q)
  <2>1. PICK answer : confirm' = [confirm EXCEPT ![q] =
            [@ EXCEPT !.pc = "done", !.valid = FALSE, !.holds = FALSE,
                      !.began = 0, !.paid = TRUE, !.answer = answer]]
    BY <1>3 DEF L!ConfirmCommit
  <2>2. confirm[q].pc = "commit" /\ login' = login
        /\ \/ login_session' = login_session
           \/ login_session' = [login_session EXCEPT ![confirm[q].email] = NoRow]
    BY <1>3 DEF L!ConfirmCommit, L!SessionsAfter
  <2>3. \A row \in refresh_token_session' :
          row \in refresh_token_session \/ row.refresh_token.sub = confirm[q].acct
    BY <1>3 DEF L!ConfirmCommit, L!TokensAfter, L!UnexpiredTokens, L!RefreshRow,
       L!RefreshToken
  <2> QED  BY <1>0, <2>1, <2>2, <2>3 DEF L!Stored, Presented
<1>4. CASE \/ L!ConfirmSwitched(q) \/ L!ConfirmUnpayable(q) \/ L!ConfirmFails(q)
  <2>1. PICK answer \in {"invalidCode", "error"} : confirm' = [confirm EXCEPT ![q] =
                 [@ EXCEPT !.pc = "done", !.valid = FALSE, !.holds = FALSE,
                           !.began = 0, !.answer = answer]]
    BY <1>4 DEF L!ConfirmSwitched, L!ConfirmUnpayable, L!ConfirmFails, L!ConfirmAnswered
  <2>2. confirm[q].pc \in {"verify", "delete", "issue", "commit"}
        /\ UNCHANGED <<login, login_session, refresh_token_session>>
    BY <1>4 DEF L!ConfirmSwitched, L!ConfirmUnpayable, L!ConfirmFails
  <2> QED  BY <1>0, <2>1, <2>2 DEF L!Stored, Presented
<1>5. CASE L!ConfirmVerify(q)
  BY <1>0, <1>5 DEF L!ConfirmVerify, L!Stored, Presented
<1>6. CASE L!ConfirmDelete(q)
  BY <1>0, <1>6 DEF L!ConfirmDelete, L!Stored, Presented
<1>7. CASE L!ConfirmIssue(q)
  BY <1>0, <1>7 DEF L!ConfirmIssue, L!Stored, Presented
<1> QED
  BY <1>1, <1>2, <1>3, <1>4, <1>5, <1>6, <1>7 DEF L!ConfirmStep

(* What a login does to its session, the session of another and the         *)
(* confirmations that rely on both.                                         *)
LEMMA LoginKeepsIInv ==
  ASSUME IInv, UNCHANGED <<now, registration, refresh>>, NEW p \in Logins,
         handed' = handed \cup {Token(q)' : q \in {c \in Confirms : Answered(c)'}},
         \/ \E e \in Emails : L!LoginStart(p, e)
         \/ L!LoginStep(p)
         \/ L!LoginFails(p)
  PROVE  IInv'
<1> DEFINE Moves ==
      /\ DOMAIN login' = Logins
      /\ DOMAIN login'[p] = DOMAIN L!NewLogin
      /\ \A o \in Logins : o # p => login'[o] = login[o]
      /\ login[p].pc # "done" /\ login'[p].pc # "idle"
      /\ login'[p].email \in Emails
      /\ login'[p].acct # NoAccount => account_of[login'[p].email] = login'[p].acct
      /\ DOMAIN login_session' = Emails
      /\ \A e \in Emails : L!Stored(e)' =>
           \/ L!Stored(e) /\ login_session'[e] = login_session[e]
           \/ /\ login_session'[e].account_id # NoAccount =>
                   login_session'[e].code = HashCode(p)
              /\ login_session'[e].account_id = login'[p].acct
              /\ login'[p].email = e
              /\ login'[p].pc = "done"
<1>0. Moves /\ UNCHANGED <<refresh_token_session, confirm>>
  BY LoginMoves
<1> HIDE DEF Moves
<1>a. UNCHANGED <<now, account_of, registration_session, register, enrol, confirm,
                  refresh_token_session, refresh>>
  BY <1>0 DEF registration
<1>1. Shapes'
  BY <1>0, <1>a DEF Moves, IInv, Shapes, R!NewRegister, R!NewConfirm, L!NewLogin,
     L!NewConfirm, T!NewRefresh
<1>2. RegistersHaveEmails' /\ SessionsWereRegistered'
  BY <1>a DEF IInv, RegistersHaveEmails, SessionsWereRegistered, R!Stored
<1>3. EnrolmentsHaveCodes' /\ AccountsWereEnrolled'
  BY <1>a DEF IInv, EnrolmentsHaveCodes, Enrolled, AccountsWereEnrolled
<1>4. AccountsWereFound'
  BY <1>0, <1>a DEF Moves, IInv, AccountsWereFound
<1>5. SessionsWereSaved'
  <2> SUFFICES ASSUME NEW e \in Emails, L!Stored(e)',
                      login_session'[e].account_id # NoAccount
               PROVE  \E o \in Logins :
                        /\ login_session'[e].code = HashCode(o)
                        /\ login_session'[e].account_id = login'[o].acct
                        /\ login'[o].email = e
                        /\ login'[o].pc = "done"
    BY DEF SessionsWereSaved
  <2>1. CASE L!Stored(e) /\ login_session'[e] = login_session[e]
    <3>1. PICK o \in Logins : /\ login_session[e].code = HashCode(o)
                              /\ login_session[e].account_id = login[o].acct
                              /\ login[o].email = e
                              /\ login[o].pc = "done"
      BY <2>1 DEF IInv, SessionsWereSaved
    <3>2. login'[o] = login[o]
      BY <3>1, <1>0 DEF Moves
    <3> QED  BY <2>1, <3>1, <3>2
  <2>2. CASE /\ login_session'[e].code = HashCode(p)
             /\ login_session'[e].account_id = login'[p].acct
             /\ login'[p].email = e
             /\ login'[p].pc = "done"
    BY <2>2
  <2> QED  BY <2>1, <2>2, <1>0 DEF Moves
<1>6. CodesWereSent'
  <2>1. \A q \in Confirms : Presented(q) => Presented(q)'
    BY <1>0, <1>a DEF Moves, Presented
  <2> QED  BY <2>1, <1>a DEF IInv, CodesWereSent, Answered
<1>7. TokensArePaid'
  <2>1. \A token \in handed' : Paid(token.sub)
    <3>1. \A q \in Confirms : Answered(q)' => confirm[q].paid
      BY <1>a DEF Answered, IInv, CodesWereSent
    <3>2. \A q \in Confirms : Answered(q)' => Paid(confirm'[q].acct)
      BY <3>1, <1>a DEF Paid
    <3> QED  BY <3>2 DEF IInv, TokensArePaid, Token, RefreshToken
  <2> QED  BY <2>1, <1>a DEF IInv, TokensArePaid, Paid
<1> QED
  BY <1>1, <1>2, <1>3, <1>4, <1>5, <1>6, <1>7 DEF IInv

(* What a confirmation of a login does to the tokens.                       *)
LEMMA ConfirmKeepsIInv ==
  ASSUME IInv, UNCHANGED <<now, registration, refresh>>, NEW q \in Confirms,
         handed' = handed \cup {Token(c)' : c \in {d \in Confirms : Answered(d)'}},
         \/ \E e \in Emails, code \in Logins :
              L!ConfirmRefused(q, e, code) \/ L!ConfirmFind(q, e, code)
         \/ L!ConfirmStep(q)
         \/ L!ConfirmFails(q)
  PROVE  IInv'
<1> DEFINE Moves ==
      /\ DOMAIN confirm' = Confirms
      /\ DOMAIN confirm'[q] = DOMAIN L!NewConfirm
      /\ \A o \in Confirms : o # q => confirm'[o] = confirm[o]
      /\ confirm'[q].pc # "idle"
      /\ confirm[q].paid => confirm'[q].paid /\ confirm'[q].acct = confirm[q].acct
      /\ confirm'[q].pc \in {"verify", "delete", "issue", "commit"} \/ confirm'[q].paid =>
           Presented(q)'
      /\ Answered(q)' => confirm'[q].paid
      /\ DOMAIN login_session' = Emails
      /\ \A e \in Emails : L!Stored(e)' =>
           L!Stored(e) /\ login_session'[e] = login_session[e]
      /\ \A row \in refresh_token_session' :
           \/ row \in refresh_token_session
           \/ confirm'[q].paid /\ row.refresh_token.sub = confirm'[q].acct
<1>a. UNCHANGED <<now, account_of, registration_session, register, enrol, refresh>>
  BY DEF registration
<1>0. Moves /\ login' = login
  BY <1>a, ConfirmMoves
<1> HIDE DEF Moves
<1>1. Shapes'
  BY <1>0, <1>a DEF Moves, IInv, Shapes, R!NewRegister, R!NewConfirm, L!NewLogin,
     L!NewConfirm, T!NewRefresh
<1>2. RegistersHaveEmails' /\ SessionsWereRegistered'
  BY <1>a DEF IInv, RegistersHaveEmails, SessionsWereRegistered, R!Stored
<1>3. EnrolmentsHaveCodes' /\ AccountsWereEnrolled' /\ AccountsWereFound'
  BY <1>0, <1>a DEF IInv, EnrolmentsHaveCodes, Enrolled, AccountsWereEnrolled,
     AccountsWereFound
<1>4. SessionsWereSaved'
  BY <1>0 DEF Moves, IInv, SessionsWereSaved
<1>5. CodesWereSent'
  <2>1. ASSUME NEW o \in Confirms, o # q
        PROVE  confirm'[o] = confirm[o] /\ (Presented(o)' <=> Presented(o))
    BY <2>1, <1>0, <1>a DEF Moves, Presented
  <2>2. /\ confirm'[q].pc \in {"verify", "delete", "issue", "commit"} \/ confirm'[q].paid =>
             Presented(q)'
        /\ confirm'[q].pc # "idle"
        /\ confirm'[q].answer = "tokens" => confirm'[q].paid
    BY <1>0 DEF Moves, Answered
  <2> HIDE DEF Presented
  <2> QED  BY <2>1, <2>2 DEF IInv, CodesWereSent, Answered
<1>6. TokensArePaid'
  <2>1. \A a : Paid(a) => Paid(a)'
    BY <1>0 DEF Moves, Paid
  <2>2. \A o \in Confirms : Answered(o)' => Paid(confirm[o].acct)'
    BY <1>5 DEF CodesWereSent, Paid
  <2>3. \A token \in handed' : Paid(token.sub)'
    BY <2>1, <2>2 DEF IInv, TokensArePaid, Token, RefreshToken
  <2>4. \A row \in refresh_token_session' : Paid(row.refresh_token.sub)'
    BY <2>1, <1>0 DEF Moves, IInv, TokensArePaid, Paid
  <2> QED  BY <2>1, <2>3, <2>4, <1>a DEF IInv, TokensArePaid
<1> QED
  BY <1>1, <1>2, <1>3, <1>4, <1>5, <1>6 DEF IInv

(* Every step of a login is one of the two.                                 *)
LEMMA LoginsKeepIInv ==
  ASSUME IInv, Login
  PROVE  IInv'
<1>1. /\ UNCHANGED <<now, registration, refresh>> /\ L!Requests
      /\ handed' = handed \cup {Token(q)' : q \in {c \in Confirms : Answered(c)'}}
  BY DEF Login, TokensAreAnswered
<1> QED
  BY <1>1, LoginKeepsIInv, ConfirmKeepsIInv DEF L!Requests

-----------------------------------------------------------------------------
(* Refresh *)

(* A refresh hands the subject of the token it was given on, to the row and *)
(* the token of the new pair.                                               *)
LEMMA RefreshKeepsIInv ==
  ASSUME IInv, Refresh
  PROVE  IInv'
<1>a. /\ UNCHANGED <<now, account_of, registration_session, register, enrol,
                     login_session, login, confirm>>
      /\ T!Requests
  BY DEF Refresh, registration, logins
<1>b. PICK r \in Refreshes :
        \/ \E token \in handed : T!RefreshParse(r, token) \/ T!RefreshInvalid(r, token)
        \/ T!RefreshStep(r)
        \/ T!RefreshFails(r)
  BY <1>a DEF T!Requests
<1> DEFINE Moves ==
      /\ DOMAIN refresh' = Refreshes
      /\ DOMAIN refresh'[r] = DOMAIN T!NewRefresh
      /\ \A o \in Refreshes : o # r => refresh'[o] = refresh[o]
      /\ refresh'[r].pc \notin {"idle", "done"} => Paid(refresh'[r].token.sub)
      /\ \A token \in handed' : Paid(token.sub)
      /\ \A row \in refresh_token_session' : Paid(row.refresh_token.sub)
<1>0. Moves
  <2>0. /\ DOMAIN refresh = Refreshes /\ DOMAIN refresh[r] = DOMAIN T!NewRefresh
        /\ refresh[r].pc \notin {"idle", "done"} => Paid(refresh[r].token.sub)
        /\ \A token \in handed : Paid(token.sub)
        /\ \A row \in refresh_token_session : Paid(row.refresh_token.sub)
    BY DEF IInv, Shapes, TokensArePaid
  <2> HIDE DEF Paid
  <2> USE DEF T!NewRefresh
  <2>1. CASE \E token \in handed : T!RefreshParse(r, token)
    BY <2>0, <2>1 DEF T!RefreshParse
  <2>2. CASE \E token \in handed : T!RefreshInvalid(r, token)
    BY <2>0, <2>2 DEF T!RefreshInvalid, T!RefreshAnswered
  <2>3. CASE T!RefreshFind(r)
    BY <2>0, <2>3 DEF T!RefreshFind, T!RefreshAnswered
  <2>4. CASE T!RefreshPurge(r)
    BY <2>0, <2>4 DEF T!RefreshPurge, T!RefreshAnswered
  <2>5. CASE T!RefreshClean(r)
    BY <2>0, <2>5 DEF T!RefreshClean, T!Unexpired, T!UnexpiredTokens
  <2>6. CASE T!RefreshSign(r)
    BY <2>0, <2>6 DEF T!RefreshSign
  <2>a. T!NewRow(r).refresh_token.sub = refresh[r].token.sub
    BY DEF T!NewRow, T!RefreshRow, T!RefreshToken
  <2>7. CASE T!RefreshSave(r)
    BY <2>0, <2>7, <2>a DEF T!RefreshSave, T!RefreshAnswered
  <2>8. CASE T!RefreshRetire(r)
    BY <2>0, <2>8, <2>a DEF T!RefreshRetire
  <2>9. CASE T!RefreshFails(r)
    BY <2>0, <2>9 DEF T!RefreshFails, T!RefreshAnswered
  <2> QED
    BY <1>b, <2>1, <2>2, <2>3, <2>4, <2>5, <2>6, <2>7, <2>8, <2>9 DEF T!RefreshStep
<1> HIDE DEF Moves
<1>1. Shapes'
  BY <1>0, <1>a DEF Moves, IInv, Shapes, R!NewRegister, R!NewConfirm, L!NewLogin,
     L!NewConfirm, T!NewRefresh
<1>2. RegistersHaveEmails' /\ SessionsWereRegistered'
  BY <1>a DEF IInv, RegistersHaveEmails, SessionsWereRegistered, R!Stored
<1>3. EnrolmentsHaveCodes' /\ AccountsWereEnrolled' /\ AccountsWereFound'
  BY <1>a DEF IInv, EnrolmentsHaveCodes, Enrolled, AccountsWereEnrolled,
     AccountsWereFound
<1>4. SessionsWereSaved' /\ CodesWereSent'
  BY <1>a DEF IInv, SessionsWereSaved, L!Stored, CodesWereSent, Presented, Answered
<1>5. TokensArePaid'
  <2>1. \A a : Paid(a) <=> Paid(a)'
    BY <1>a DEF Paid
  <2> QED  BY <2>1, <1>0 DEF Moves, IInv, TokensArePaid
<1> QED
  BY <1>1, <1>2, <1>3, <1>4, <1>5 DEF IInv

-----------------------------------------------------------------------------
(* Every step of the composition preserves the invariant; the clock, the    *)
(* end of the instance and a stutter leave all it speaks of alone.          *)
LEMMA StepIInv == IInv /\ [Next]_vars => IInv'
<1> SUFFICES ASSUME IInv, [Next]_vars PROVE IInv'
  OBVIOUS
<1>1. ASSUME UNCHANGED <<registration, logins, tokens>>, now' \in Nat
      PROVE  IInv'
  <2> UNCHANGED <<account_of, registration_session, register, enrol, login_session,
                  login, confirm, refresh_token_session, handed, refresh>>
    BY <1>1 DEF registration, logins, tokens
  <2>1. Shapes'
    BY <1>1 DEF IInv, Shapes, R!NewRegister, R!NewConfirm, L!NewLogin, L!NewConfirm,
       T!NewRefresh
  <2>2. RegistersHaveEmails' /\ SessionsWereRegistered'
    BY DEF IInv, RegistersHaveEmails, SessionsWereRegistered, R!Stored
  <2>3. EnrolmentsHaveCodes' /\ AccountsWereEnrolled' /\ AccountsWereFound'
    BY DEF IInv, EnrolmentsHaveCodes, Enrolled, AccountsWereEnrolled, AccountsWereFound
  <2>4. SessionsWereSaved' /\ CodesWereSent' /\ TokensArePaid'
    BY DEF IInv, SessionsWereSaved, L!Stored, CodesWereSent, Presented, Answered,
       TokensArePaid, Paid
  <2> QED  BY <2>1, <2>2, <2>3, <2>4 DEF IInv
<1>2. now \in Nat
  BY DEF IInv, Shapes
<1>3. CASE Tick
  BY <1>1, <1>2, <1>3 DEF Tick
<1>4. CASE Terminating \/ UNCHANGED vars
  BY <1>1, <1>2, <1>4 DEF Terminating, vars
<1> QED
  BY <1>3, <1>4, RegistrationKeepsIInv, LoginsKeepIInv, RefreshKeepsIInv DEF Next

(* So the invariant holds from the start. *)
LEMMA Invariance == Spec => []IInv
BY InitIInv, StepIInv, PTL DEF Spec

(* What a refresh token says was earned (registration.go:88-114,            *)
(* login.go:183-234, token.go:99-133): its account was created with the     *)
(* code sent to its e-mail, and a code of a login sent to the same e-mail   *)
(* was presented, for every number of requests and however they interleave. *)
THEOREM TokensAreEarned == Spec => []TokensNeedBothCodes
<1>1. IInv => TokensNeedBothCodes
  <2> SUFFICES ASSUME IInv,
                      NEW token \in handed \cup {row.refresh_token : row \in refresh_token_session}
               PROVE  LET a == token.sub
                          e == enrol[a].email
                      IN /\ account_of[e] = a
                         /\ register[enrol[a].code].email = e
                         /\ \E q \in Confirms : /\ confirm[q].paid
                                                /\ confirm[q].acct = a
                                                /\ confirm[q].email = e
                                                /\ login[confirm[q].code].email = e
    BY DEF TokensNeedBothCodes
  <2>1. Paid(token.sub)
    BY DEF IInv, TokensArePaid
  <2>2. PICK q \in Confirms : confirm[q].paid /\ confirm[q].acct = token.sub
    BY <2>1 DEF Paid
  <2>3. Presented(q)
    BY <2>2 DEF IInv, CodesWereSent
  <2>4. /\ confirm[q].email \in Emails
        /\ account_of[confirm[q].email] = token.sub
        /\ token.sub # NoAccount
        /\ login[confirm[q].code].email = confirm[q].email
    BY <2>2, <2>3 DEF Presented
  <2>5. token.sub \in Enrolments /\ enrol[token.sub].email = confirm[q].email
        /\ Enrolled(token.sub)
    BY <2>4 DEF IInv, Shapes, AccountsWereEnrolled, EnrolmentsHaveCodes
  <2> QED  BY <2>2, <2>4, <2>5 DEF Enrolled
<1> QED
  BY <1>1, Invariance, PTL

-----------------------------------------------------------------------------
(* What Login and Tokens assume of the others *)

(* userMicro carries out a call only while it is sent, and that is before   *)
(* the account of its confirmation is there.                                *)
LEMMA CreatedByLogin ==
  ASSUME IInv, Registration, NEW a \in Enrolments, R!UserCreates(a)
  PROVE  enrol[a].email \in Emails /\ L!CreateAccount(enrol[a].email, a)
<1> DEFINE e == enrol[a].email
<1>1. /\ enrol[a].call = "sent" /\ account_of[e] = NoAccount
      /\ account_of' = [account_of EXCEPT ![e] = a]
      /\ enrol' = [enrol EXCEPT ![a].call = "created"]
  BY DEF R!UserCreates, R!Free
<1>2. e \in Emails
  BY <1>1 DEF IInv, EnrolmentsHaveCodes, Enrolled
<1>3. AccountState[a] = "unborn"
  BY <1>1 DEF AccountState
<1>4. AccountState' = [AccountState EXCEPT ![a] = "present"]
  <2>1. DOMAIN enrol = Enrolments /\ DOMAIN enrol[a] = DOMAIN R!NewConfirm
    BY DEF IInv, Shapes
  <2>2. /\ enrol'[a].call = "created"
        /\ \A o \in Enrolments : o # a => enrol'[o] = enrol[o]
    BY <1>1, <2>1 DEF R!NewConfirm
  <2> QED  BY <2>2 DEF AccountState
<1>5. UNCHANGED <<now, login_session, refresh_token_session, login, confirm>>
  BY DEF Registration, logins, tokens
<1> HIDE DEF e
<1>6. L!CreateAccount(e, a)
  BY <1>1, <1>3, <1>4, <1>5 DEF L!CreateAccount
<1> QED  BY <1>2, <1>6 DEF e

(* Login may take accounts for something that appears under a free e-mail,  *)
(* with an id of its own, and stays (registration.go:103; login.go:133-145, *)
(* 220).                                                                    *)
THEOREM AccountsAppearOnce == Spec => LoginsSeeAccounts
<1>1. ASSUME IInv, [Next]_vars, account_of' # account_of
      PROVE  \E e \in Emails, a \in Enrolments : L!CreateAccount(e, a)
  <2>1. Registration
    BY <1>1 DEF Next, vars, Login, Refresh, Tick, Terminating, registration
  <2>2. PICK a \in Enrolments : R!UserCreates(a)
    BY <1>1, <2>1, RegisterMoves, EnrolMoves DEF Registration, R!Requests
  <2>3. enrol[a].email \in Emails /\ L!CreateAccount(enrol[a].email, a)
    BY <1>1, <2>1, <2>2, CreatedByLogin
  <2> QED  BY <2>3
<1> QED
  BY <1>1, Invariance, PTL DEF Spec, LoginsSeeAccounts

(* A transaction signs after it has begun, and pays when it ends; the token *)
(* of an answer is with the client.                                         *)
SignedInTime ==
  \A q \in Confirms :
    /\ confirm[q].paid => confirm[q].pc = "done"
    /\ confirm[q].pc \in {"verify", "delete", "issue", "commit"} =>
         confirm[q].began \in 0 .. now
    /\ confirm[q].pc = "commit" =>
         confirm[q].issued \in Nat /\ confirm[q].began <= confirm[q].issued

AnswersAreHanded == \A q \in Confirms : Answered(q) => Token(q) \in handed

SInv == SignedInTime /\ AnswersAreHanded

(* Nothing new is handed to a client when no answer is new.                 *)
LEMMA NothingIsHanded ==
  ASSUME SInv,
         handed' = handed \cup {Token(q)' : q \in {c \in Confirms : Answered(c)'}},
         \A q \in Confirms : Answered(q)' =>
           /\ Answered(q)
           /\ confirm'[q].acct = confirm[q].acct
           /\ confirm'[q].issued = confirm[q].issued
  PROVE  handed' = handed
<1>1. \A q \in Confirms : Answered(q)' => Token(q)' \in handed
  BY DEF SInv, AnswersAreHanded, Token
<1> QED
  BY <1>1

(* What Tokens sees of a step of a confirmation.                            *)
LEMMA ConfirmsAreLogins ==
  ASSUME IInv, SInv, UNCHANGED <<now, registration, refresh>>, NEW q \in Confirms,
         handed' = handed \cup {Token(c)' : c \in {d \in Confirms : Answered(d)'}},
         \/ \E e \in Emails, code \in Logins :
              L!ConfirmRefused(q, e, code) \/ L!ConfirmFind(q, e, code)
         \/ L!ConfirmStep(q)
         \/ L!ConfirmFails(q)
  PROVE  /\ SInv'
         /\ \/ T!LoginSign(q, confirm[q].acct) /\ confirm[q].acct \in Enrolments
            \/ T!LoginCommit(q)
            \/ T!LoginFails(q)
            \/ UNCHANGED T!vars
<1>0. /\ DOMAIN confirm = Confirms /\ DOMAIN confirm[q] = DOMAIN L!NewConfirm
      /\ now \in Nat
      /\ confirm[q].paid => confirm[q].pc = "done"
      /\ Answered(q) => confirm[q].paid
  BY DEF IInv, Shapes, CodesWereSent, SInv, SignedInTime
<1>a. \A o \in Confirms : o # q => confirm'[o] = confirm[o]
  BY ConfirmMoves DEF registration
<1>b. confirm[q].pc # "done"
  BY DEF L!ConfirmRefused, L!ConfirmFind, L!ConfirmStep, L!ConfirmVerify,
     L!ConfirmDelete, L!ConfirmSwitched, L!ConfirmIssue, L!ConfirmUnpayable,
     L!ConfirmCommit, L!ConfirmFails
<1>c. ~confirm[q].paid /\ ~Answered(q)
  BY <1>0, <1>b
(* The steps after which the confirmation has been paid nothing. *)
<1>d. ASSUME ~confirm'[q].paid, ~Answered(q)', UNCHANGED refresh_token_session,
             confirm'[q].pc \in {"verify", "delete", "issue", "commit"} =>
               confirm'[q].began \in 0 .. now,
             confirm'[q].pc = "commit" =>
               confirm'[q].issued \in Nat /\ confirm'[q].began <= confirm'[q].issued
      PROVE  SInv' /\ handed' = handed
  <2>1. handed' = handed
    <3>1. \A o \in Confirms : Answered(o)' => Answered(o) /\ confirm'[o] = confirm[o]
      BY <1>a, <1>d DEF Answered
    <3> QED  BY <3>1, NothingIsHanded
  <2>2. SignedInTime'
    BY <1>a, <1>d DEF SInv, SignedInTime
  <2>3. AnswersAreHanded'
    BY <1>a, <1>d, <2>1 DEF SInv, AnswersAreHanded, Answered, Token
  <2> QED  BY <2>1, <2>2, <2>3 DEF SInv
<1>e. ASSUME SeenByTokens(q)' = SeenByTokens(q)
      PROVE  SeenLogins' = SeenLogins
  BY <1>a, <1>e DEF SeenLogins, SeenByTokens
<1>f. ASSUME NEW seen, SeenByTokens(q)' = seen
      PROVE  SeenLogins' = [SeenLogins EXCEPT ![q] = seen]
  BY <1>a, <1>f DEF SeenLogins, SeenByTokens
<1>g. SeenLogins[q] = SeenByTokens(q)
  BY DEF SeenLogins
<1> USE DEF L!NewConfirm
<1>1. CASE \E e \in Emails, code \in Logins : L!ConfirmRefused(q, e, code)
  <2>1. PICK e \in Emails, code \in Logins : L!ConfirmRefused(q, e, code)
    BY <1>1
  <2>2. PICK answer \in {"invalidCode", "codeExpired"} :
          confirm' = [confirm EXCEPT ![q] =
                        [@ EXCEPT !.pc = "done", !.email = e, !.answer = answer]]
    BY <2>1 DEF L!ConfirmRefused, L!Refusal
  <2>3. confirm[q].pc = "idle" /\ UNCHANGED refresh_token_session
    BY <2>1 DEF L!ConfirmRefused
  <2>4. SInv' /\ handed' = handed
    BY <1>0, <1>c, <1>d, <2>2, <2>3 DEF Answered
  <2>5. SeenLogins' = SeenLogins
    BY <1>0, <1>c, <1>e, <2>2, <2>3 DEF SeenByTokens
  <2> QED  BY <2>3, <2>4, <2>5 DEF T!vars
<1>2. CASE \E e \in Emails, code \in Logins : L!ConfirmFind(q, e, code)
  <2>1. PICK e \in Emails, code \in Logins : L!ConfirmFind(q, e, code)
    BY <1>2
  <2>2. /\ \E acct, stale : confirm' = [confirm EXCEPT ![q] =
               [@ EXCEPT !.pc = "verify", !.email = e, !.code = code, !.acct = acct,
                         !.began = now, !.stale = stale]]
        /\ confirm[q].pc = "idle" /\ UNCHANGED refresh_token_session
    BY <2>1 DEF L!ConfirmFind
  <2>3. SInv' /\ handed' = handed
    BY <1>0, <1>c, <1>d, <2>2 DEF Answered
  <2>4. SeenLogins' = SeenLogins
    BY <1>0, <1>c, <1>e, <2>2 DEF SeenByTokens
  <2> QED  BY <2>2, <2>3, <2>4 DEF T!vars
<1>3. CASE L!ConfirmVerify(q) \/ L!ConfirmDelete(q)
  <2>1. /\ confirm[q].pc \in {"verify", "delete"} /\ UNCHANGED refresh_token_session
        /\ \E pc \in {"delete", "issue"} : \E valid, holds :
             confirm' = [confirm EXCEPT ![q] =
                           [@ EXCEPT !.pc = pc, !.valid = valid, !.holds = holds]]
    <3>1. CASE L!ConfirmVerify(q)
      <4>1. PICK valid : confirm' = [confirm EXCEPT ![q] =
                                       [@ EXCEPT !.pc = "delete", !.valid = valid]]
        BY <3>1 DEF L!ConfirmVerify
      <4>2. confirm' = [confirm EXCEPT ![q] = [@ EXCEPT !.pc = "delete", !.valid = valid,
                                                        !.holds = confirm[q].holds]]
        BY <1>0, <4>1
      <4> QED  BY <3>1, <4>2 DEF L!ConfirmVerify
    <3>2. CASE L!ConfirmDelete(q)
      <4>1. PICK holds : confirm' = [confirm EXCEPT ![q] =
                                       [@ EXCEPT !.pc = "issue", !.holds = holds]]
        BY <3>2 DEF L!ConfirmDelete
      <4>2. confirm' = [confirm EXCEPT ![q] = [@ EXCEPT !.pc = "issue",
                              !.valid = confirm[q].valid, !.holds = holds]]
        BY <1>0, <4>1
      <4> QED  BY <3>2, <4>2 DEF L!ConfirmDelete
    <3> QED  BY <1>3, <3>1, <3>2
  <2>2. confirm[q].began \in 0 .. now
    BY <2>1 DEF SInv, SignedInTime
  <2>3. SInv' /\ handed' = handed
    BY <1>0, <1>c, <1>d, <2>1, <2>2 DEF Answered
  <2>4. SeenLogins' = SeenLogins
    BY <1>0, <1>c, <1>e, <2>1 DEF SeenByTokens
  <2> QED  BY <2>1, <2>3, <2>4 DEF T!vars
<1>4. CASE L!ConfirmIssue(q)
  <2>1. /\ confirm[q].pc = "issue" /\ UNCHANGED refresh_token_session
        /\ confirm' = [confirm EXCEPT ![q] = [@ EXCEPT !.pc = "commit", !.issued = now]]
    BY <1>4 DEF L!ConfirmIssue
  <2>2. confirm[q].began \in 0 .. now
    BY <2>1 DEF SInv, SignedInTime
  <2>3. SInv' /\ handed' = handed
    <3>1. /\ ~confirm'[q].paid /\ ~Answered(q)'
          /\ confirm'[q].began = confirm[q].began /\ confirm'[q].issued = now
      BY <1>0, <1>c, <2>1 DEF Answered
    <3>2. confirm'[q].issued \in Nat /\ confirm'[q].began <= confirm'[q].issued
      BY <1>0, <2>2, <3>1
    <3> QED  BY <1>d, <2>1, <2>2, <3>1, <3>2
  <2>4. confirm[q].acct \in Enrolments
    BY <2>1 DEF IInv, CodesWereSent, Presented, Shapes
  <2>5. /\ SeenByTokens(q).pc = "idle"
        /\ SeenByTokens(q)' = [pc |-> "commit", acct |-> confirm[q].acct, issued |-> now]
    BY <1>0, <1>c, <2>1 DEF SeenByTokens
  <2>6. SeenLogins' = [SeenLogins EXCEPT ![q] =
                         [pc |-> "commit", acct |-> confirm[q].acct, issued |-> now]]
    BY <1>f, <2>5
  <2>7. T!LoginSign(q, confirm[q].acct)
    BY <1>g, <2>1, <2>3, <2>5, <2>6 DEF T!LoginSign
  <2> QED  BY <2>3, <2>4, <2>7
<1>5. CASE L!ConfirmSwitched(q) \/ L!ConfirmUnpayable(q) \/ L!ConfirmFails(q)
  <2>1. /\ \E answer \in {"invalidCode", "error"} : confirm' = [confirm EXCEPT ![q] =
                 [@ EXCEPT !.pc = "done", !.valid = FALSE, !.holds = FALSE,
                           !.began = 0, !.answer = answer]]
        /\ UNCHANGED refresh_token_session
    BY <1>5 DEF L!ConfirmSwitched, L!ConfirmUnpayable, L!ConfirmFails, L!ConfirmAnswered
  <2>2. SInv' /\ handed' = handed
    BY <1>0, <1>c, <1>d, <2>1 DEF Answered
  <2>3. CASE confirm[q].pc = "commit"
    <3>1. SeenByTokens(q).pc = "commit" /\ SeenByTokens(q)' = T!NewLogin
      BY <1>0, <1>c, <2>1, <2>3 DEF SeenByTokens, T!NewLogin
    <3>2. SeenLogins' = [SeenLogins EXCEPT ![q] = T!NewLogin]
      BY <1>f, <3>1
    <3>3. T!LoginFails(q)
      BY <1>g, <2>1, <2>2, <3>1, <3>2 DEF T!LoginFails
    <3> QED  BY <2>2, <3>3
  <2>4. CASE confirm[q].pc # "commit"
    <3>1. SeenLogins' = SeenLogins
      BY <1>0, <1>c, <1>e, <2>1, <2>4 DEF SeenByTokens
    <3> QED  BY <2>1, <2>2, <3>1 DEF T!vars
  <2> QED  BY <2>3, <2>4
<1>6. CASE L!ConfirmCommit(q)
  <2>1. PICK answer \in {"tokens", "error"} : confirm' = [confirm EXCEPT ![q] =
            [@ EXCEPT !.pc = "done", !.valid = FALSE, !.holds = FALSE,
                      !.began = 0, !.paid = TRUE, !.answer = answer]]
    BY <1>6 DEF L!ConfirmCommit
  <2>2. PICK db \in DatabaseClock(confirm[q].began, Skew) :
          refresh_token_session' =
            UnexpiredTokens(refresh_token_session, db)
              \cup {RefreshRow(confirm[q].acct, confirm[q].issued, RefreshTTL)}
    BY <1>6 DEF L!ConfirmCommit, L!TokensAfter, L!DatabaseClock, DatabaseClock,
       L!UnexpiredTokens, UnexpiredTokens, L!Before, Before, L!RefreshRow, RefreshRow,
       L!RefreshToken, RefreshToken
  <2>3. /\ confirm[q].pc = "commit"
        /\ confirm[q].began \in 0 .. confirm[q].issued
    BY <1>6 DEF L!ConfirmCommit, SInv, SignedInTime
  <2>4. handed' \in {handed, handed \cup {Token(q)}}
    <3>1. \A o \in Confirms : o # q /\ Answered(o)' => Token(o)' \in handed
      BY <1>a DEF SInv, AnswersAreHanded, Answered, Token
    <3>2. Token(q)' = Token(q)
      BY <1>0, <2>1 DEF Token
    <3> QED  BY <3>1, <3>2
  <2>5. SInv'
    <3>1. SignedInTime'
      BY <1>0, <1>a, <2>1 DEF SInv, SignedInTime
    <3>2. AnswersAreHanded'
      BY DEF AnswersAreHanded
    <3> QED  BY <3>1, <3>2 DEF SInv
  <2>6. SeenByTokens(q) = [pc |-> "commit", acct |-> confirm[q].acct,
                           issued |-> confirm[q].issued]
    BY <1>c, <2>3 DEF SeenByTokens
  <2>7. SeenByTokens(q)' = [SeenByTokens(q) EXCEPT !.pc = "done"]
    BY <1>0, <2>1, <2>6 DEF SeenByTokens
  <2>8. SeenLogins' = [SeenLogins EXCEPT ![q].pc = "done"]
    BY <1>f, <1>g, <2>7
  <2>9. /\ T!LoginRow(q) = RefreshRow(confirm[q].acct, confirm[q].issued, RefreshTTL)
        /\ T!LoginRow(q).refresh_token = Token(q)
    BY <1>g, <2>6 DEF T!LoginRow, T!RefreshRow, RefreshRow, T!RefreshToken, RefreshToken,
       Token
  <2>10. \A rows, d : T!UnexpiredTokens(rows, d) = UnexpiredTokens(rows, d)
    BY DEF T!UnexpiredTokens, UnexpiredTokens, T!Before, Before
  <2>11. T!DatabaseClock(confirm[q].began, Skew) = DatabaseClock(confirm[q].began, Skew)
    BY DEF T!DatabaseClock, DatabaseClock
  <2> HIDE DEF SeenByTokens
  <2>12. T!LoginCommit(q)
    <3>1. SeenLogins[q].pc = "commit" /\ SeenLogins[q].issued = confirm[q].issued
      BY <1>g, <2>6
    <3>2. refresh_token_session' =
            T!UnexpiredTokens(refresh_token_session, db) \cup {T!LoginRow(q)}
      BY <2>2, <2>9, <2>10
    <3>3. \E began \in 0 .. SeenLogins[q].issued : \E d \in T!DatabaseClock(began, Skew) :
            refresh_token_session' =
              T!UnexpiredTokens(refresh_token_session, d) \cup {T!LoginRow(q)}
      <4>1. confirm[q].began \in 0 .. SeenLogins[q].issued
        BY <2>3, <3>1
      <4>2. db \in T!DatabaseClock(confirm[q].began, Skew)
        BY <2>2, <2>11
      <4> QED  BY <3>2, <4>1, <4>2, Zenon
    <3>4. handed' \in {handed, handed \cup {T!LoginRow(q).refresh_token}}
      BY <2>4, <2>9
    <3> QED  BY <2>8, <3>1, <3>3, <3>4 DEF T!LoginCommit
  <2> QED  BY <2>5, <2>12
<1> QED
  BY <1>1, <1>2, <1>3, <1>4, <1>5, <1>6 DEF L!ConfirmStep

(* What Tokens sees of any step: one of its own, or nothing.                *)
LEMMA StepsAreSeen ==
  ASSUME IInv, SInv, [Next]_vars
  PROVE  SInv' /\ [T!Next]_(T!vars)
<1>1. ASSUME UNCHANGED confirm, now' \in {now, now + 1}, handed \subseteq handed'
      PROVE  SInv' /\ SeenLogins' = SeenLogins
  <2>1. now \in Nat
    BY DEF IInv, Shapes
  <2>2. SignedInTime'
    BY <1>1, <2>1 DEF SInv, SignedInTime
  <2>3. AnswersAreHanded'
    BY <1>1 DEF SInv, AnswersAreHanded, Answered, Token
  <2> QED  BY <1>1, <2>2, <2>3 DEF SInv, SeenLogins, SeenByTokens
<1>2. CASE Registration
  <2>1. UNCHANGED <<now, confirm, refresh_token_session, handed, refresh>>
    BY <1>2 DEF Registration, logins, tokens
  <2> QED  BY <1>1, <2>1 DEF T!vars
<1>3. CASE Login
  <2>1. /\ UNCHANGED <<now, registration, refresh>> /\ L!Requests
        /\ handed' = handed \cup {Token(q)' : q \in {c \in Confirms : Answered(c)'}}
    BY <1>3 DEF Login, TokensAreAnswered
  <2>2. ASSUME NEW p \in Logins,
               \/ \E e \in Emails : L!LoginStart(p, e)
               \/ L!LoginStep(p)
               \/ L!LoginFails(p)
        PROVE  SInv' /\ UNCHANGED T!vars
    <3>1. UNCHANGED <<refresh_token_session, confirm>>
      BY <2>2, LoginMoves
    <3>2. handed' = handed
      BY <2>1, <3>1, NothingIsHanded DEF Answered
    <3> QED  BY <1>1, <2>1, <3>1, <3>2 DEF T!vars
  <2>3. ASSUME NEW q \in Confirms,
               \/ \E e \in Emails, code \in Logins :
                    L!ConfirmRefused(q, e, code) \/ L!ConfirmFind(q, e, code)
               \/ L!ConfirmStep(q)
               \/ L!ConfirmFails(q)
        PROVE  SInv' /\ [T!Next]_(T!vars)
    BY <2>1, <2>3, ConfirmsAreLogins DEF T!Next
  <2> QED  BY <2>1, <2>2, <2>3 DEF L!Requests
<1>4. CASE Refresh
  <2>1. UNCHANGED <<now, confirm>> /\ T!Requests
    BY <1>4 DEF Refresh, logins
  <2>2. handed \subseteq handed'
    BY <2>1 DEF T!Requests, T!RefreshParse, T!RefreshInvalid, T!RefreshStep, T!RefreshFind,
       T!RefreshPurge, T!RefreshClean, T!RefreshSign, T!RefreshSave, T!RefreshRetire,
       T!RefreshFails
  <2> QED  BY <1>1, <2>1, <2>2 DEF T!Next
<1>5. CASE Tick
  <2>1. /\ now < MaxTime /\ now' = now + 1
        /\ UNCHANGED <<confirm, refresh_token_session, handed, refresh>>
    BY <1>5 DEF Tick, logins, tokens
  <2>2. SInv' /\ T!Tick
    BY <1>1, <2>1 DEF T!Tick
  <2> QED  BY <2>2 DEF T!Next
<1>6. CASE Terminating \/ UNCHANGED vars
  <2>1. UNCHANGED <<now, confirm, refresh_token_session, handed, refresh>>
    BY <1>6 DEF Terminating, vars, logins, tokens
  <2> QED  BY <1>1, <2>1 DEF T!vars
<1> QED
  BY <1>2, <1>3, <1>4, <1>5, <1>6 DEF Next

(* Tokens may take a login for two steps of its own: the row appears with   *)
(* the commit, cleaned up by a clock that is not ahead of the signing, and  *)
(* its token leaves authMicro then or never (token.go:70-97, 172-176).      *)
THEOREM LoginsFeedTokens == Spec => RefreshesSeeLogins
<1>1. Init => SInv /\ T!Init
  BY DEF Init, L!Init, L!NewConfirm, SInv, SignedInTime, AnswersAreHanded, Answered
<1>2. IInv /\ SInv /\ [Next]_vars => SInv' /\ [T!Next]_(T!vars)
  BY StepsAreSeen
<1> QED
  BY <1>1, <1>2, Invariance, PTL DEF Spec, RefreshesSeeLogins, T!Spec

-----------------------------------------------------------------------------
(* Login beside the others                                                  *)

(* A call is sent once, and rows are of accounts and instants.              *)
CallsAreNew == \A a \in Enrolments : enrol[a].pc = "create" => enrol[a].call = "none"

TokensAreTyped ==
  /\ refresh_token_session \subseteq L!RefreshRows(Enrolments)
  /\ \A r \in Refreshes : refresh[r].issued \in Nat

(* A row of an account and an instant is typed.                             *)
LEMMA RowIsTyped ==
  ASSUME NEW a \in Enrolments, NEW i \in Nat
  PROVE  /\ L!RefreshRow(a, i, RefreshTTL) \in L!RefreshRows(Enrolments)
         /\ T!RefreshRow(a, i, RefreshTTL) \in L!RefreshRows(Enrolments)
BY TimesAreNatural DEF L!RefreshRow, L!RefreshRows, L!RefreshToken, T!RefreshRow,
   T!RefreshToken

(* A registration is nothing to Login, or the account that appears.         *)
LEMMA RegistrationsAreSeen ==
  ASSUME IInv, CallsAreNew, Registration
  PROVE  CallsAreNew' /\ [L!SharedNext]_(L!vars)
<1>1. /\ UNCHANGED <<now, login_session, login, confirm, refresh_token_session>>
      /\ R!Requests
  BY DEF Registration, logins, tokens
<1>2. ASSUME UNCHANGED <<account_of, enrol>>
      PROVE  CallsAreNew' /\ UNCHANGED L!vars
  BY <1>1, <1>2 DEF CallsAreNew, AccountState, L!vars
<1>3. ASSUME NEW p \in Registers,
             \/ \E e \in Emails : R!RegisterStart(p, e)
             \/ R!RegisterStep(p)
             \/ R!RegisterFails(p)
      PROVE  UNCHANGED <<account_of, enrol>>
  BY <1>3, RegisterMoves
<1>4. ASSUME NEW a \in Enrolments,
             \/ \E e \in Emails, code \in Registers :
                  R!ConfirmRefused(a, e, code) \/ R!ConfirmFind(a, e, code)
             \/ R!ConfirmStep(a)
             \/ R!ConfirmFails(a)
             \/ R!UserStep(a)
             \/ R!CallIsLost(a)
      PROVE  CallsAreNew' /\ [L!SharedNext]_(L!vars)
  <2>1. /\ \A o \in Enrolments : o # a => enrol'[o] = enrol[o]
        /\ account_of' = account_of \/ R!UserCreates(a)
    BY <1>4, EnrolMoves
  <2>2. /\ DOMAIN enrol = Enrolments /\ DOMAIN enrol[a] = DOMAIN R!NewConfirm
        /\ enrol[a].pc = "idle" => enrol[a].call = "none"
        /\ enrol[a].pc = "create" => enrol[a].call = "none"
    BY DEF IInv, Shapes, EnrolmentsHaveCodes, CallsAreNew
  <2> DEFINE Seen == /\ enrol'[a].pc = "create" => enrol'[a].call = "none"
                     /\ \/ R!UserCreates(a)
                        \/ enrol[a].call = "created" <=> enrol'[a].call = "created"
  <2>3. Seen
    <3>1. ASSUME NEW e \in Emails, NEW code \in Registers,
                 R!ConfirmRefused(a, e, code)
          PROVE  Seen
      <4>1. PICK answer : enrol' = [enrol EXCEPT ![a] =
                            [@ EXCEPT !.pc = "done", !.email = e, !.answer = answer]]
        BY <3>1 DEF R!ConfirmRefused
      <4> QED  BY <2>2, <4>1 DEF R!NewConfirm
    <3>2. ASSUME NEW e \in Emails, NEW code \in Registers, R!ConfirmFind(a, e, code)
          PROVE  Seen
      <4>1. enrol' = [enrol EXCEPT ![a] =
                        [@ EXCEPT !.pc = "create", !.email = e, !.code = code]]
            /\ enrol[a].pc = "idle"
        BY <3>2 DEF R!ConfirmFind
      <4> QED  BY <2>2, <4>1 DEF R!NewConfirm
    <3>3. CASE R!ConfirmCall(a)
      <4>1. enrol' = [enrol EXCEPT ![a] = [@ EXCEPT !.pc = "await", !.call = "sent"]]
            /\ enrol[a].pc = "create"
        BY <3>3 DEF R!ConfirmCall
      <4> QED  BY <2>2, <4>1 DEF R!NewConfirm
    <3>4. CASE R!ConfirmCreated(a)
      BY <2>2, <3>4 DEF R!NewConfirm, R!ConfirmCreated
    <3>5. ASSUME NEW answer,
                 enrol' = [enrol EXCEPT ![a] =
                             [@ EXCEPT !.pc = "done", !.answer = answer]]
          PROVE  Seen
      BY <2>2, <3>5 DEF R!NewConfirm
    <3>6. CASE R!ConfirmNotCreated(a) \/ R!ConfirmDelete(a) \/ R!ConfirmFails(a)
      <4>1. \E answer : R!ConfirmAnswered(a, answer)
        BY <3>6 DEF R!ConfirmNotCreated, R!ConfirmDelete, R!ConfirmFails
      <4> QED  BY <3>5, <4>1 DEF R!ConfirmAnswered
    <3>7. CASE R!UserRefuses(a)
      <4>1. enrol' = [enrol EXCEPT ![a].call = "refused"] /\ enrol[a].call = "sent"
        BY <3>7 DEF R!UserRefuses
      <4> QED  BY <2>2, <4>1 DEF R!NewConfirm
    <3>8. CASE R!CallIsLost(a)
      <4>1. enrol' = [enrol EXCEPT ![a].call = "lost"] /\ enrol[a].call = "sent"
        BY <3>8 DEF R!CallIsLost
      <4> QED  BY <2>2, <4>1 DEF R!NewConfirm
    <3>9. CASE R!UserCreates(a)
      <4>1. enrol' = [enrol EXCEPT ![a].call = "created"] /\ enrol[a].call = "sent"
        BY <3>9 DEF R!UserCreates
      <4> QED  BY <2>2, <3>9, <4>1 DEF R!NewConfirm
    <3> HIDE DEF Seen
    <3> QED
      BY <1>4, <3>1, <3>2, <3>3, <3>4, <3>6, <3>7, <3>8, <3>9
         DEF R!ConfirmStep, R!UserStep
  <2>4. CallsAreNew'
    BY <2>1, <2>3 DEF CallsAreNew
  <2>5. CASE R!UserCreates(a)
    BY <2>4, <2>5, CreatedByLogin DEF L!SharedNext, L!Next
  <2>6. CASE ~R!UserCreates(a)
    <3>1. AccountState' = AccountState
      BY <2>1, <2>3, <2>6 DEF AccountState
    <3> QED  BY <1>1, <2>1, <2>4, <2>6, <3>1 DEF L!vars
  <2> QED  BY <2>5, <2>6
<1> QED  BY <1>1, <1>2, <1>3, <1>4 DEF R!Requests

(* Whoever writes the table of tokens keeps its type.                       *)
LEMMA TokensStayTyped ==
  ASSUME IInv, SInv, TokensAreTyped, [Next]_vars
  PROVE  TokensAreTyped'
<1>1. \A q \in Confirms : confirm[q].paid \/ confirm[q].pc = "commit" =>
        confirm[q].acct \in Enrolments
  BY DEF IInv, CodesWereSent, Presented, Shapes
<1>2. CASE Registration \/ Tick \/ Terminating \/ UNCHANGED vars
  BY <1>2 DEF Registration, Tick, Terminating, vars, tokens, TokensAreTyped
<1>3. CASE Login
  <2>1. L!Requests /\ refresh' = refresh
    BY <1>3 DEF Login
  <2>2. ASSUME NEW q \in Confirms, L!ConfirmCommit(q)
        PROVE  refresh_token_session' \subseteq L!RefreshRows(Enrolments)
    <3>1. confirm[q].acct \in Enrolments /\ confirm[q].issued \in Nat
      BY <1>1, <2>2 DEF L!ConfirmCommit, SInv, SignedInTime
    <3>2. L!RefreshRow(confirm[q].acct, confirm[q].issued, RefreshTTL)
            \in L!RefreshRows(Enrolments)
      BY <3>1, RowIsTyped
    <3> QED
      BY <2>2, <3>2 DEF L!ConfirmCommit, L!TokensAfter, L!UnexpiredTokens, TokensAreTyped
  <2>3. CASE UNCHANGED refresh_token_session
    BY <2>1, <2>3 DEF TokensAreTyped
  <2> QED
    BY <2>1, <2>2, <2>3
       DEF TokensAreTyped, L!Requests, L!LoginStart, L!LoginStep, L!LoginAccount,
           L!LoginFind, L!LoginSave, L!LoginFails, L!ConfirmRefused, L!ConfirmFind,
           L!ConfirmStep, L!ConfirmVerify, L!ConfirmDelete, L!ConfirmSwitched,
           L!ConfirmIssue, L!ConfirmUnpayable, L!ConfirmFails
<1>4. CASE Refresh
  <2>1. PICK r \in Refreshes :
          \/ \E token \in handed : T!RefreshParse(r, token) \/ T!RefreshInvalid(r, token)
          \/ T!RefreshStep(r)
          \/ T!RefreshFails(r)
    BY <1>4 DEF Refresh, T!Requests
  <2>2. /\ now \in Nat /\ DOMAIN refresh = Refreshes
        /\ DOMAIN refresh[r] = DOMAIN T!NewRefresh
        /\ refresh[r].issued \in Nat
        /\ refresh_token_session \subseteq L!RefreshRows(Enrolments)
    BY DEF IInv, Shapes, TokensAreTyped
  <2>3. refresh_token_session' \subseteq L!RefreshRows(Enrolments)
    <3>1. CASE T!RefreshSave(r)
      <4>1. Paid(refresh[r].token.sub)
        BY <3>1 DEF T!RefreshSave, IInv, TokensArePaid
      <4>2. refresh[r].token.sub \in Enrolments
        BY <1>1, <4>1 DEF Paid
      <4>3. T!NewRow(r) \in L!RefreshRows(Enrolments)
        BY <2>2, <4>2, RowIsTyped DEF T!NewRow
      <4> QED  BY <2>2, <3>1, <4>3 DEF T!RefreshSave
    <3>2. CASE T!RefreshPurge(r) \/ T!RefreshClean(r) \/ T!RefreshRetire(r)
      BY <2>2, <3>2 DEF T!RefreshPurge, T!RefreshClean, T!RefreshRetire, T!Unexpired,
         T!UnexpiredTokens
    <3>3. CASE UNCHANGED refresh_token_session
      BY <2>2, <3>3
    <3> QED
      BY <2>1, <3>1, <3>2, <3>3 DEF T!RefreshParse, T!RefreshInvalid, T!RefreshStep,
         T!RefreshFind, T!RefreshSign, T!RefreshFails
  <2> DEFINE Stays == /\ refresh'[r].issued \in Nat
                      /\ \A o \in Refreshes : o # r => refresh'[o] = refresh[o]
  <2>4. Stays
    <3>1. ASSUME NEW answer, T!RefreshAnswered(r, answer) PROVE Stays
      BY <2>2, <3>1 DEF T!NewRefresh, T!RefreshAnswered
    <3>2. ASSUME NEW pc, refresh' = [refresh EXCEPT ![r].pc = pc] PROVE Stays
      BY <2>2, <3>2 DEF T!NewRefresh
    <3>3. ASSUME NEW token, T!RefreshParse(r, token) PROVE Stays
      BY <2>2, <3>3 DEF T!NewRefresh, T!RefreshParse
    <3>4. CASE T!RefreshSign(r)
      BY <2>2, <3>4 DEF T!NewRefresh, T!RefreshSign
    <3>5. CASE T!RefreshRetire(r)
      <4>1. refresh' = [refresh EXCEPT ![r] =
                          [@ EXCEPT !.pc = "done", !.issued = 0, !.answer = "tokens",
                                    !.fresh = T!NewRow(r).refresh_token]]
        BY <3>5 DEF T!RefreshRetire
      <4> QED  BY <2>2, <4>1 DEF T!NewRefresh
    <3>6. CASE T!RefreshFind(r)
      <4>1. \/ T!RefreshAnswered(r, "unauthorized")
            \/ \E pc : refresh' = [refresh EXCEPT ![r].pc = pc]
        BY <3>6 DEF T!RefreshFind
      <4> HIDE DEF Stays
      <4> QED  BY <3>1, <3>2, <4>1
    <3>7. CASE T!RefreshPurge(r) \/ T!RefreshClean(r) \/ T!RefreshSave(r) \/ T!RefreshFails(r)
      <4>1. \/ \E answer : T!RefreshAnswered(r, answer)
            \/ \E pc : refresh' = [refresh EXCEPT ![r].pc = pc]
        BY <3>7 DEF T!RefreshPurge, T!RefreshClean, T!RefreshSave, T!RefreshFails
      <4> HIDE DEF Stays
      <4> QED  BY <3>1, <3>2, <4>1
    <3>8. ASSUME NEW token, T!RefreshInvalid(r, token) PROVE Stays
      BY <3>1, <3>8 DEF T!RefreshInvalid
    <3> HIDE DEF Stays
    <3> QED
      BY <2>1, <3>3, <3>4, <3>5, <3>6, <3>7, <3>8 DEF T!RefreshStep
  <2> QED  BY <2>3, <2>4 DEF TokensAreTyped
<1> QED  BY <1>2, <1>3, <1>4 DEF Next

(* Registrations are to logins the accounts that appear, and refreshes the  *)
(* table of tokens that changes, so what is proved of Login beside refreshes*)
(* holds of the whole (login.go; authenticate_user.go; token.go:99-133).    *)
THEOREM LoginsAreUndisturbed == Spec => L!SharedSpec
<1>1. Init => /\ SInv /\ CallsAreNew /\ TokensAreTyped /\ L!Init
  BY DEF Init, R!Init, R!NewConfirm, L!Init, L!NewConfirm, T!Init, T!NewRefresh, SInv,
     SignedInTime, AnswersAreHanded, Answered, CallsAreNew, TokensAreTyped
<1>2. ASSUME IInv, SInv, CallsAreNew, TokensAreTyped, [Next]_vars
      PROVE  SInv' /\ CallsAreNew' /\ TokensAreTyped' /\ [L!SharedNext]_(L!vars)
  <2>1. SInv' /\ TokensAreTyped'
    BY <1>2, StepsAreSeen, TokensStayTyped
  <2>2. CASE Registration
    BY <1>2, <2>1, <2>2, RegistrationsAreSeen
  <2>3. ASSUME UNCHANGED <<account_of, enrol>>
        PROVE  CallsAreNew' /\ AccountState' = AccountState
    BY <1>2, <2>3 DEF CallsAreNew, AccountState
  <2>4. CASE Login
    <3>1. UNCHANGED <<account_of, enrol>> /\ L!Requests
      BY <2>4 DEF Login, registration
    <3> QED  BY <2>1, <2>3, <3>1 DEF L!SharedNext, L!Next
  <2>5. CASE Refresh
    <3>1. UNCHANGED <<now, account_of, enrol, login_session, login, confirm>>
      BY <2>5 DEF Refresh, registration, logins
    <3> QED
      BY <2>1, <2>3, <3>1 DEF TokensAreTyped, L!SharedNext, L!TokensRefreshed, L!users
  <2>6. CASE Tick
    <3>1. /\ now < MaxTime /\ now' = now + 1
          /\ UNCHANGED <<account_of, enrol, login_session, login, confirm,
                         refresh_token_session>>
      BY <2>6 DEF Tick, registration, logins, tokens
    <3> QED  BY <2>1, <2>3, <3>1 DEF L!SharedNext, L!Next, L!Tick, L!users
  <2>7. CASE Terminating \/ UNCHANGED vars
    <3>1. UNCHANGED <<now, account_of, enrol, login_session, login, confirm,
                      refresh_token_session>>
      BY <2>7 DEF Terminating, vars, registration, logins, tokens
    <3> QED  BY <2>1, <2>3, <3>1 DEF L!vars
  <2> QED  BY <1>2, <2>2, <2>4, <2>5, <2>6, <2>7 DEF Next
<1> QED
  BY <1>1, <1>2, Invariance, PTL DEF Spec, L!SharedSpec
=============================================================================
