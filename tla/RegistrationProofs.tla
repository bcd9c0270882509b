------------------------- MODULE RegistrationProofs -------------------------
(***************************************************************************)
(* Proofs about Registration, for any sets of e-mails and requests, any TTL *)
(* and any skew of the database's clock; and that it implements OneTimeCodes*)
(* with one buyer for each e-mail.                                          *)
(*                                                                         *)
(* What the runs check about accounts is not inductive: an account appears  *)
(* when userMicro carries a call out, which may be long after its caller    *)
(* found the row, or gave up.  Three facts bridge that.                     *)
(*   - A code somebody confirmed was saved by a request for the same e-mail *)
(*     that is answered (ConfirmedCodesWereSaved).                          *)
(*   - A caller is never behind its call (CallsFollowRequests).             *)
(*   - An e-mail has the account of the call that succeeded, and no other   *)
(*     (AccountsAreCreated): the unique index of userMicro.                 *)
(***************************************************************************)
EXTENDS RegistrationCodes, TLAPS

(* The inputs of a request that has arrived are there. *)
RequestsArrived ==
  /\ \A p \in Registers : register[p].pc # "idle" => register[p].email \in Emails
  /\ \A q \in Confirms :
       confirm[q].pc \in {"create", "await", "delete"} \/ confirm[q].call # "none" =>
         confirm[q].email \in Emails /\ confirm[q].code \in Registers

CallsFollowRequests ==
  \A q \in Confirms :
    /\ confirm[q].pc \in {"idle", "create"} => confirm[q].call = "none"
    /\ confirm[q].pc = "idle" => confirm[q].code = NoCode
    /\ confirm[q].pc = "delete" => confirm[q].call = "created"
    /\ confirm[q].answer = "ok" => confirm[q].call = "created"

TInv == TypeOK /\ RequestsArrived /\ CallsFollowRequests

ConfirmedCodesWereSaved ==
  \A q \in Confirms : confirm[q].code \in Registers =>
    /\ register[confirm[q].code].email = confirm[q].email
    /\ register[confirm[q].code].pc = "done"

AccountsAreCreated ==
  /\ \A e \in Emails : account_of[e] # NoAccount =>
       /\ confirm[account_of[e]].email = e
       /\ confirm[account_of[e]].call = "created"
  /\ \A q \in Confirms :
       confirm[q].call = "created" => account_of[confirm[q].email] = q

IInv ==
  /\ TInv
  /\ SessionMatchesRegister
  /\ ConfirmedCodesWereSaved
  /\ AccountsAreCreated

-----------------------------------------------------------------------------
(* Type correctness *)

(* The empty tables and the requests that have not arrived are well typed.  *)
LEMMA InitTInv == Init => TInv
BY NoCodeIsDrawn DEF Init, TInv, TypeOK, RequestsArrived, CallsFollowRequests,
   RegisterRequest, ConfirmRequest, NewRegister, NewConfirm

(* A stored hash tells which code it is of, and is never the empty string. *)
LEMMA HashesAreOneWay ==
  /\ \A c, d \in Registers : HashCode(c) = HashCode(d) => c = d
  /\ \A c \in Registers : HashCode(c) \in Hashes /\ HashCode(c) # NoCode
                          /\ HashCode(c).bcrypt = c
BY SentinelsAreDistinct DEF HashCode, Hashes

(* The row a request is about to save is a row of the table. *)
LEMMA RowsToSave ==
  ASSUME TInv, NEW p \in Registers
  PROVE  /\ SessionToSave(p) \in RegistrationSession
         /\ SessionToSave(p) # NoRow
         /\ SessionToSave(p).code = CodeOf(p)
         /\ CodeOf(p) \in {NoCode, HashCode(p)}
         /\ CodeOf(p) # NoCode => ~register[p].exists
<1>1. register[p].expires \in Nat /\ CodeOf(p) \in Hashes \cup {NoCode}
  BY HashesAreOneWay DEF TInv, TypeOK, RegisterRequest, CodeOf
<1>2. SessionToSave(p) \in RegistrationSession
  BY <1>1 DEF SessionToSave, RegistrationSession
<1> QED
  BY <1>2, SentinelsAreDistinct DEF SessionToSave, CodeOf

(* What a step of a registration does to the request.                       *)
LEMMA RegisterMoves ==
  ASSUME TInv, NEW p \in Registers,
         \/ \E e \in Emails : RegisterStart(p, e)
         \/ RegisterStep(p)
         \/ RegisterFails(p)
  PROVE  /\ register' \in [Registers -> RegisterRequest]
         /\ \A o \in Registers : o # p => register'[o] = register[o]
         /\ register[p].pc # "done"
         /\ register'[p].email \in Emails
         /\ register[p].pc # "idle" =>
              register'[p].email = register[p].email /\ register[p].email \in Emails
         /\ register[p].pc \in {"find", "save"} =>
              register'[p].exists = register[p].exists
         /\ register'[p].pc = "save" =>
              /\ RegisterFind(p)
              /\ register'[p].seen = registration_session[register[p].email]
              /\ MustSave(register'[p].seen, CodeOf(p))
         /\ register'[p].pc = "done" =>
              register[p].pc \in {"account", "find", "save"}
         /\ RegisterSave(p) => register'[p].pc = "done"
         /\ UNCHANGED <<now, account_of, confirm>>
<1>0. /\ register \in [Registers -> RegisterRequest]
      /\ register[p] \in RegisterRequest
      /\ now \in Nat
      /\ register[p].pc # "idle" => register[p].email \in Emails
  BY DEF TInv, TypeOK, RequestsArrived
<1>a. ASSUME NEW answer \in {"ok", "error"}, NEW sent \in BOOLEAN,
             RegisterEnds(p, answer, sent)
      PROVE  /\ register' \in [Registers -> RegisterRequest]
             /\ \A o \in Registers : o # p => register'[o] = register[o]
             /\ register'[p].email = register[p].email
             /\ register'[p].exists = register[p].exists
             /\ register'[p].pc = "done"
  <2>1. [register[p] EXCEPT !.pc = "done", !.seen = NoRow, !.expires = 0,
                            !.sent = sent, !.answer = answer]
          \in RegisterRequest
    BY <1>0 DEF RegisterRequest
  <2> QED  BY <1>0, <1>a, <2>1 DEF RegisterEnds
<1>b. ASSUME NEW answer \in {"ok", "error"}, RegisterAnswered(p, answer)
      PROVE  /\ register' \in [Registers -> RegisterRequest]
             /\ \A o \in Registers : o # p => register'[o] = register[o]
             /\ register'[p].email = register[p].email
             /\ register'[p].exists = register[p].exists
             /\ register'[p].pc = "done"
  BY <1>a, <1>b DEF RegisterAnswered
<1>1. ASSUME NEW e \in Emails, RegisterStart(p, e)
      PROVE  /\ register' \in [Registers -> RegisterRequest]
             /\ \A o \in Registers : o # p => register'[o] = register[o]
             /\ register[p].pc = "idle"
             /\ register'[p].email = e
             /\ register'[p].pc = "account"
             /\ UNCHANGED <<now, account_of, confirm>>
  <2>1. [register[p] EXCEPT !.pc = "account", !.email = e] \in RegisterRequest
    BY <1>0 DEF RegisterRequest
  <2>2. /\ register[p].pc = "idle"
        /\ register' = [register EXCEPT ![p] =
                          [@ EXCEPT !.pc = "account", !.email = e]]
        /\ UNCHANGED <<now, account_of, confirm>>
    BY <1>1 DEF RegisterStart
  <2>3. register'[p].email = e /\ register'[p].pc = "account"
    BY <1>0, <2>2 DEF RegisterRequest
  <2> QED  BY <1>0, <2>1, <2>2, <2>3
<1>2. CASE \E e \in Emails : RegisterStart(p, e)
  BY <1>1, <1>2 DEF RegisterSave
<1>3. CASE RegisterAccount(p)
  <2> DEFINE exists == account_of[register[p].email] # NoAccount
  <2>1. exists \in BOOLEAN
    OBVIOUS
  <2>2. /\ register[p].pc = "account"
        /\ register' = [register EXCEPT ![p] =
                          [@ EXCEPT !.pc = "find", !.exists = exists]]
        /\ UNCHANGED <<now, account_of, confirm>>
    BY <1>3 DEF RegisterAccount
  <2> HIDE DEF exists
  <2>3. [register[p] EXCEPT !.pc = "find", !.exists = exists] \in RegisterRequest
    BY <1>0, <2>1 DEF RegisterRequest
  <2> QED  BY <1>0, <2>2, <2>3 DEF RegisterSave
<1>4. CASE RegisterFind(p)
  <2> DEFINE row == registration_session[register[p].email]
             expires == now + CodeTTL
  <2>1. /\ row \in RegistrationSession \cup {NoRow}
        /\ expires \in Nat
        /\ register[p].pc = "find"
        /\ UNCHANGED <<now, account_of, confirm>>
    BY <1>0, <1>4, TimesAreNatural DEF RegisterFind, TInv, TypeOK
  <2>2. CASE RegisterAnswered(p, "ok")
    BY <1>0, <1>b, <2>1, <2>2 DEF RegisterSave
  <2>3. CASE /\ MustSave(row, CodeOf(p))
             /\ register' = [register EXCEPT ![p] =
                               [@ EXCEPT !.pc = "save", !.seen = row,
                                         !.expires = expires]]
    <3> HIDE DEF row, expires
    <3>1. [register[p] EXCEPT !.pc = "save", !.seen = row, !.expires = expires]
            \in RegisterRequest
      BY <1>0, <2>1 DEF RegisterRequest
    <3>2. /\ register'[p].pc = "save" /\ register'[p].seen = row
          /\ register'[p].email = register[p].email
          /\ register'[p].exists = register[p].exists
      BY <1>0, <2>3 DEF RegisterRequest
    <3>3. MustSave(register'[p].seen, CodeOf(p))
      BY <2>3, <3>2 DEF MustSave
    <3> QED  BY <1>0, <1>4, <2>1, <2>3, <3>1, <3>2, <3>3 DEF RegisterSave, row
  <2> QED  BY <1>4, <2>2, <2>3 DEF RegisterFind
<1>5. CASE RegisterSave(p) \/ RegisterFails(p)
  <2>1. PICK answer \in {"ok", "error"}, sent \in BOOLEAN :
               RegisterEnds(p, answer, sent)
    <3>1. (CodeOf(p) # NoCode) \in BOOLEAN
      OBVIOUS
    <3> QED  BY <1>5, <3>1 DEF RegisterSave, RegisterFails, RegisterAnswered
  <2> QED  BY <1>0, <1>5, <1>a, <2>1 DEF RegisterSave, RegisterFails
<1> QED  BY <1>2, <1>3, <1>4, <1>5 DEF RegisterStep

(* What a step of a confirmation, or of userMicro on its behalf, does to it:  *)
(* its inputs are set by its arrival, and a call gets one outcome.            *)
LEMMA ConfirmMoves ==
  ASSUME TInv, NEW q \in Confirms,
         \/ \E e \in Emails, code \in Registers :
              ConfirmRefused(q, e, code) \/ ConfirmFind(q, e, code)
         \/ ConfirmStep(q)
         \/ ConfirmFails(q)
         \/ UserStep(q)
         \/ CallIsLost(q)
  PROVE  /\ confirm' \in [Confirms -> ConfirmRequest]
         /\ \A o \in Confirms : o # q => confirm'[o] = confirm[o]
         /\ \/ /\ confirm[q].pc = "idle"
               /\ confirm[q].call = "none"
               /\ confirm[q].code = NoCode
               /\ confirm'[q].email \in Emails
               /\ confirm'[q].call = "none"
               /\ confirm'[q].answer = "ok" => confirm[q].answer = "ok"
               /\ \/ /\ confirm'[q].pc = "done"
                     /\ confirm'[q].code = NoCode
                  \/ /\ confirm'[q].pc = "create"
                     /\ confirm'[q].code \in Registers
                     /\ ConfirmFind(q, confirm'[q].email, confirm'[q].code)
            \/ /\ confirm'[q].email = confirm[q].email
               /\ confirm'[q].code = confirm[q].code
               /\ confirm[q].email \in Emails /\ confirm[q].code \in Registers
               /\ \/ confirm'[q].call = confirm[q].call
                  \/ confirm[q].pc = "create" /\ confirm'[q].pc = "await"
                                              /\ confirm'[q].call = "sent"
                  \/ /\ confirm[q].call = "sent" /\ confirm'[q].pc = confirm[q].pc
                     /\ \/ UserCreates(q) /\ confirm'[q].call = "created"
                        \/ UserRefuses(q) /\ confirm'[q].call = "refused"
                        \/ CallIsLost(q) /\ confirm'[q].call = "lost"
               /\ \/ confirm'[q].pc = confirm[q].pc
                  \/ confirm[q].pc = "create" /\ confirm'[q].pc = "await"
                                              /\ confirm'[q].call = "sent"
                  \/ confirm[q].pc = "await" /\ confirm'[q].pc = "delete"
                                             /\ confirm[q].call = "created"
                  \/ confirm'[q].pc = "done"
               /\ \/ confirm'[q].answer = confirm[q].answer
                  \/ confirm'[q].answer = "error"
                  \/ confirm[q].call = "created"
         /\ UNCHANGED <<now, register>>
         /\ ~UserCreates(q) => UNCHANGED account_of
<1>0. /\ confirm \in [Confirms -> ConfirmRequest]
      /\ confirm[q] \in ConfirmRequest
      /\ NoCode \notin Registers
      /\ confirm[q].pc = "idle" =>
           confirm[q].call = "none" /\ confirm[q].code = NoCode
      /\ confirm[q].pc = "delete" => confirm[q].call = "created"
      /\ confirm[q].pc \in {"create", "await", "delete"} \/ confirm[q].call # "none" =>
           confirm[q].email \in Emails /\ confirm[q].code \in Registers
      /\ confirm[q].pc = "create" => confirm[q].call = "none"
  BY NoCodeIsDrawn
  DEF TInv, TypeOK, RequestsArrived, CallsFollowRequests
<1>a. ASSUME NEW answer \in {"ok", "error"}, ConfirmAnswered(q, answer)
      PROVE  /\ confirm' \in [Confirms -> ConfirmRequest]
             /\ \A o \in Confirms : o # q => confirm'[o] = confirm[o]
             /\ confirm'[q].email = confirm[q].email
             /\ confirm'[q].code = confirm[q].code
             /\ confirm'[q].call = confirm[q].call
             /\ confirm'[q].pc = "done"
             /\ confirm'[q].answer = answer
  <2>1. [confirm[q] EXCEPT !.pc = "done", !.answer = answer] \in ConfirmRequest
    BY <1>0 DEF ConfirmRequest
  <2> QED  BY <1>0, <1>a, <2>1 DEF ConfirmAnswered
<1>b. ASSUME NEW call \in {"created", "refused", "lost"},
             confirm' = [confirm EXCEPT ![q].call = call]
      PROVE  /\ confirm' \in [Confirms -> ConfirmRequest]
             /\ \A o \in Confirms : o # q => confirm'[o] = confirm[o]
             /\ confirm'[q].email = confirm[q].email
             /\ confirm'[q].code = confirm[q].code
             /\ confirm'[q].call = call
             /\ confirm'[q].pc = confirm[q].pc
             /\ confirm'[q].answer = confirm[q].answer
  <2>1. [confirm[q] EXCEPT !.call = call] \in ConfirmRequest
    BY <1>0 DEF ConfirmRequest
  <2> QED  BY <1>0, <1>b, <2>1
<1>1. CASE \E e \in Emails, code \in Registers : ConfirmRefused(q, e, code)
  <2>1. PICK e \in Emails, code \in Registers : ConfirmRefused(q, e, code)
    BY <1>1
  <2> DEFINE answer == Refusal(registration_session[e], code)
  <2>2. /\ answer \in {"invalidCode", "codeExpired"}
        /\ confirm[q].pc = "idle"
        /\ confirm' = [confirm EXCEPT ![q] =
                         [@ EXCEPT !.pc = "done", !.email = e, !.answer = answer]]
        /\ UNCHANGED <<now, account_of, registration_session, register>>
    BY <2>1 DEF ConfirmRefused, Refusal
  <2> HIDE DEF answer
  <2>3. [confirm[q] EXCEPT !.pc = "done", !.email = e, !.answer = answer]
          \in ConfirmRequest
    BY <1>0, <2>2 DEF ConfirmRequest
  <2>4. confirm'[q] = [confirm[q] EXCEPT !.pc = "done", !.email = e,
                                         !.answer = answer]
    BY <1>0, <2>2
  <2>5. /\ confirm'[q].pc = "done" /\ confirm'[q].email = e
        /\ confirm'[q].code = confirm[q].code /\ confirm'[q].call = confirm[q].call
        /\ confirm'[q].answer = answer
    BY <1>0, <2>4 DEF ConfirmRequest
  <2>6. confirm' \in [Confirms -> ConfirmRequest]
        /\ \A o \in Confirms : o # q => confirm'[o] = confirm[o]
    BY <1>0, <2>2, <2>3
  <2> QED  BY <1>0, <2>2, <2>5, <2>6
<1>2. CASE \E e \in Emails, code \in Registers : ConfirmFind(q, e, code)
  <2>1. PICK e \in Emails, code \in Registers : ConfirmFind(q, e, code)
    BY <1>2
  <2>2. /\ confirm[q].pc = "idle"
        /\ confirm' = [confirm EXCEPT ![q] =
                         [@ EXCEPT !.pc = "create", !.email = e, !.code = code]]
        /\ UNCHANGED <<now, account_of, registration_session, register>>
    BY <2>1 DEF ConfirmFind
  <2>3. [confirm[q] EXCEPT !.pc = "create", !.email = e, !.code = code]
          \in ConfirmRequest
    BY <1>0 DEF ConfirmRequest
  <2>4. confirm'[q] = [confirm[q] EXCEPT !.pc = "create", !.email = e,
                                         !.code = code]
    BY <1>0, <2>2
  <2>5. /\ confirm'[q].pc = "create" /\ confirm'[q].email = e
        /\ confirm'[q].code = code /\ confirm'[q].call = confirm[q].call
        /\ confirm'[q].answer = confirm[q].answer
    BY <1>0, <2>4 DEF ConfirmRequest
  <2>6. confirm' \in [Confirms -> ConfirmRequest]
        /\ \A o \in Confirms : o # q => confirm'[o] = confirm[o]
    BY <1>0, <2>2, <2>3
  <2> QED  BY <1>0, <2>1, <2>2, <2>5, <2>6
<1>3. CASE ConfirmCall(q)
  <2>1. /\ confirm[q].pc = "create"
        /\ confirm' = [confirm EXCEPT ![q] =
                         [@ EXCEPT !.pc = "await", !.call = "sent"]]
        /\ UNCHANGED <<now, account_of, registration_session, register>>
    BY <1>3 DEF ConfirmCall
  <2>2. [confirm[q] EXCEPT !.pc = "await", !.call = "sent"] \in ConfirmRequest
    BY <1>0 DEF ConfirmRequest
  <2>3. confirm'[q] = [confirm[q] EXCEPT !.pc = "await", !.call = "sent"]
    BY <1>0, <2>1
  <2>4. /\ confirm'[q].pc = "await" /\ confirm'[q].call = "sent"
        /\ confirm'[q].email = confirm[q].email
        /\ confirm'[q].code = confirm[q].code
        /\ confirm'[q].answer = confirm[q].answer
    BY <1>0, <2>3 DEF ConfirmRequest
  <2> QED  BY <1>0, <1>3, <2>1, <2>2, <2>4
<1>4. CASE ConfirmCreated(q)
  <2>1. [confirm[q] EXCEPT !.pc = "delete"] \in ConfirmRequest
    BY <1>0 DEF ConfirmRequest
  <2>2. /\ confirm[q].pc = "await" /\ confirm[q].call = "created"
        /\ confirm' = [confirm EXCEPT ![q].pc = "delete"]
        /\ UNCHANGED <<now, account_of, registration_session, register>>
    BY <1>4 DEF ConfirmCreated, CallSucceeded
  <2> QED  BY <1>0, <2>1, <2>2
<1>5. CASE ConfirmNotCreated(q) \/ ConfirmDelete(q) \/ ConfirmFails(q)
  <2>1. PICK answer \in {"ok", "error"} :
               /\ ConfirmAnswered(q, answer)
               /\ answer = "ok" => confirm[q].pc = "delete"
    BY <1>5 DEF ConfirmNotCreated, ConfirmDelete, ConfirmFails
  <2>2. /\ confirm[q].pc \in {"create", "await", "delete"}
        /\ UNCHANGED <<now, account_of, register>>
    BY <1>5 DEF ConfirmNotCreated, ConfirmDelete, ConfirmFails
  <2> QED  BY <1>0, <1>a, <2>1, <2>2
<1>6. CASE UserCreates(q)
  BY <1>0, <1>b, <1>6 DEF UserCreates
<1>7. CASE UserRefuses(q)
  BY <1>0, <1>b, <1>7 DEF UserRefuses
<1>8. CASE CallIsLost(q)
  BY <1>0, <1>b, <1>8 DEF CallIsLost
<1> QED
  BY <1>1, <1>2, <1>3, <1>4, <1>5, <1>6, <1>7, <1>8 DEF ConfirmStep, UserStep

(* What a step does to the row of an e-mail: it stays, goes because it may   *)
(* have expired or because a confirmation that created the account deletes   *)
(* it, or is written by a Save.                                              *)
NextRow(e) ==
  \/ registration_session'[e] = registration_session[e]
  \/ /\ registration_session'[e] = NoRow
     /\ \/ Stored(e) /\ Before(registration_session[e].code_expires, now + Skew)
        \/ \E q \in Confirms : confirm[q].call = "created" /\ confirm[q].email = e
  \/ \E p \in Registers : /\ RegisterSave(p)
                          /\ register[p].email = e
                          /\ registration_session'[e] = SessionToSave(p)

(* What any step makes of the row of an e-mail. *)
LEMMA NextRows ==
  ASSUME TInv, [Next]_vars
  PROVE  /\ registration_session' \in [Emails -> RegistrationSession \cup {NoRow}]
         /\ \A e \in Emails : NextRow(e)
<1>0. /\ registration_session \in [Emails -> RegistrationSession \cup {NoRow}]
      /\ now \in Nat /\ Skew \in Nat
  BY TimesAreNatural DEF TInv, TypeOK
<1>1. ASSUME NEW p \in Registers, NEW f \in Emails, RegisterStart(p, f)
      PROVE  /\ registration_session' \in [Emails -> RegistrationSession \cup {NoRow}]
             /\ \A e \in Emails : NextRow(e)
  <2>1. CASE registration_session' = registration_session
    BY <1>0, <2>1 DEF NextRow
  <2>2. ASSUME NEW db \in DatabaseClock(now, Skew),
               registration_session' = WithoutExpired(db)
        PROVE  /\ registration_session' \in [Emails -> RegistrationSession \cup {NoRow}]
               /\ \A e \in Emails : NextRow(e)
    <3>1. db \in Int /\ db <= now + Skew
      BY <1>0 DEF DatabaseClock
    <3>2. \A e \in Emails : Stored(e) =>
            registration_session[e].code_expires \in Nat
      BY <1>0 DEF Stored, RegistrationSession
    <3> QED
      BY <1>0, <2>2, <3>1, <3>2 DEF WithoutExpired, Expired, Before, NextRow
  <2> QED  BY <1>1, <2>1, <2>2 DEF RegisterStart
<1>2. ASSUME NEW p \in Registers, RegisterSave(p)
      PROVE  /\ registration_session' \in [Emails -> RegistrationSession \cup {NoRow}]
             /\ \A e \in Emails : NextRow(e)
  BY <1>0, <1>2, RowsToSave DEF RegisterSave, NextRow
<1>3. ASSUME NEW q \in Confirms, ConfirmDelete(q)
      PROVE  /\ registration_session' \in [Emails -> RegistrationSession \cup {NoRow}]
             /\ \A e \in Emails : NextRow(e)
  <2>1. confirm[q].call = "created"
    BY <1>3 DEF ConfirmDelete, TInv, CallsFollowRequests
  <2> QED  BY <1>0, <1>3, <2>1 DEF ConfirmDelete, NextRow
<1>4. CASE UNCHANGED registration_session
  BY <1>0, <1>4 DEF NextRow
<1> QED
  BY <1>1, <1>2, <1>3, <1>4
  DEF Next, Requests, RegisterStep, RegisterAccount, RegisterFind, RegisterFails,
      ConfirmStep, ConfirmRefused, ConfirmFind, ConfirmCall, ConfirmCreated,
      ConfirmNotCreated, ConfirmFails, UserStep, UserCreates, UserRefuses,
      CallIsLost, Tick, Terminating, vars

(* The steps of a registration, those of a confirmation, and the rest.      *)
RegisterMove(p) ==
  \/ \E e \in Emails : RegisterStart(p, e)
  \/ RegisterStep(p)
  \/ RegisterFails(p)

ConfirmMove(q) ==
  \/ \E e \in Emails, code \in Registers :
       ConfirmRefused(q, e, code) \/ ConfirmFind(q, e, code)
  \/ ConfirmStep(q)
  \/ ConfirmFails(q)
  \/ UserStep(q)
  \/ CallIsLost(q)

(* Type correctness, the arrival of inputs and the calls are inductive by   *)
(* themselves.                                                              *)
LEMMA NextTInv == TInv /\ [Next]_vars => TInv'
<1> SUFFICES ASSUME TInv, [Next]_vars PROVE TInv'
  OBVIOUS
<1>0. TypeOK /\ RequestsArrived /\ CallsFollowRequests
  BY DEF TInv
<1>1. registration_session' \in [Emails -> RegistrationSession \cup {NoRow}]
  BY NextRows
<1>2. ASSUME NEW p \in Registers, RegisterMove(p)
      PROVE  TInv'
  <2>1. /\ register' \in [Registers -> RegisterRequest]
        /\ \A o \in Registers : o # p => register'[o] = register[o]
        /\ register'[p].email \in Emails
        /\ UNCHANGED <<now, account_of, confirm>>
    BY <1>2, RegisterMoves DEF RegisterMove
  <2> QED
    BY <1>0, <1>1, <2>1
    DEF TInv, TypeOK, RequestsArrived, CallsFollowRequests
<1>3. ASSUME NEW q \in Confirms, ConfirmMove(q)
      PROVE  TInv'
  <2>1. account_of' \in [Emails -> Confirms \cup {NoAccount}]
    <3>1. CASE UserCreates(q)
      BY <1>0, <3>1 DEF UserCreates, TypeOK
    <3>2. CASE UNCHANGED account_of
      BY <1>0, <3>2 DEF TypeOK
    <3> QED  BY <1>3, <3>1, <3>2, ConfirmMoves DEF ConfirmMove
  <2>2. TypeOK'
    BY <1>0, <1>1, <1>3, <2>1, ConfirmMoves DEF ConfirmMove, TypeOK
  <2>3. RequestsArrived'
    <3>1. \A p \in Registers : register'[p].pc # "idle" => register'[p].email \in Emails
      BY <1>0, <1>3, ConfirmMoves DEF ConfirmMove, RequestsArrived
    <3>2. \A o \in Confirms :
            confirm'[o].pc \in {"create", "await", "delete"} \/ confirm'[o].call # "none" =>
              confirm'[o].email \in Emails /\ confirm'[o].code \in Registers
      BY <1>0, <1>3, ConfirmMoves DEF ConfirmMove, RequestsArrived
    <3> QED  BY <3>1, <3>2 DEF RequestsArrived
  <2>4. CallsFollowRequests'
    <3> SUFFICES ASSUME NEW o \in Confirms
                 PROVE  /\ confirm'[o].pc \in {"idle", "create"} => confirm'[o].call = "none"
                        /\ confirm'[o].pc = "idle" => confirm'[o].code = NoCode
                        /\ confirm'[o].pc = "delete" => confirm'[o].call = "created"
                        /\ confirm'[o].answer = "ok" => confirm'[o].call = "created"
      BY DEF CallsFollowRequests
    <3>1. CASE o # q
      BY <1>0, <1>3, <3>1, ConfirmMoves DEF ConfirmMove, CallsFollowRequests
    <3>2. /\ confirm[q].pc \in {"idle", "create"} => confirm[q].call = "none"
          /\ confirm[q].pc = "idle" => confirm[q].code = NoCode
          /\ confirm[q].pc = "delete" => confirm[q].call = "created"
          /\ confirm[q].answer = "ok" => confirm[q].call = "created"
      BY <1>0 DEF CallsFollowRequests
    <3>3. CASE o = q
      BY <1>3, <3>2, <3>3, ConfirmMoves, NoCodeIsDrawn DEF ConfirmMove
    <3> QED  BY <3>1, <3>3
  <2> QED  BY <2>2, <2>3, <2>4 DEF TInv
<1>4. CASE Tick
  BY <1>0, <1>4 DEF Tick, TInv, TypeOK, RequestsArrived, CallsFollowRequests
<1>5. CASE Terminating \/ UNCHANGED vars
  BY <1>0, <1>5
  DEF Terminating, vars, TInv, TypeOK, RequestsArrived, CallsFollowRequests
<1> QED
  BY <1>2, <1>3, <1>4, <1>5 DEF Next, Requests, RegisterMove, ConfirmMove

(* Whatever the tables, the calls and the requests go through, every        *)
(* variable keeps the type the code gives it.                               *)
THEOREM TypeCorrect == Spec => []TypeOK
<1>1. TInv => TypeOK
  BY DEF TInv
<1> QED  BY <1>1, InitTInv, NextTInv, PTL DEF Spec
-----------------------------------------------------------------------------
(* Sessions, codes and accounts *)

(* A registration that was answered does not move again, and the one that   *)
(* saves a row is answered in that step.                                    *)
LEMMA DoneRegistersStay ==
  ASSUME TInv, [Next]_vars, NEW p \in Registers
  PROVE  /\ register[p].pc = "done" => register'[p] = register[p]
         /\ RegisterSave(p) =>
              /\ register'[p].pc = "done"
              /\ register'[p].email = register[p].email
              /\ register'[p].exists = register[p].exists
<1>1. ASSUME NEW o \in Registers, RegisterMove(o), register[p].pc = "done"
      PROVE  register'[p] = register[p]
  BY <1>1, RegisterMoves DEF RegisterMove
<1>2. ASSUME NEW q \in Confirms, ConfirmMove(q)
      PROVE  register' = register
  BY <1>2, ConfirmMoves DEF ConfirmMove
<1>3. ASSUME Tick \/ Terminating \/ UNCHANGED vars
      PROVE  register' = register
  BY <1>3 DEF Tick, Terminating, vars
<1>4. CASE RegisterSave(p)
  <2>1. /\ register'[p].pc = "done"
        /\ register'[p].email = register[p].email
    BY <1>4, RegisterMoves DEF RegisterStep, RegisterSave
  <2>2. register'[p].exists = register[p].exists
    BY <1>4, RegisterMoves DEF RegisterStep, RegisterSave
  <2> QED  BY <1>4, <2>1, <2>2 DEF RegisterSave
<1>5. register[p].pc = "done" => register'[p] = register[p]
  BY <1>1, <1>2, <1>3 DEF Next, Requests, RegisterMove, ConfirmMove
<1> QED  BY <1>4, <1>5

(* A code in the table was saved by a request for that e-mail.              *)
LEMMA NextSessionMatches ==
  TInv /\ SessionMatchesRegister /\ [Next]_vars => SessionMatchesRegister'
<1> SUFFICES ASSUME TInv, SessionMatchesRegister, [Next]_vars,
                    NEW e \in Emails,
                    registration_session'[e] # NoRow,
                    registration_session'[e].code # NoCode
             PROVE  \E p \in Registers :
                      /\ registration_session'[e].code = HashCode(p)
                      /\ register'[p].email = e
                      /\ register'[p].pc = "done"
                      /\ ~register'[p].exists
  BY DEF SessionMatchesRegister, Stored
<1>1. CASE registration_session'[e] = registration_session[e]
  <2>1. PICK p \in Registers : /\ registration_session[e].code = HashCode(p)
                               /\ register[p].email = e
                               /\ register[p].pc = "done"
                               /\ ~register[p].exists
    BY <1>1 DEF SessionMatchesRegister, Stored
  <2> QED  BY <1>1, <2>1, DoneRegistersStay
<1>2. ASSUME NEW p \in Registers, RegisterSave(p), register[p].email = e,
             registration_session'[e] = SessionToSave(p)
      PROVE  /\ registration_session'[e].code = HashCode(p)
             /\ register'[p].email = e
             /\ register'[p].pc = "done"
             /\ ~register'[p].exists
  BY <1>2, RowsToSave, DoneRegistersStay
<1>3. NextRow(e)
  BY NextRows
<1> QED  BY <1>1, <1>2, <1>3 DEF NextRow

(* A code that passed the check of ConfirmRegistration was saved.           *)
LEMMA NextConfirmedCodes ==
  TInv /\ SessionMatchesRegister /\ ConfirmedCodesWereSaved /\ [Next]_vars
    => ConfirmedCodesWereSaved'
<1> SUFFICES ASSUME TInv, SessionMatchesRegister, ConfirmedCodesWereSaved,
                    [Next]_vars, NEW q \in Confirms,
                    confirm'[q].code \in Registers
             PROVE  /\ register'[confirm'[q].code].email = confirm'[q].email
                    /\ register'[confirm'[q].code].pc = "done"
  BY DEF ConfirmedCodesWereSaved
<1>1. CASE confirm'[q].email = confirm[q].email /\ confirm'[q].code = confirm[q].code
  BY <1>1, DoneRegistersStay DEF ConfirmedCodesWereSaved
<1>2. ASSUME NEW o \in Confirms, ConfirmMove(o),
             ~(confirm'[q].email = confirm[q].email /\ confirm'[q].code = confirm[q].code)
      PROVE  /\ confirm'[q].email \in Emails
             /\ ConfirmFind(q, confirm'[q].email, confirm'[q].code)
             /\ UNCHANGED register
  <2>1. o = q
    BY <1>2, ConfirmMoves DEF ConfirmMove
  <2> QED  BY <1>2, <2>1, ConfirmMoves, NoCodeIsDrawn DEF ConfirmMove
<1>3. ASSUME NEW e \in Emails, NEW code \in Registers, ConfirmFind(q, e, code)
      PROVE  register[code].email = e /\ register[code].pc = "done"
  <2>1. /\ Stored(e)
        /\ registration_session[e].code = HashCode(code)
    BY <1>3 DEF ConfirmFind, Refusal, VerifyCode, Stored
  <2>2. registration_session[e].code # NoCode
    BY <2>1, HashesAreOneWay
  <2> QED  BY <2>1, <2>2, HashesAreOneWay DEF SessionMatchesRegister
<1>4. ASSUME NEW p \in Registers, RegisterMove(p)
      PROVE  UNCHANGED confirm
  BY <1>4, RegisterMoves DEF RegisterMove
<1>5. ASSUME Tick \/ Terminating \/ UNCHANGED vars
      PROVE  UNCHANGED confirm
  BY <1>5 DEF Tick, Terminating, vars
<1>6. \/ confirm'[q].email = confirm[q].email /\ confirm'[q].code = confirm[q].code
      \/ \E o \in Confirms : ConfirmMove(o)
  BY <1>4, <1>5 DEF Next, Requests, RegisterMove, ConfirmMove
<1> QED  BY <1>1, <1>2, <1>3, <1>6

(* The account of an e-mail is that of the call that succeeded.             *)
LEMMA NextAccounts == TInv /\ AccountsAreCreated /\ [Next]_vars => AccountsAreCreated'
<1> SUFFICES ASSUME TInv, AccountsAreCreated, [Next]_vars
             PROVE  AccountsAreCreated'
  OBVIOUS
<1>0. /\ account_of \in [Emails -> Confirms \cup {NoAccount}]
      /\ NoAccount \notin Confirms
  BY SentinelsAreDistinct DEF TInv, TypeOK
<1>1. ASSUME NEW q \in Confirms, ConfirmMove(q), ~UserCreates(q)
      PROVE  AccountsAreCreated'
  <2>1. /\ UNCHANGED account_of
        /\ \A o \in Confirms : o # q => confirm'[o] = confirm[o]
        /\ confirm'[q].call = "created" <=> confirm[q].call = "created"
        /\ confirm[q].call = "created" => confirm'[q].email = confirm[q].email
    BY <1>1, ConfirmMoves DEF ConfirmMove, TInv, CallsFollowRequests
  <2> QED  BY <1>0, <2>1 DEF AccountsAreCreated
<1>2. ASSUME NEW q \in Confirms, UserCreates(q)
      PROVE  AccountsAreCreated'
  <2> DEFINE e == confirm[q].email
  <2>1. /\ confirm'[q].call = "created" /\ confirm'[q].email = e /\ e \in Emails
        /\ confirm[q].call = "sent"
        /\ \A o \in Confirms : o # q => confirm'[o] = confirm[o]
    BY <1>2 DEF UserCreates, TInv, TypeOK, RequestsArrived, ConfirmRequest
  <2>2. /\ account_of[e] = NoAccount
        /\ account_of' = [account_of EXCEPT ![e] = q]
    BY <1>2 DEF UserCreates, Free
  <2>3. \A f \in Emails : f # e => account_of'[f] = account_of[f]
    BY <1>0, <2>2
  <2>4. account_of'[e] = q
    BY <1>0, <2>1, <2>2
  <2>5. \A o \in Confirms : confirm[o].call = "created" => confirm[o].email \in Emails
    BY DEF TInv, RequestsArrived
  <2>6. \A o \in Confirms :
          confirm[o].call = "created" => account_of[confirm[o].email] = o
    BY DEF AccountsAreCreated
  <2>7. \A f \in Emails : account_of[f] # NoAccount =>
          /\ account_of[f] \in Confirms
          /\ confirm[account_of[f]].email = f
          /\ confirm[account_of[f]].call = "created"
    BY <1>0 DEF AccountsAreCreated
  <2> HIDE DEF e
  <2>8. \A f \in Emails : account_of'[f] # NoAccount =>
          /\ confirm'[account_of'[f]].email = f
          /\ confirm'[account_of'[f]].call = "created"
    BY <2>1, <2>3, <2>4, <2>7
  <2>9. \A o \in Confirms :
          confirm'[o].call = "created" => account_of'[confirm'[o].email] = o
    BY <1>0, <2>1, <2>2, <2>3, <2>4, <2>5, <2>6
  <2> QED  BY <2>8, <2>9 DEF AccountsAreCreated
<1>3. ASSUME NEW p \in Registers, RegisterMove(p)
      PROVE  UNCHANGED <<account_of, confirm>>
  BY <1>3, RegisterMoves DEF RegisterMove
<1>4. CASE Tick \/ Terminating \/ UNCHANGED vars
  BY <1>4 DEF Tick, Terminating, vars, AccountsAreCreated
<1>5. CASE UNCHANGED <<account_of, confirm>>
  BY <1>5 DEF AccountsAreCreated
<1> QED
  BY <1>1, <1>2, <1>3, <1>4, <1>5 DEF Next, Requests, RegisterMove, ConfirmMove

(* Nobody has registered at the start. *)
LEMMA InitIInv == Init => IInv
BY InitTInv, NoCodeIsDrawn
DEF Init, IInv, SessionMatchesRegister, Stored, ConfirmedCodesWereSaved,
    AccountsAreCreated, NewConfirm

(* Each step preserves the invariant. *)
LEMMA NextIInv == IInv /\ [Next]_vars => IInv'
BY NextTInv, NextSessionMatches, NextConfirmedCodes, NextAccounts DEF IInv

(* So the invariant holds from the start. *)
LEMMA InductiveInvariant == Spec => []IInv
BY InitIInv, NextIInv, PTL DEF Spec

(* A code that can be confirmed is that of a finished request for the same  *)
(* e-mail, which found no account.                                          *)
THEOREM SessionsMatchRegisters == Spec => []SessionMatchesRegister
<1>1. IInv => SessionMatchesRegister
  BY DEF IInv
<1> QED  BY <1>1, InductiveInvariant, PTL

(* Nobody gets an account without the code that was generated for its       *)
(* e-mail (registration.go:88-113).                                         *)
THEOREM EveryAccountIsConfirmed == Spec => []AccountsAreConfirmed
<1>1. IInv => AccountsAreConfirmed
  <2> SUFFICES ASSUME IInv, NEW e \in Emails, account_of[e] # NoAccount
               PROVE  /\ confirm[account_of[e]].email = e
                      /\ confirm[account_of[e]].code \in Registers
                      /\ register[confirm[account_of[e]].code].email = e
                      /\ register[confirm[account_of[e]].code].pc = "done"
    BY DEF AccountsAreConfirmed
  <2>1. account_of[e] \in Confirms
    BY DEF IInv, TInv, TypeOK
  <2>2. /\ confirm[account_of[e]].email = e
        /\ confirm[account_of[e]].call = "created"
    BY DEF IInv, AccountsAreCreated
  <2>3. confirm[account_of[e]].code \in Registers
    BY <2>1, <2>2 DEF IInv, TInv, RequestsArrived
  <2> QED  BY <2>1, <2>2, <2>3 DEF IInv, ConfirmedCodesWereSaved
<1> QED  BY <1>1, InductiveInvariant, PTL

(* Of several confirmations of one code at most one succeeds, and it is the *)
(* one that created the account (registration.go:103-105).                  *)
THEOREM SuccessIsEarned == Spec => []SuccessMeansOwnAccount
<1>1. IInv => SuccessMeansOwnAccount
  BY DEF IInv, TInv, CallsFollowRequests, AccountsAreCreated, SuccessMeansOwnAccount
<1> QED  BY <1>1, InductiveInvariant, PTL

(* A confirmation that fails anywhere before the account exists can be      *)
(* repeated with the same code (registration.go:99-110).                    *)
THEOREM LiveCodesAreKept == Spec => LiveCodesVanishWhenUsed
<1>1. IInv /\ [Next]_vars =>
        \A e \in Emails :
          Live(e) /\ registration_session'[e] = NoRow => account_of[e] # NoAccount
  <2> SUFFICES ASSUME IInv, [Next]_vars, NEW e \in Emails, Live(e),
                      registration_session'[e] = NoRow
               PROVE  account_of[e] # NoAccount
    OBVIOUS
  <2>0. TInv /\ NextRow(e)
    BY NextRows DEF IInv
  <2>1. /\ registration_session[e] # NoRow
        /\ registration_session[e].code_expires \in Nat
        /\ registration_session[e].code_expires >= now + Skew
        /\ now \in Nat /\ Skew \in Nat
    BY <2>0, TimesAreNatural
    DEF Live, Stored, TInv, TypeOK, RegistrationSession
  <2>2. \A p \in Registers : SessionToSave(p) # NoRow
    BY <2>0, RowsToSave
  <2>3. PICK q \in Confirms : confirm[q].call = "created" /\ confirm[q].email = e
    BY <2>0, <2>1, <2>2 DEF NextRow, Before
  <2> QED  BY <2>3, SentinelsAreDistinct DEF IInv, AccountsAreCreated
<1> QED
  BY <1>1, InductiveInvariant, PTL DEF Spec, LiveCodesVanishWhenUsed

(* A request about to save found no row, one that had expired, or one       *)
(* without a code it had one for; time does not run backwards.              *)
SavesAreCalledFor ==
  \A p \in Registers :
    register[p].pc = "save" => MustSave(register[p].seen, CodeOf(p))

(* What was a reason to save stays one.                                     *)
LEMMA NextSavesAreCalledFor ==
  TInv /\ SavesAreCalledFor /\ [Next]_vars => SavesAreCalledFor'
<1> SUFFICES ASSUME TInv, SavesAreCalledFor, [Next]_vars,
                    NEW p \in Registers, register'[p].pc = "save"
             PROVE  MustSave(register[p].seen, CodeOf(p))'
  BY DEF SavesAreCalledFor
<1>1. now \in Nat
  BY DEF TInv, TypeOK
<1>2. CASE register'[p] = register[p]
  <2>1. now' \in Nat /\ now <= now'
    <3>1. CASE Tick
      BY <1>1, <3>1 DEF Tick
    <3>2. ASSUME NEW o \in Registers, RegisterMove(o) PROVE now' = now
      BY <3>2, RegisterMoves DEF RegisterMove
    <3>3. ASSUME NEW q \in Confirms, ConfirmMove(q) PROVE now' = now
      BY <3>3, ConfirmMoves DEF ConfirmMove
    <3>4. CASE Terminating \/ UNCHANGED vars
      BY <1>1, <3>4 DEF Terminating, vars
    <3> QED
      BY <1>1, <3>1, <3>2, <3>3, <3>4 DEF Next, Requests, RegisterMove, ConfirmMove
  <2>2. register[p].seen # NoRow => register[p].seen.code_expires \in Nat
    BY DEF TInv, TypeOK, RegisterRequest, RegistrationSession
  <2>3. MustSave(register[p].seen, CodeOf(p))
    BY <1>2 DEF SavesAreCalledFor
  <2> QED
    BY <1>1, <1>2, <2>1, <2>2, <2>3 DEF MustSave, CodeOf, Expired, Before
<1>3. ASSUME register'[p] # register[p]
      PROVE  /\ UNCHANGED now
             /\ register'[p].exists = register[p].exists
             /\ MustSave(register'[p].seen, CodeOf(p))
  <2>1. PICK o \in Registers : RegisterMove(o)
    BY <1>3, ConfirmMoves
    DEF Next, Requests, RegisterMove, ConfirmMove, Tick, Terminating, vars
  <2>2. o = p
    BY <1>3, <2>1, RegisterMoves DEF RegisterMove
  <2> QED  BY <2>1, <2>2, RegisterMoves DEF RegisterMove, RegisterFind
<1> QED  BY <1>2, <1>3 DEF MustSave, CodeOf, Expired, Before

(* A live code is replaced only by a request that read the table before     *)
(* that code was in it (registration.go:167-172).                           *)
THEOREM LiveCodesAreNotReissued == Spec => OnlyRacesReplaceLiveCodes
<1> DEFINE Justified ==
      \A e \in Emails :
        /\ Live(e)
        /\ registration_session'[e] \notin {registration_session[e], NoRow}
        => \E p \in Registers : /\ register[p].pc = "save"
                                /\ register'[p].pc = "done"
                                /\ register[p].email = e
                                /\ register[p].seen # registration_session[e]
<1>1. TInv /\ SavesAreCalledFor /\ [Next]_vars => Justified
  <2> SUFFICES ASSUME TInv, SavesAreCalledFor, [Next]_vars,
                      NEW e \in Emails, Live(e),
                      registration_session'[e] \notin {registration_session[e], NoRow}
               PROVE  \E p \in Registers :
                        /\ register[p].pc = "save"
                        /\ register'[p].pc = "done"
                        /\ register[p].email = e
                        /\ register[p].seen # registration_session[e]
    OBVIOUS
  <2>1. PICK p \in Registers : RegisterSave(p) /\ register[p].email = e
    BY NextRows DEF NextRow
  <2>2. register[p].pc = "save" /\ register'[p].pc = "done"
    BY <2>1, DoneRegistersStay DEF RegisterSave
  <2>3. MustSave(register[p].seen, CodeOf(p))
    BY <2>2 DEF SavesAreCalledFor
  <2>4. /\ registration_session[e] # NoRow
        /\ registration_session[e].code # NoCode
        /\ registration_session[e].code_expires \in Nat
        /\ registration_session[e].code_expires >= now + Skew
        /\ now \in Nat /\ Skew \in Nat
    BY TimesAreNatural DEF Live, Stored, TInv, TypeOK, RegistrationSession
  <2>5. register[p].seen # registration_session[e]
    BY <2>3, <2>4 DEF MustSave, Expired, Before
  <2> QED  BY <2>1, <2>2, <2>5
<1>2. Init => SavesAreCalledFor
  BY DEF Init, SavesAreCalledFor, NewRegister
<1> QED
  BY <1>1, <1>2, InitTInv, NextTInv, NextSavesAreCalledFor, PTL
  DEF Spec, OnlyRacesReplaceLiveCodes
-----------------------------------------------------------------------------
(* The refinement of OneTimeCodes *)

(* A claim tells who made it, and what was claimed.                         *)
LEMMA ClaimsTellTheirOwners ==
  /\ \A q, o \in Confirms : ClaimOf(q) = ClaimOf(o) => q = o
  /\ \A q \in Confirms : Pending(q) <=> ClaimOf(q) \in Claimed
  /\ \A claim \in Claimed : \E q \in Confirms : Pending(q) /\ claim = ClaimOf(q)
<1>1. \A q, o \in Confirms : ClaimOf(q) = ClaimOf(o) => q = o
  <2> SUFFICES ASSUME NEW q \in Confirms, NEW o \in Confirms, ClaimOf(q) = ClaimOf(o)
               PROVE  q = o
    OBVIOUS
  <2>1. ClaimOf(q).by = q /\ ClaimOf(o).by = o
    BY DEF ClaimOf
  <2> QED  BY <2>1
<1>2. \A q \in Confirms : Pending(q) <=> ClaimOf(q) \in Claimed
  BY <1>1 DEF Claimed
<1> QED  BY <1>1, <1>2 DEF Claimed

(* The tables without rows offer nothing, and nobody has claimed anything.  *)
LEMMA CodesInit == Init => Codes!Init
<1> SUFFICES ASSUME Init PROVE Codes!Init
  OBVIOUS
<1>1. Offered = [e \in Emails |-> NoCode]
  BY DEF Init, Offered, OfferedBy
<1>2. Drawn = {}
  BY DEF Init, Drawn, NewRegister
<1>3. Claimed = {} /\ Created = {}
  BY DEF Init, Claimed, Created, Pending, NewConfirm
<1> QED  BY <1>1, <1>2, <1>3 DEF Codes!Init

(* What a step of a registration shows of itself: it is over, with its code *)
(* drawn, or not yet; claims and purchases are not its business.            *)
LEMMA RegisterShows ==
  ASSUME TInv, NEW p \in Registers, RegisterMove(p)
  PROVE  /\ p \notin Drawn
         /\ register'[p].pc = "done" => Drawn' = Drawn \cup {p}
         /\ register'[p].pc # "done" => Drawn' = Drawn
         /\ UNCHANGED <<Claimed, Created>>
<1>1. /\ \A o \in Registers : o # p => register'[o] = register[o]
      /\ register[p].pc # "done"
      /\ UNCHANGED <<account_of, confirm>>
  BY RegisterMoves DEF RegisterMove
<1>2. UNCHANGED <<Claimed, Created>>
  BY <1>1 DEF Claimed, Created, Pending, ClaimOf
<1> QED  BY <1>1, <1>2 DEF Drawn

(* A code that is saved is put on offer.                                    *)
LEMMA SavedIsOffered ==
  ASSUME TInv, NEW p \in Registers
  PROVE  OfferedBy(SessionToSave(p)) \in {p, NoCode}
BY RowsToSave, HashesAreOneWay DEF OfferedBy

(* Each step of a registration draws its code, withdraws offers that have   *)
(* expired, or shows nothing.                                               *)
LEMMA RegisterRefines ==
  ASSUME TInv, NEW p \in Registers, RegisterMove(p)
  PROVE  [Codes!Next]_(Codes!vars)
<1>0. /\ p \notin Drawn
      /\ register'[p].pc = "done" => Drawn' = Drawn \cup {p}
      /\ register'[p].pc # "done" => Drawn' = Drawn
      /\ UNCHANGED <<Claimed, Created>>
  BY RegisterShows
<1>1. ASSUME NEW e \in Emails, RegisterStart(p, e)
      PROVE  Codes!Next
  <2> DEFINE gone == {f \in Emails : registration_session'[f] # registration_session[f]}
  <2>1. \A f \in Emails : registration_session'[f] \in {registration_session[f], NoRow}
    BY <1>1 DEF RegisterStart, WithoutExpired, TInv, TypeOK
  <2>2. Offered' = [f \in Emails |-> IF f \in gone THEN NoCode ELSE Offered[f]]
    BY <2>1 DEF Offered, OfferedBy
  <2>3. register'[p].pc # "done"
    <3>1. register' = [register EXCEPT ![p] =
                         [@ EXCEPT !.pc = "account", !.email = e]]
      BY <1>1 DEF RegisterStart
    <3>2. register'[p].pc = "account"
      BY <3>1 DEF TInv, TypeOK, RegisterRequest
    <3> QED  BY <3>2
  <2>4. gone \in SUBSET Emails
    OBVIOUS
  <2> HIDE DEF gone
  <2>5. Codes!Withdraw(gone)
    BY <1>0, <2>2, <2>3 DEF Codes!Withdraw
  <2> QED  BY <2>4, <2>5 DEF Codes!Next
<1>2. ASSUME UNCHANGED registration_session, register'[p].pc # "done"
      PROVE  UNCHANGED Codes!vars
  BY <1>0, <1>2 DEF Codes!vars, Offered
<1>3. ASSUME NEW e \in Emails, NEW code \in {p, NoCode, Offered[e]},
             register'[p].pc = "done",
             Offered' = [Offered EXCEPT ![e] = code]
      PROVE  Codes!Next
  <2>1. Codes!Draw(e, p)
    BY <1>0, <1>3 DEF Codes!Draw
  <2> QED  BY <2>1 DEF Codes!Next
<1>4. ASSUME UNCHANGED registration_session, register'[p].pc = "done",
             register[p].pc # "idle"
      PROVE  Codes!Next
  <2>1. register[p].email \in Emails
    BY <1>4 DEF TInv, RequestsArrived
  <2>2. Offered' = [Offered EXCEPT ![register[p].email] = Offered[register[p].email]]
    BY <1>4, <2>1 DEF Offered
  <2> QED  BY <1>3, <1>4, <2>1, <2>2
<1>5. CASE RegisterSave(p)
  <2> DEFINE e == register[p].email
             code == OfferedBy(SessionToSave(p))
  <2>1. e \in Emails /\ register'[p].pc = "done"
    BY <1>5, RegisterMoves DEF RegisterStep, RegisterSave, TInv, RequestsArrived
  <2>2. registration_session' = [registration_session EXCEPT ![e] = SessionToSave(p)]
    BY <1>5 DEF RegisterSave
  <2>3. code \in {p, NoCode}
    BY SavedIsOffered
  <2>4. \A f \in Emails :
          registration_session'[f] = IF f = e THEN SessionToSave(p)
                                     ELSE registration_session[f]
    BY <2>1, <2>2 DEF TInv, TypeOK
  <2>5. Offered' = [Offered EXCEPT ![e] = code]
    <3> HIDE DEF e
    <3> QED  BY <2>1, <2>4 DEF Offered
  <2> QED  BY <1>3, <2>1, <2>3, <2>5
<1>6. CASE RegisterAccount(p) \/ RegisterFind(p) \/ RegisterFails(p)
  <2>1. UNCHANGED registration_session /\ register[p].pc # "idle"
    BY <1>6 DEF RegisterAccount, RegisterFind, RegisterFails
  <2> QED  BY <1>2, <1>4, <2>1
<1> QED  BY <1>1, <1>5, <1>6 DEF RegisterMove, RegisterStep

(* How the claims follow one request when no account is created: they stay,  *)
(* lose the claim of that request, or gain it.                               *)
LEMMA ClaimsFollowRequest ==
  ASSUME NEW q \in Confirms,
         \A o \in Confirms : o # q => confirm'[o] = confirm[o],
         UNCHANGED account_of
  PROVE  /\ (Pending(q)' <=> Pending(q)) /\ (Pending(q) => ClaimOf(q)' = ClaimOf(q))
              => Claimed' = Claimed
         /\ Pending(q) /\ ~Pending(q)' => Claimed' = Claimed \ {ClaimOf(q)}
         /\ ~Pending(q) /\ Pending(q)' => Claimed' = Claimed \cup {ClaimOf(q)'}
<1>1. \A o \in Confirms : o # q =>
        /\ ClaimOf(o)' = ClaimOf(o)
        /\ Pending(o)' <=> Pending(o)
  BY DEF ClaimOf, Pending
<1>2. \A o \in Confirms : ClaimOf(o) = ClaimOf(q) => o = q
  BY ClaimsTellTheirOwners
<1> DEFINE others == {ClaimOf(o) : o \in {c \in Confirms : c # q /\ Pending(c)}}
<1>3. Claimed = others \cup (IF Pending(q) THEN {ClaimOf(q)} ELSE {})
  BY DEF Claimed
<1>4. Claimed' = others \cup (IF Pending(q)' THEN {ClaimOf(q)'} ELSE {})
  BY <1>1 DEF Claimed
<1>5. ClaimOf(q) \notin others
  BY <1>2
<1> HIDE DEF others
<1> QED  BY <1>3, <1>4, <1>5

(* An e-mail with a purchase has an account, and no claims.                 *)
LEMMA TakenHasAccount ==
  ASSUME IInv, NEW e \in Emails
  PROVE  (\E b \in Created : b.email = e) => account_of[e] # NoAccount
BY SentinelsAreDistinct DEF IInv, AccountsAreCreated, Created, ClaimOf

(* A search that finds its code is a claim, unless the e-mail has an        *)
(* account: then userMicro will refuse it, and it claims nothing.           *)
LEMMA FindRefines ==
  ASSUME IInv, NEW q \in Confirms, NEW e \in Emails, NEW code \in Registers,
         ConfirmFind(q, e, code)
  PROVE  [Codes!Next]_(Codes!vars)
<1>0. /\ confirm \in [Confirms -> ConfirmRequest]
      /\ confirm[q].pc = "idle" /\ confirm[q].call = "none"
      /\ confirm' = [confirm EXCEPT ![q] =
                       [@ EXCEPT !.pc = "create", !.email = e, !.code = code]]
      /\ UNCHANGED <<now, account_of, registration_session, register>>
  BY DEF ConfirmFind, IInv, TInv, TypeOK, CallsFollowRequests
<1>1. confirm'[q] = [confirm[q] EXCEPT !.pc = "create", !.email = e, !.code = code]
  BY <1>0
<1>2. /\ confirm'[q].pc = "create" /\ confirm'[q].call = "none"
      /\ confirm'[q].email = e /\ confirm'[q].code = code
      /\ \A o \in Confirms : o # q => confirm'[o] = confirm[o]
  BY <1>0, <1>1 DEF ConfirmRequest
<1>3. UNCHANGED <<Offered, Drawn>>
  BY <1>0 DEF Offered, Drawn
<1>4. Created' = Created
  BY <1>0, <1>2 DEF Created, ClaimOf
<1>5. ~Pending(q) /\ (Pending(q)' <=> account_of[e] = NoAccount)
  BY <1>0, <1>2 DEF Pending
<1>6. Offered[e] = code
  <2>1. /\ registration_session[e] # NoRow
        /\ registration_session[e].code = HashCode(code)
    BY DEF ConfirmFind, Refusal, VerifyCode
  <2> QED  BY <2>1, HashesAreOneWay DEF Offered, OfferedBy
<1>7. CASE account_of[e] = NoAccount
  <2>1. Claimed' = Claimed \cup {[by |-> q, email |-> e, code |-> code]}
    BY <1>0, <1>2, <1>5, <1>7, ClaimsFollowRequest DEF ClaimOf
  <2>2. Codes!Claim(q, e)
    BY <1>3, <1>4, <1>6, <1>7, <2>1, TakenHasAccount, NoCodeIsDrawn
    DEF Codes!Claim, Codes!Taken
  <2> QED  BY <2>2 DEF Codes!Next
<1>8. CASE account_of[e] # NoAccount
  <2>1. Claimed' = Claimed
    BY <1>0, <1>2, <1>5, <1>8, ClaimsFollowRequest
  <2> QED  BY <1>3, <1>4, <2>1 DEF Codes!vars
<1> QED  BY <1>7, <1>8

(* The INSERT of userMicro is the purchase: it needs a pending claim, and   *)
(* voids the others on its e-mail.                                          *)
LEMMA CreateRefines ==
  ASSUME IInv, NEW q \in Confirms, UserCreates(q)
  PROVE  Codes!Next
<1> DEFINE e == confirm[q].email
<1>0. /\ confirm \in [Confirms -> ConfirmRequest]
      /\ account_of \in [Emails -> Confirms \cup {NoAccount}]
      /\ e \in Emails /\ confirm[q].call = "sent" /\ account_of[e] = NoAccount
      /\ account_of' = [account_of EXCEPT ![e] = q]
      /\ confirm' = [confirm EXCEPT ![q].call = "created"]
      /\ UNCHANGED <<now, registration_session, register>>
  BY DEF UserCreates, Free, IInv, TInv, TypeOK, RequestsArrived
<1>1. /\ \A o \in Confirms : /\ confirm'[o].email = confirm[o].email
                             /\ confirm'[o].code = confirm[o].code
                             /\ confirm'[o].pc = confirm[o].pc
                             /\ o # q => confirm'[o].call = confirm[o].call
      /\ confirm'[q].call = "created"
  BY <1>0 DEF ConfirmRequest
<1>2. \A f \in Emails : account_of'[f] = IF f = e THEN q ELSE account_of[f]
  BY <1>0
<1>3. \A o \in Confirms : ClaimOf(o)' = ClaimOf(o)
  BY <1>1 DEF ClaimOf
<1>4. Pending(q) /\ ClaimOf(q) \in Claimed
  BY <1>0 DEF Pending, Claimed
<1>5. \A o \in Confirms :
        Pending(o)' <=> Pending(o) /\ confirm[o].email # e
  <2> SUFFICES ASSUME NEW o \in Confirms
               PROVE  Pending(o)' <=> Pending(o) /\ confirm[o].email # e
    OBVIOUS
  <2>1. CASE /\ confirm[o].pc \notin {"create", "await"}
             /\ confirm[o].call # "sent"
    BY <1>1, <2>1 DEF Pending
  <2>2. CASE confirm[o].pc \in {"create", "await"} \/ confirm[o].call = "sent"
    <3>1. confirm[o].email \in Emails
      BY <2>2 DEF IInv, TInv, RequestsArrived
    <3>2. CASE confirm[o].email = e
      BY <1>1, <1>2, <3>1, <3>2, SentinelsAreDistinct DEF Pending
    <3>3. CASE confirm[o].email # e
      <4>1. o # q
        BY <3>3
      <4> HIDE DEF e
      <4> QED  BY <1>1, <1>2, <3>1, <3>3, <4>1 DEF Pending
    <3> QED  BY <3>2, <3>3
  <2> QED  BY <2>1, <2>2
<1>6. Claimed' = {claim \in Claimed : claim.email # e}
  <2>1. \A o \in Confirms : ClaimOf(o).email = confirm[o].email
    BY DEF ClaimOf
  <2> HIDE DEF e
  <2> QED  BY <1>3, <1>5, <2>1 DEF Claimed
<1>7. Created' = Created \cup {ClaimOf(q)}
  <2> HIDE DEF e
  <2> QED  BY <1>0, <1>1, <1>3 DEF Created
<1>8. UNCHANGED <<Offered, Drawn>>
  BY <1>0 DEF Offered, Drawn
<1>9. ClaimOf(q).email = e
  BY DEF ClaimOf
<1>10. Offered = [Offered EXCEPT ![e] = Offered[e]]
  BY <1>0 DEF Offered
<1>11. Codes!Voided(ClaimOf(q)) = {claim \in Claimed : claim.email = e}
  BY <1>9 DEF Codes!Voided
<1>12. Offered[e] \in Codes!OfferAfter(ClaimOf(q))
  BY <1>9 DEF Codes!OfferAfter
<1> HIDE DEF e
<1>13. Codes!Buy(ClaimOf(q))
  BY <1>6, <1>7, <1>8, <1>9, <1>10, <1>11, <1>12 DEF Codes!Buy
<1> QED  BY <1>4, <1>13 DEF Codes!Next

(* Each step of a confirmation claims, drops a claim, buys, withdraws an     *)
(* offer, or shows nothing.                                                  *)
LEMMA ConfirmRefines ==
  ASSUME IInv, NEW q \in Confirms, ConfirmMove(q)
  PROVE  [Codes!Next]_(Codes!vars)
<1>0. TInv /\ AccountsAreCreated
  BY DEF IInv
<1>1. CASE \E e \in Emails, code \in Registers : ConfirmFind(q, e, code)
  BY <1>1, FindRefines
<1>2. CASE UserCreates(q)
  BY <1>2, CreateRefines
<1>3. CASE ConfirmDelete(q)
  <2> DEFINE e == confirm[q].email
  <2>1. /\ \A o \in Confirms : o # q => confirm'[o] = confirm[o]
        /\ UNCHANGED <<account_of, register>>
        /\ confirm[q].pc = "delete" /\ confirm[q].call = "created"
        /\ e \in Emails
        /\ registration_session' = [registration_session EXCEPT ![e] = NoRow]
        /\ confirm'[q].pc = "done"
        /\ confirm'[q].call = "created"
        /\ ClaimOf(q)' = ClaimOf(q)
    BY <1>0, <1>3
    DEF ConfirmDelete, ConfirmAnswered, TInv, TypeOK, RequestsArrived,
        CallsFollowRequests, ConfirmRequest, ClaimOf
  <2>2. ~Pending(q) /\ ~Pending(q)'
    BY <2>1 DEF Pending
  <2>3. Claimed' = Claimed
    BY <2>1, <2>2, ClaimsFollowRequest
  <2>4. Created' = Created
    <3>1. \A o \in Confirms : /\ ClaimOf(o)' = ClaimOf(o)
                              /\ confirm'[o].call = confirm[o].call
      BY <2>1 DEF ClaimOf
    <3> QED  BY <3>1 DEF Created
  <2>5. \A f \in Emails :
          registration_session'[f] = IF f = e THEN NoRow ELSE registration_session[f]
    BY <1>0, <2>1 DEF TInv, TypeOK
  <2>6. Offered' = [f \in Emails |-> IF f \in {e} THEN NoCode ELSE Offered[f]]
    <3> HIDE DEF e
    <3> QED  BY <2>5 DEF Offered, OfferedBy
  <2>7. UNCHANGED Drawn
    BY <2>1 DEF Drawn
  <2>8. Codes!Withdraw({e})
    <3> HIDE DEF e
    <3> QED  BY <2>3, <2>4, <2>6, <2>7 DEF Codes!Withdraw
  <2> QED  BY <2>1, <2>8 DEF Codes!Next
<1>4. CASE ~ConfirmDelete(q) /\ ~UserCreates(q)
           /\ ~\E e \in Emails, code \in Registers : ConfirmFind(q, e, code)
  <2>1. /\ \A o \in Confirms : o # q => confirm'[o] = confirm[o]
        /\ UNCHANGED <<account_of, register>>
        /\ confirm[q].call = "created" <=> confirm'[q].call = "created"
        /\ \/ confirm[q].pc = "idle" /\ confirm[q].call = "none"
              /\ confirm'[q].pc = "done" /\ confirm'[q].call = "none"
           \/ /\ ClaimOf(q)' = ClaimOf(q)
              /\ Pending(q)' => Pending(q)
    BY <1>0, <1>4, ConfirmMoves
    DEF ConfirmMove, TInv, CallsFollowRequests, Pending, ClaimOf
  <2>2. UNCHANGED registration_session
    BY <1>4 DEF ConfirmMove, ConfirmStep, ConfirmRefused, ConfirmCall,
       ConfirmCreated, ConfirmNotCreated, ConfirmFails, UserStep, UserRefuses,
       CallIsLost
  <2>3. UNCHANGED <<Offered, Drawn>>
    BY <2>1, <2>2 DEF Offered, Drawn
  <2>4. Created' = Created
    BY <2>1 DEF Created, ClaimOf
  <2>5. Claimed' = Claimed \/ (Pending(q) /\ Claimed' = Claimed \ {ClaimOf(q)})
    <3>1. CASE /\ confirm[q].pc = "idle" /\ confirm[q].call = "none"
               /\ confirm'[q].pc = "done" /\ confirm'[q].call = "none"
      <4>1. ~Pending(q) /\ ~Pending(q)'
        BY <3>1 DEF Pending
      <4> QED  BY <2>1, <4>1, ClaimsFollowRequest
    <3>2. CASE ClaimOf(q)' = ClaimOf(q) /\ (Pending(q)' => Pending(q))
      BY <2>1, <3>2, ClaimsFollowRequest
    <3> QED  BY <2>1, <3>1, <3>2
  <2>6. CASE Claimed' = Claimed
    BY <2>3, <2>4, <2>6 DEF Codes!vars
  <2>7. CASE Pending(q) /\ Claimed' = Claimed \ {ClaimOf(q)}
    <3>1. ClaimOf(q) \in Claimed
      BY <2>7 DEF Claimed
    <3>2. Codes!Drop(ClaimOf(q))
      BY <2>3, <2>4, <2>7 DEF Codes!Drop
    <3> QED  BY <3>1, <3>2 DEF Codes!Next
  <2> QED  BY <2>5, <2>6, <2>7
<1> QED  BY <1>1, <1>2, <1>3, <1>4

(* Registration implements OneTimeCodes: at every step of every request, of *)
(* userMicro and of the clock (registration.go:88-141;                      *)
(* account_grpc_adapter.go:67-88).                                          *)
THEOREM RegistrationImplementsOneTimeCodes == Spec => CodesAreOffered
<1>1. IInv /\ [Next]_vars => [Codes!Next]_(Codes!vars)
  <2> SUFFICES ASSUME IInv, [Next]_vars PROVE [Codes!Next]_(Codes!vars)
    OBVIOUS
  <2>1. TInv
    BY DEF IInv
  <2>2. ASSUME Tick \/ Terminating \/ UNCHANGED vars
        PROVE  UNCHANGED Codes!vars
    BY <2>2 DEF Tick, Terminating, vars, Codes!vars, Offered, Drawn, Claimed,
       Created, Pending, ClaimOf
  <2> QED
    BY <2>1, <2>2, RegisterRefines, ConfirmRefines
    DEF Next, Requests, RegisterMove, ConfirmMove
<1> QED
  BY <1>1, CodesInit, InductiveInvariant, PTL
  DEF Spec, CodesAreOffered, Codes!Spec
=============================================================================
