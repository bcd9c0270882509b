----------------------------- MODULE AuthSystem -----------------------------
(***************************************************************************)
(* Both services together: registration, login and refresh over one clock,  *)
(* one account table and one table of refresh tokens.  Each component takes *)
(* its own steps and leaves the variables of the others alone:              *)
(*                                                                         *)
(*   - an account is what a confirmation of Registration created, and is    *)
(*     named by it; userMicro has no operation that removes one, so the     *)
(*     account switches of Login do not happen here;                        *)
(*   - a login that is paid with a pair of tokens is what Tokens calls a    *)
(*     login, and its refresh token is handed to the client when the answer *)
(*     arrives;                                                             *)
(*   - clients present the tokens they were handed.                         *)
(***************************************************************************)
EXTENDS Credentials

CONSTANTS
  Emails,     \* e-mail addresses
  Registers,  \* requests POST /registration; each is also its code
  Enrolments, \* requests POST /registration/confirmEmail; each is also the
              \* id of the account it creates
  Logins,     \* requests POST /login/sendCodeEmail; each is also its code
  Confirms,   \* requests POST /login/confirmEmail
  Refreshes,  \* requests POST /refreshToken
  CodeTTL, RefreshTTL, Skew,
  MaxTime,    \* bound: the clock stops here
  NoAccount, NoEmail, NoCode, NoRow, NoToken

VARIABLES
  now,
  account_of,             \* userMicro: the account of an e-mail
  registration_session, register, enrol,
  login_session, login, confirm,
  refresh_token_session,  \* filled by logins and refreshes
  handed, refresh

registration == <<account_of, registration_session, register, enrol>>

logins == <<login_session, login, confirm>>

tokens == <<refresh_token_session, handed, refresh>>

vars == <<now, registration, logins, tokens>>

-----------------------------------------------------------------------------
(* The components *)

R == INSTANCE Registration WITH Confirms <- Enrolments, confirm <- enrol

AccountState ==
  [a \in Enrolments |->
     IF enrol[a].call = "created" THEN "present" ELSE "unborn"]

L == INSTANCE Login WITH Accounts <- Enrolments, account_state <- AccountState

(* What Tokens sees of a confirmation: a transaction that has signed, and a  *)
(* committed one.                                                            *)
SeenByTokens(q) ==
  IF confirm[q].pc = "commit" \/ confirm[q].paid
  THEN [pc |-> IF confirm[q].paid THEN "done" ELSE "commit",
        acct |-> confirm[q].acct, issued |-> confirm[q].issued]
  ELSE [pc |-> "idle", acct |-> NoAccount, issued |-> 0]

SeenLogins == [q \in Confirms |-> SeenByTokens(q)]

T == INSTANCE Tokens
       WITH Accounts <- Enrolments, Logins <- Confirms, TTL <- RefreshTTL,
            login <- SeenLogins

(* The assumptions of the three. *)
ASSUME TimesAreNatural ==
  CodeTTL \in Nat /\ RefreshTTL \in Nat /\ Skew \in Nat /\ MaxTime \in Nat

ASSUME SentinelsAreDistinct ==
  /\ NoAccount \notin Enrolments /\ NoEmail \notin Emails
  /\ NoCode \notin R!Hashes /\ NoCode \notin L!Hashes
  /\ NoRow \notin R!RegistrationSession /\ NoRow \notin L!LoginSession
  /\ NoToken \notin T!Tokens

-----------------------------------------------------------------------------
Init == R!Init /\ L!Init /\ T!Init

Token(q) == RefreshToken(confirm[q].acct, confirm[q].issued, RefreshTTL)

Answered(q) == confirm[q].answer = "tokens"

Registration ==
  /\ UNCHANGED <<now, logins, tokens>>
  /\ R!Requests

(* The answer of a confirmation that was paid carries its token. *)
TokensAreAnswered ==
  handed' = handed \cup {Token(q)' : q \in {c \in Confirms : Answered(c)'}}

Login ==
  /\ UNCHANGED <<now, registration, refresh>>
  /\ L!Requests
  /\ TokensAreAnswered

Refresh ==
  /\ UNCHANGED <<now, registration, logins>>
  /\ T!Requests

Tick ==
  /\ now < MaxTime
  /\ now' = now + 1
  /\ UNCHANGED <<registration, logins, tokens>>

(* The instance is over when every request that can still arrive has been    *)
(* answered; a client that was handed no token does not refresh.             *)
Terminating ==
  /\ \A p \in Registers : register[p].pc = "done"
  /\ \A a \in Enrolments : enrol[a].pc = "done" /\ enrol[a].call # "sent"
  /\ \A p \in Logins : login[p].pc = "done"
  /\ \A q \in Confirms : confirm[q].pc = "done"
  /\ \A r \in Refreshes : refresh[r].pc \in {"idle", "done"}
  /\ UNCHANGED vars

Next == Registration \/ Login \/ Refresh \/ Tick \/ Terminating

Spec == Init /\ [][Next]_vars

(* What a request that has arrived does next when nothing fails. *)
Going ==
  \/ /\ UNCHANGED <<now, logins, tokens>>
     /\ \/ \E p \in Registers : R!RegisterStep(p)
        \/ \E a \in Enrolments : R!ConfirmStep(a) \/ R!UserStep(a)
  \/ /\ UNCHANGED <<now, registration, refresh>>
     /\ \/ \E p \in Logins : L!LoginStep(p)
        \/ \E q \in Confirms : L!ConfirmStep(q)
     /\ TokensAreAnswered
  \/ /\ UNCHANGED <<now, registration, logins>>
     /\ \E r \in Refreshes : T!RefreshStep(r)

(* As long as a request can go on, one of them does: there are finitely many, *)
(* so this is as good as fairness to each.                                   *)
FairSpec == Spec /\ WF_vars(Going)

-----------------------------------------------------------------------------
(* Safety *)

(* Every refresh token, in the table or with a client, is of an account that  *)
(* was created with the code of a registration and for which the code of a    *)
(* login was presented, both sent to the one e-mail the account has; however  *)
(* registrations, logins and refreshes of the e-mail interleave               *)
(* (registration.go:88-114, login.go:183-234, token.go:99-133).               *)
TokensNeedBothCodes ==
  \A token \in handed \cup {row.refresh_token : row \in refresh_token_session} :
    LET a == token.sub
        e == enrol[a].email
    IN /\ account_of[e] = a
       /\ register[enrol[a].code].email = e
       /\ \E q \in Confirms : /\ confirm[q].paid
                              /\ confirm[q].acct = a
                              /\ confirm[q].email = e
                              /\ login[confirm[q].code].email = e

(* What Login assumes of userMicro is what Registration makes it do: accounts *)
(* appear one by one, under free e-mails, by ids that were never used, and do *)
(* not change or move (registration.go:103; login.go:133-145, 220).           *)
LoginsSeeAccounts ==
  [][account_of' # account_of =>
       \E e \in Emails, a \in Enrolments : L!CreateAccount(e, a)]_vars

(* What Tokens assumes of logins is what they do: a row appears with the      *)
(* commit, for an account, with the clean-up of a clock that is not ahead of  *)
(* the signing; its token leaves authMicro then or never.                     *)
RefreshesSeeLogins == T!Spec

(* Liveness *)

(* Every request of every kind that arrived is answered: again and again       *)
(* nobody is waiting (each request arrives once, so one that is stuck would be *)
(* waiting for ever).  No order of the transactions' row locks and of the      *)
(* statements that wait for them, and no lost call, keeps one waiting, and     *)
(* every error path ends its transaction (login.go:222,                        *)
(* authenticate_user.go:32-44, registration.go:99-114).                        *)
EveryRequestAnswered == []<>(R!Quiet /\ L!Quiet /\ T!Quiet)

=============================================================================
