------------------------------- MODULE Tokens -------------------------------
(***************************************************************************)
(* Refresh tokens: TokenService.RefreshTokens and CreateTokens of authMicro *)
(* over the table refresh_token_session.                                    *)
(*                                                                         *)
(* A refresh is five statements and one call with no transaction around     *)
(* them: it finds the row of the old token, cleans up, asks userMicro for   *)
(* the claims, inserts the row of the new token and deletes the old one.    *)
(* An error of the last DELETE is logged and the pair is returned anyway.   *)
(*                                                                         *)
(* A login adds a row too (CreateTokens inside the transaction of           *)
(* AuthenticateUser.Execute, see Login); here it is one step per statement  *)
(* that others can see: the signing, and the commit.                        *)
(***************************************************************************)
EXTENDS Credentials

CONSTANTS
  Accounts,   \* account ids
  Logins,     \* logins that get as far as CreateTokens
  Refreshes,  \* requests POST /refreshToken
  TTL,        \* refreshTokenTTL, in seconds
  Skew,       \* how far the clock of the database may be from authMicro's
  MaxTime,    \* bound: the clock stops here
  NoAccount,  \* the account of a login that has not started
  NoToken     \* the token of a request that has not arrived

ASSUME TimesAreNatural == TTL \in Nat /\ Skew \in Nat /\ MaxTime \in Nat

Tokens == [sub : Accounts, iat : Nat, exp : Nat]

ASSUME SentinelsAreDistinct == NoAccount \notin Accounts /\ NoToken \notin Tokens

VARIABLES
  now,                    \* the clock of authMicro
  refresh_token_session,  \* the set of rows
  handed,                 \* the refresh tokens that left authMicro
  login,                  \* the state of each login
  refresh                 \* the state of each POST /refreshToken

vars == <<now, refresh_token_session, handed, login, refresh>>

-----------------------------------------------------------------------------
(*   token    the refresh token presented                                   *)
(*   issued   the instant in the claims of the new pair                     *)
(*   fresh    the refresh token of the pair that was returned               *)

LoginProcess ==
  [pc : {"idle", "commit", "done"}, acct : Accounts \cup {NoAccount}, issued : Nat]

RefreshRequest ==
  [pc : {"idle", "find", "purge", "clean", "sign", "save", "retire", "done"},
   token : Tokens \cup {NoToken},
   issued : Nat,
   answer : {"none", "tokens", "invalid", "unauthorized", "expired", "error"},
   fresh : Tokens \cup {NoToken}]

NewLogin == [pc |-> "idle", acct |-> NoAccount, issued |-> 0]

NewRefresh ==
  [pc |-> "idle", token |-> NoToken, issued |-> 0, answer |-> "none",
   fresh |-> NoToken]

TypeOK ==
  /\ now \in Nat
  /\ refresh_token_session \subseteq RefreshRows(Accounts)
  /\ handed \subseteq Tokens
  /\ login \in [Logins -> LoginProcess]
  /\ refresh \in [Refreshes -> RefreshRequest]

Init ==
  /\ now = 0
  /\ refresh_token_session = {}
  /\ handed = {}
  /\ login = [l \in Logins |-> NewLogin]
  /\ refresh = [r \in Refreshes |-> NewRefresh]

RefreshAnswered(r, answer) ==
  refresh' = [refresh EXCEPT ![r] =
                [@ EXCEPT !.pc = "done", !.issued = 0, !.answer = answer]]

RowsOf(token) ==
  {row \in refresh_token_session : row.refresh_token = token}

-----------------------------------------------------------------------------
(* CreateTokens of a login *)

LoginSign(l, a) ==
  /\ login[l].pc = "idle"
  /\ login' = [login EXCEPT ![l] =
                 [pc |-> "commit", acct |-> a, issued |-> now]]
  /\ UNCHANGED <<now, refresh_token_session, handed, refresh>>

LoginRow(l) == RefreshRow(login[l].acct, login[l].issued, TTL)

(* The commit.  Its clean-up looked at the clock as of the beginning of the *)
(* transaction, some time before it signed; the token may never reach the   *)
(* client.                                                                  *)
LoginCommit(l) ==
  /\ login[l].pc = "commit"
  /\ \E began \in 0 .. login[l].issued : \E db \in DatabaseClock(began, Skew) :
       refresh_token_session' =
         UnexpiredTokens(refresh_token_session, db) \cup {LoginRow(l)}
  /\ handed' \in {handed, handed \cup {LoginRow(l).refresh_token}}
  /\ login' = [login EXCEPT ![l].pc = "done"]
  /\ UNCHANGED <<now, refresh>>

(* The transaction is rolled back, and l may stand for another login. *)
LoginFails(l) ==
  /\ login[l].pc = "commit"
  /\ login' = [login EXCEPT ![l] = NewLogin]
  /\ UNCHANGED <<now, refresh_token_session, handed, refresh>>

-----------------------------------------------------------------------------
(* TokenService.RefreshTokens *)

(* ParseToken: the library refuses a token from the second "exp" on. *)
Parses(token) == now < token.exp

RefreshParse(r, token) ==
  /\ refresh[r].pc = "idle"
  /\ Parses(token)
  /\ refresh' = [refresh EXCEPT ![r] =
                   [@ EXCEPT !.pc = "find", !.token = token]]
  /\ UNCHANGED <<now, refresh_token_session, handed, login>>

RefreshInvalid(r, token) ==
  /\ refresh[r].pc = "idle"
  /\ ~Parses(token)
  /\ RefreshAnswered(r, "invalid")
  /\ UNCHANGED <<now, refresh_token_session, handed, login>>

(* FindByToken, and what the row says *)
RefreshFind(r) ==
  LET rows == RowsOf(refresh[r].token)
  IN /\ refresh[r].pc = "find"
     /\ \/ /\ rows = {}
           /\ RefreshAnswered(r, "unauthorized")
        \/ \E row \in rows :
             refresh' = [refresh EXCEPT ![r].pc =
                           IF Before(row.expires_at, now) THEN "purge"
                           ELSE "clean"]
     /\ UNCHANGED <<now, refresh_token_session, handed, login>>

(* The row expired after the token was parsed.  The DELETE may fail. *)
RefreshPurge(r) ==
  /\ refresh[r].pc = "purge"
  /\ refresh_token_session' \in
       {refresh_token_session, refresh_token_session \ RowsOf(refresh[r].token)}
  /\ RefreshAnswered(r, "expired")
  /\ UNCHANGED <<now, handed, login>>

ExpiredAtTheSecond(db) ==  \* mutant: the comparison of the clean-up is not strict
  {row \in refresh_token_session : row.expires_at > db}

Unexpired(db) == UnexpiredTokens(refresh_token_session, db)

(* cleanupExpiredSessions logs an error of the DELETE and goes on. *)
RefreshClean(r) ==
  /\ refresh[r].pc = "clean"
  /\ refresh_token_session' \in
       {refresh_token_session} \cup {Unexpired(db) : db \in DatabaseClock(now, Skew)}
  /\ refresh' = [refresh EXCEPT ![r].pc = "sign"]
  /\ UNCHANGED <<now, handed, login>>

(* GetAccessTokenPayload, then the pair is signed as of now. *)
RefreshSign(r) ==
  /\ refresh[r].pc = "sign"
  /\ refresh' = [refresh EXCEPT ![r] =
                   [@ EXCEPT !.pc = "save", !.issued = now]]
  /\ UNCHANGED <<now, refresh_token_session, handed, login>>

ExpiryBeforeIssue(r) ==  \* mutant: the lifetime is subtracted
  [RefreshRow(refresh[r].token.sub, refresh[r].issued, TTL)
     EXCEPT !.expires_at = refresh[r].issued - TTL]

(* The row of the new token: the subject is that of the old one. *)
NewRow(r) == RefreshRow(refresh[r].token.sub, refresh[r].issued, TTL)

(* The INSERT; it may go through without the caller learning of it. *)
RefreshSave(r) ==
  /\ refresh[r].pc = "save"
  /\ refresh_token_session' = refresh_token_session \cup {NewRow(r)}
  /\ \/ refresh' = [refresh EXCEPT ![r].pc = "retire"]
     \/ RefreshAnswered(r, "error")
  /\ UNCHANGED <<now, handed, login>>

RetireAccount(r) ==  \* mutant: the account's other tokens go as well
  {row \in refresh_token_session :
     row.account_id = refresh[r].token.sub /\ row # NewRow(r)}

(* The rows DeleteByToken takes. *)
Retired(r) == RowsOf(refresh[r].token)

(* The DELETE, whose error is dropped; then the pair is returned. *)
RefreshRetire(r) ==
  LET fresh == NewRow(r).refresh_token
  IN /\ refresh[r].pc = "retire"
     /\ refresh_token_session' \in
          {refresh_token_session, refresh_token_session \ Retired(r)}
     /\ handed' = handed \cup {fresh}
     /\ refresh' = [refresh EXCEPT ![r] =
                      [@ EXCEPT !.pc = "done", !.issued = 0,
                                !.answer = "tokens", !.fresh = fresh]]
     /\ UNCHANGED <<now, login>>

(* A statement, userMicro, the process or the client fails. *)
RefreshFails(r) ==
  /\ refresh[r].pc \in {"find", "purge", "clean", "sign", "save", "retire"}
  /\ RefreshAnswered(r, "error")
  /\ UNCHANGED <<now, refresh_token_session, handed, login>>

-----------------------------------------------------------------------------
Tick ==
  /\ now < MaxTime
  /\ now' = now + 1
  /\ UNCHANGED <<refresh_token_session, handed, login, refresh>>

(* Every login is over, and no refresh is under way: clients may keep their *)
(* tokens, or have none.                                                    *)
Terminating ==
  /\ \A l \in Logins : login[l].pc = "done"
  /\ \A r \in Refreshes : refresh[r].pc \in {"idle", "done"}
  /\ UNCHANGED vars

(* What a refresh that has arrived does next when nothing fails. *)
RefreshStep(r) ==
  \/ RefreshFind(r) \/ RefreshPurge(r) \/ RefreshClean(r)
  \/ RefreshSign(r) \/ RefreshSave(r) \/ RefreshRetire(r)

(* Clients present tokens they were given; a string that is no token of     *)
(* ours is answered "invalid" without touching any state.                   *)
Requests ==
  \E r \in Refreshes :
    \/ \E token \in handed : RefreshParse(r, token) \/ RefreshInvalid(r, token)
    \/ RefreshStep(r)
    \/ RefreshFails(r)

Next ==
  \/ \E l \in Logins :
       \/ \E a \in Accounts : LoginSign(l, a)
       \/ LoginCommit(l)
       \/ LoginFails(l)
  \/ Requests
  \/ Tick
  \/ Terminating

Spec == Init /\ [][Next]_vars

-----------------------------------------------------------------------------
(* Safety *)

(* One of the requests was given the token while it was valid. *)
Presented(token, requests) == \E r \in requests : refresh[r].token = token

(* A token that left authMicro can be refreshed until its expiry, unless it *)
(* was presented before: no clean-up, no refresh of another token of the    *)
(* same account and no failed refresh takes its row (token.go:108-130,      *)
(* 172-176).                                                                *)
HandedTokensAreLive ==
  \A token \in handed :
    \/ RowsOf(token) # {}
    \/ Before(token.exp, now + Skew)
    \/ Presented(token, Refreshes)

(* A request is turned away as unauthorized only when its token expired     *)
(* while the request was under way or another request had presented the     *)
(* same string (token.go:108-115).  That is a second use of the token, or   *)
(* the use of its twin, signed for the account in the same second: a client *)
(* that uses each token once, in time and in another second than it got it, *)
(* is never logged out.                                                     *)
UnauthorizedMeansUsed ==
  \A r \in Refreshes : refresh[r].answer = "unauthorized" =>
    \/ Before(refresh[r].token.exp, now + Skew)
    \/ Presented(refresh[r].token, Refreshes \ {r})

(* Liveness *)

(* Nobody waits for an answer; that this comes about is stated in AuthSystem. *)
Quiet == \A r \in Refreshes : refresh[r].pc \in {"idle", "done"}

-----------------------------------------------------------------------------
(* What the documents say and the code does not do *)

(* "Returns a new pair of JWT tokens", handler/refresh_tokens.go.  The      *)
(* refresh token of the pair can be used until it expires, if nobody else   *)
(* presented it.                                                            *)
RefreshedPairIsLive ==
  \A r \in Refreshes : refresh[r].answer = "tokens" =>
    \/ RowsOf(refresh[r].fresh) # {}
    \/ Before(refresh[r].fresh.exp, now + Skew)
    \/ Presented(refresh[r].fresh, Refreshes \ {r})

=============================================================================
