---------------------------- MODULE Credentials ----------------------------
(***************************************************************************)
(* The two credentials authMicro hands out and how they are stored.        *)
(*                                                                         *)
(*   - A confirmation code.  A session row keeps its bcrypt hash, or the    *)
(*     empty string when no code was generated.  bcrypt is salted and       *)
(*     one-way: all a stored hash tells is which plain code it is of.       *)
(*   - A refresh token.  It is a signed JWT whose claims are the subject    *)
(*     and three instants in WHOLE seconds (nbf repeats iat); there is no   *)
(*     jti, so the token IS its claims: two tokens signed for one account   *)
(*     in one second are the same string.                                   *)
(*                                                                         *)
(* One unit of time is one second.  A table of tokens is a set of rows:     *)
(* refresh_token is not unique in the schema, but every query the code      *)
(* makes treats equal rows alike, so their multiplicity is left out.        *)
(***************************************************************************)
EXTENDS Integers

(* bcrypt.GenerateFromPassword and CompareHashAndPassword. *)
HashCode(plainCode) == [bcrypt |-> plainCode]

VerifyCode(hashedCode, plainCode) == hashedCode = HashCode(plainCode)

(* time.Time.Before(now), and Postgres' "expires < NOW()". *)
Before(instant, now) == instant < now

(* NOW() of Postgres when the clock of authMicro shows "now".  The columns    *)
(* are TIMESTAMP without a zone, and both run in UTC; what is left is skew.   *)
DatabaseClock(now, skew) == (now - skew) .. (now + skew)

(* GenerateToken with the claims generateTokenPair gives a refresh token.   *)
RefreshToken(accountId, now, ttl) ==
  [sub |-> accountId, iat |-> now, exp |-> now + ttl]

(* The row CreateTokens saves for that token. *)
RefreshRow(accountId, now, ttl) ==
  [account_id |-> accountId,
   refresh_token |-> RefreshToken(accountId, now, ttl),
   expires_at |-> now + ttl]

RefreshRows(accountIds) ==
  [account_id : accountIds,
   refresh_token : [sub : accountIds, iat : Nat, exp : Nat],
   expires_at : Nat]

(* What TokenService.cleanupExpiredSessions leaves of a token table. *)
UnexpiredTokens(rows, now) == {r \in rows : ~Before(r.expires_at, now)}

=============================================================================
