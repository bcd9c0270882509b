# studBridge: a TLA+ verification project

studBridge signs users up and in without passwords. Two Go services take part.
**authMicro** has the REST API, sends codes to e-mail addresses, and issues
JWTs; **userMicro** owns the accounts and answers authMicro over gRPC. Each has
a PostgreSQL database. This directory holds the TLA+ modules of that system,
the TLC runs over them and the TLAPS proofs about them.

Paths below are relative to the repository; `login.go` and the other service
files are in `authMicro/internal/service`.

## Inventory

| Component | State | Operations | Talks to |
|---|---|---|---|
| Login (`login.go`, `outbound/repository/login_session.go`) | table `login_session`, one row per e-mail: account or nil, bcrypt hash or empty, expiry | `Login` (POST /login/sendCodeEmail), `ConfirmLogin` | userMicro `GetAccountByEmail`, twice |
| Use case `AuthenticateUser.Execute` | one database transaction | `ConfirmLogin`, then `CreateTokens` | both services below |
| Refresh tokens (`token.go`, `token_session.go`) | table `refresh_token_session`, one row per live token | `CreateTokens`, `RefreshTokens` (POST /refreshToken) | userMicro `GetAccessTokenPayload` |
| Registration (`registration.go`, `registration_session.go`) | table `registration_session`, one row per e-mail: hash or empty, expiry | `Register`, `ConfirmRegistration` | userMicro `ValidateAccountData`, `GetAccountByEmail`, `CreateAccount` |
| Credentials (`utlis/hash`, `utlis/tokenGenerator`, `utlis/generator`) | none | hash and verify a code, sign and parse a JWT | |
| Accounts (`userMicro/internal/service`, `.../repository`) | table `account` with a unique e-mail | create, find by e-mail, find by id, validate | called by authMicro |
| gRPC adapter and service | none | convert maps and errors both ways | |
| REST handlers, error handler, translation, validation | none | bind, call, translate errors and map them to status codes | |
| Connection pool, schema | at most 20 connections, row locks, the mark of a migration | take and give back a connection, open, migrate | PostgreSQL |
| Interceptors of both services | the internal API key | add it to a call, check it | |
| `main.go` of both services, configuration, logger | the goroutines of `main` and of the server, the open resources | read the environment, start, serve, drain, close, exit | |

### What is hard

* **Concurrency.** Every HTTP request is a goroutine. `Login`, `Register` and
  `RefreshTokens` send several statements with no transaction around them, so
  any other request runs between a `Find` and the `Save` or `Delete` that
  relies on it. `Execute` has a transaction, but at READ COMMITTED: it protects
  its writes and not what it read.
* **Row locks.** A row deleted in an open transaction stays locked across calls
  to userMicro; upserts, clean-ups and other deletes wait for it.
* **Partial failure.** Any statement or call may fail; errors of clean-ups and
  of two deletes are dropped; a commit or a `CreateAccount` may succeed without
  the caller learning of it; a client that goes away cancels the context.
* **Waiting.** A confirmation keeps one of the connections, and locked rows, across
  two calls without a deadline; clean-ups lock many rows in no order. PostgreSQL sees
  a cycle of row locks and nothing of the pool.
* **Time.** Expiry is compared in two places (Go and SQL) by two clocks, clean-ups
  inside a transaction use the clock of its beginning, and JWTs know whole seconds
  only.
* **Errors across services.** An error is translated by the service it is born in,
  loses its name and parameters on the wire, becomes a domain error again, and is
  translated and given a status by the other service.
* **Start and shutdown.** A migration may be cut off and leaves its mark. The goroutine
  that serves, `main` and the requests in progress race to the end of the process, in
  two processes that call each other.

### What makes it correct

* Login: a stored code belongs to one request, account and e-mail; a code buys
  tokens for its owner only; a spent code is refused; a code whose account lost
  the e-mail buys nothing; a code somebody may hold is neither lost nor
  replaced without cause; every request ends.
* Registration: nobody gets an account without the code of its e-mail; success
  means the confirmation created the account; a code survives confirmations that
  fail; every request ends.
* Tokens: a token that was handed out can be refreshed until it expires or is
  presented; a client that presents each token once and in time is not turned
  away; an old token ends with the refresh.
* Answers: the status says whose fault an error was, the body's, the content type's, the
  token's or the services'; the client is told every field
  that broke a rule, once translated, in its language.
* Lifecycle: nothing is served on a schema that is not complete; what was accepted is
  finished, as long as the time limit allows, before anything it needs is closed; a
  process that is told to stop exits, and one that failed comes up again.
* The pool: whatever requests wait for, a connection, a row or both, comes.
* The whole: what each part relies on is what the others do.

The hazards of the code, each with its line and the properties that address it,
are listed under `hazards` in `PROJECT.json`.

## Modules

| Module | Models | EXTENDS |
|---|---|---|
| `Credentials` | codes and their hashes, JWTs, rows of the token table | `Integers` |
| `Login` | `Login`, `Execute` (`ConfirmLogin` + `CreateTokens`), `login_session`, `refresh_token_session`, the accounts they ask for | `Credentials` |
| `LoginProofs` | theorems about `Login`, and that it implements `OneTimeCodes` | `LoginCodes`, `TLAPS` |
| `Registration` | `Register`, `ConfirmRegistration`, `registration_session`, `CreateAccount` of userMicro | `Credentials` |
| `Tokens` | `RefreshTokens`, `CreateTokens`, `refresh_token_session` | `Credentials` |
| `TokensProofs` | theorems about `Tokens` | `Tokens`, `TLAPS` |
| `OneTimeCodes` | what both flows with a code promise: abstract | |
| `OneTimeCodesProofs` | a theorem about it | `OneTimeCodes`, `TLAPS` |
| `LoginCodes`, `RegistrationCodes` | the refinement mappings of `Login` and `Registration` to `OneTimeCodes` | `Login`; `Registration` |
| `RegistrationProofs` | theorems about `Registration`, and that it implements `OneTimeCodes` | `RegistrationCodes`, `TLAPS` |
| `AuthSystem` | registration, login and refresh together (`INSTANCE` of the three) | `Credentials` |
| `AuthSystemProofs` | theorems about the whole, and how its parts fit | `AuthSystem`, `TLAPS` |
| `ConnPool` | connections and row locks, for which requests of every kind wait | `Integers`, `Sequences`, `FiniteSets`, `SequencesExt` |
| `ConnPoolProofs` | a theorem about `ConnPool` | `ConnPool`, `FiniteSetTheorems`, `TLAPS` |
| `Answers` | a failing request from its body to the HTTP answer | `Integers`, `Sequences` |
| `AnswersProofs` | theorems about `Answers` | `Answers`, `TLAPS` |
| `Lifecycle` | both processes from their environment to their exit, and their restarts | `Naturals`, `FiniteSets` |
| `LifecycleProofs` | theorems about `Lifecycle` | `Lifecycle`, `TLAPS` |
| `MCLogin`, `MCRegistration`, `MCTokens` | symmetry sets for TLC | `LoginCodes`; `RegistrationCodes`; `Tokens`; and `TLC` |

### Conventions

A request is a process: a record with a program counter `pc`, the locals a later
step reads, and the `answer`. One action is one statement sent to PostgreSQL or
one call of userMicro together with the Go code up to the next one; nothing
else can be seen by another request. `...Fails` actions stand for a failed
statement or call, a crash of the process, and a client that left: in each the
request ends, and an open transaction is rolled back. Where a statement may take
effect although the caller gets an error, the action that carries it out has
both answers.

A code is named by the request that generated it, so a code is a model value and
`HashCode` a tagged record: bcrypt is salted and one-way, and all a stored hash
tells is which code it verifies. Two requests that draw equal codes are left
out. A JWT is its claims (`sub`, `iat`, `exp` in seconds): equal claims are
equal strings, since there is no `jti`. One unit of the clock is a second.

`now` is the clock of authMicro. `NOW()` of its database is any instant of
`DatabaseClock(now, Skew)`, up to `Skew` before or after, chosen anew by each
statement; a transaction keeps the instant of its beginning. Both run in UTC, so zones
are left out.

### Login

`login[p]` is a POST /login/sendCodeEmail. `LoginStart` is the clean-up (which
may fail and be logged), `LoginAccount` the call of `GetAccountByEmail`,
`LoginFind` the `SELECT` and the decision of `createOrUpdateSession`,
`LoginSave` the upsert. `confirm[q]` is a POST /login/confirmEmail:
`ConfirmFind` or `ConfirmRefused` is `BEGIN` with the `SELECT` and the refusals,
`ConfirmVerify` is `verifyAccountStillValid` (its error is dropped and leaves
FALSE), `ConfirmDelete` is the `DELETE`, or `ConfirmSwitched` when the account
was switched (the error rolls that `DELETE` back), `ConfirmIssue` the call of
`GetAccessTokenPayload` and the signing, `ConfirmCommit` the `COMMIT`, which
publishes the `DELETE`, the clean-up and the `INSERT` at once. `Locked(e)` says
that an open transaction deleted the row of `e`; every statement that writes
the row waits for it, as PostgreSQL makes it. `holds` records whether the
`DELETE` found a row, which the code does not look at.

userMicro appears as `account_of` and `account_state`. `CreateAccount` adds an
account under a free e-mail. `LeaveEmail` takes an e-mail from its account; no
operation of userMicro does this yet, but `login.go:61-72` and `99-101` exist
for it, so it is in the environment (marked external in the map).

`Next` has logins and confirmations only. `SharedNext` adds `TokensRefreshed`, what
refreshes do to the same `refresh_token_session` meanwhile: anything to its rows, and
nothing to the rest. The runs check `Spec`; what is proved of `SharedSpec` is true of
the whole system as well (`LoginsAreUndisturbed` of `AuthSystemProofs`).

Two fields of `confirm` are not in the code: `stale` (the session that was read belonged to
an account that had lost the e-mail) and `paid` (the transaction committed). No
guard reads them.

### Registration

`register[p]` follows `login[p]`, with the opposite rule: a code is generated
only for an e-mail without an account, and a live row with a code is never
touched. `confirm[q]` validates the code (`ConfirmFind`, `ConfirmRefused`),
sends `CreateAccount` (`ConfirmCall`), gets its answer (`ConfirmCreated`,
`ConfirmNotCreated`) and deletes the row. The call has a life of its own in
`call`: userMicro may carry it out after its caller gave up (`ConfirmFails`), may
refuse it (the unique index on `account(email)`), or it may be lost.

### Tokens

`refresh[r]` is a POST /refreshToken: parse, find, (expired: delete and refuse),
clean up, ask for claims and sign, insert, delete the old row. There is no
transaction, and the errors of the clean-up and the last delete are dropped.
Logins appear as the two steps other requests can see, the signing and the
commit. Clients present tokens from `handed`, any number of times; a string that
is no token of ours changes no state and is left out. The table is a set of
rows: `refresh_token` is not unique in the schema, but every query treats equal
rows alike.

### OneTimeCodes

An e-mail offers at most one code; a code is put on offer once, may be withdrawn at
any time, and gives whoever presents it a *claim*; a claim is turned into one
purchase or dropped. With `OneBuyer` a purchase voids all other claims on its
e-mail. `LoginCodes` maps a row with a hash to the offer, a transaction past its
`SELECT` to a claim and a commit to a purchase; `OneBuyer` is FALSE, because claims
made before a purchase stand (see `login_one_time`). `RegistrationCodes` maps a
confirmation past its `SELECT`, or its call while that is under way, to a claim and
userMicro's `INSERT` to the purchase; `OneBuyer` is TRUE. `CodesAreOffered` is
`OneTimeCodes!Spec` under the mapping, a `PROPERTY` of the two core runs.

### AuthSystem

The three components over one clock, one `account_of` and one
`refresh_token_session`, each by `INSTANCE`. What one component leaves free is what
another does: the accounts of `Login` are those that confirmations of
`Registration` created (each is named by its confirmation), the logins of `Tokens`
are the confirmations of `Login`, and the tokens clients present are those they
were answered. An action is a request of one component with the rest unchanged
(`Registration`, `Login`, `Refresh`) or `Tick`. `LoginsSeeAccounts` and
`RefreshesSeeLogins` check what the modules assume when they are run alone: every change
of `account_of` is a `CreateAccount` of `Login`, and the behaviour is one of `Tokens`.
Registration assumes nothing of the others, which write none of its tables. userMicro
removes no account, so `LeaveEmail` does not occur here. `EveryRequestAnswered` is the
liveness of all three: `Quiet` of each says that nobody waits for an answer, and as a
request arrives once, all of them are answered when that is so again and again.

### ConnPool

A request is its program, the sequence of statements and calls of its handler, for
each of the five handlers and for the refresh of an expired token; what the
statements read and write is left out. `conns` is the set of connections in use, each
with the request that took it and the statement it was taken for, and `InUse` counts
those of a pool. A statement outside of a transaction takes a connection (`Start`), locks
rows one by one (`LockRow`), and gives both back (`StatementEnds`). `Begin` takes a
connection that the statements of the transaction share and that only its end gives
back, with the locks. A call of userMicro is a statement of its own pool. A clean-up locks any set
of rows in any order, any other write one row or none. `StatementFails` ends the
request, or aborts the transaction when the code drops the error: an aborted transaction
has no locks but keeps its connection until it ends. `Refused` is every early return.
`Available` is one less than the limit: the driver `InitSchema` makes for the
migration takes a connection (`WithInstance`) and is never closed.

### Answers

One failing request at a time. `UserFails` is an error born in `AccountService` of
userMicro, `CallFails` a failed call, `ServiceFails` an error of a service of
authMicro, `BindFails` an error of `c.Bind`: a body that cannot be parsed (400) or a content
type echo does not know (415). `UserReplies` is what happens
to the first kind on its way: the handlers of `CreateAccount` and
`ValidateAccountData` translate it (`TranslateError`, in the language of the call's
metadata), `mapToGrpcError` keeps the kind and the fields, and
`GrpcErrorMapToError` makes a domain error of it again. The other two handlers do
not translate; they return internal errors only. The HTTP side is
`RefreshAnswers` (that handler answers some errors itself), `DomainErrorAnswered`
and `OtherErrorAnswered`.

A text is the message id it was made from, its language and the parameters it was
filled with. A translated text is no message id any more, so the second
translation leaves it alone, as `knownIDs` makes it. The body of the request says of
each field what its rules tell apart: absent, of another type, empty, too short, too
long, no address, or fit; `ConvertToGrpcMap`, `valueToString` and the assertions of the
handlers make a string of it (`valueToString`), and the first rule it breaks, in the
order of the tags, is its error (`FirstBroken`, `Validated`). Languages are
matched exactly; a language without a file is English. An error of echo keeps the status
it comes with (`EchoStatus`), but for /refreshToken, whose handler makes a 400 of it.

### Lifecycle

`main[s]` and `server[s]` are the two goroutines of service `s`, `env[s]` is its
environment. A start is `Configure` (a variable that is missing or no number ends the
process), `Connect` (with the `Ping`), `Migrate`, which marks the database as dirty and
refuses one that is, `Migrated`, and `Notify`, from which on a signal is heard.
`StartFails` is a database that cannot be reached, a failed statement or a kill;
`Restart` is `restart: unless-stopped` of `docker-compose.yml`. `SignalIsUnheard` is a
signal before `Notify`, which ends the process at once.

`Listen` opens the listener or fails; `Signal` is SIGTERM, after which `shutdown` closes
the listener and waits: for authMicro until no request is in progress (`AuthIdle`) or
the five seconds are over (`TimeIsOver`), for userMicro until no call is
(`UserIdle`, without a limit). Then the connection to userMicro and the databases
are closed, and `main` returns. `ServeReturns` is the other goroutine: `Serve` of
net/http returns `ErrServerClosed`, for which `start` calls `Fatalf`; that of grpc
returns nil. A request makes at most one call, which userMicro refuses when its key is
another one (`HasKey`), and one statement.

## Runs

All bounds are constants of the `.cfg` files. Requests run once each, so their
number bounds the history; `MaxTime` stops the clock.

| Run | Instance | Distinct states | Shows |
|---|---|---|---|
| `login_core` | 1 e-mail, 2 accounts, 2 logins, 2 confirmations, TTLs 1 and 2, skew 1, clock to 2 | 1.1 M | the safety of login under races, failures and account switches; it implements `OneTimeCodes` |
| `login_one_time` | smaller | violation | one code buys two pairs |
| `registration_core` | 2 e-mails, 3 registrations, 2 confirmations, TTL 1, skew 1, clock to 2 | 550 k | the safety of registration with lost and late calls; it implements `OneTimeCodes` with one buyer |
| `registration_retry` | smaller | violation | a retry is answered as a success and nobody has the code |
| `tokens_core` | 2 accounts, 2 logins, 3 refreshes, TTL 1, skew 1, clock to 3 | 770 k | handed tokens stay usable until presented or expired |
| `tokens_same_second` | smaller | violation | a refreshed pair is dead on arrival |
| `answers` | 3 languages, headers of up to 2, every body | 70 k | status, fields and language of every answer |
| `answers_names` | smaller | violation | English names of validation errors are ids |
| `lifecycle` | 2 requests, 1 fault in the start of each service | 157 k | migration, serving, draining, closing, exit and restart |
| `lifecycle_cut_off` | 2 requests | violation | a shutdown cuts requests off at once |
| `system` | 1 e-mail, 1 registration, 2 confirmations of it, 1 login, 2 confirmations of it, 1 refresh, TTLs 1, clock to 1 | 700 k | the parts fit together; every request of every kind is answered |
| `pool` | 3 requests of any of 6 kinds, 3 connections, 4 rows | 335 k | no wait for connections and rows is for ever |

Why these bounds are enough to meet the interesting cases: two requests of a
kind are needed for each race, and one of them can be the one that fails. With a
TTL of 1 and a clock to 2 or 3 a row is live, expires in the second *after* its
expiry (the strict `<` of the code) and is renewed; a skew of 1 puts
the database on either side of that instant. Two accounts
on one e-mail give a switch between any two steps of a request. `login_core` has one
e-mail, for the size of its graph; that e-mails do not mix follows from `LoginProofs`,
which has any number of them. `registration_core` has two. Three
refreshes are the fewest in which two present the same token and a third
presents the token of a pair. `system` has the races of its parts in the other runs and
needs one path from an e-mail without an account to a refreshed pair, with two
confirmations that compete for the account and two that compete for the pair, so that one
waits for the row that the other has deleted and not committed; that a code of another login or another
e-mail buys nothing follows from `AuthSystemProofs`, which has any number of each. `pool` has two connections for three
requests, so that both can be held while a third one waits, and two rows of
tokens, which two clean-ups can lock in opposite orders. `answers` follows one request,
since nothing is shared; two
languages in the header are the fewest of which one is preferred, and the third
language is one without a file. `lifecycle` needs one request that is in a call and
one that is not; one fault is enough to leave a migration unfinished and start again.

The symmetry used in the safety runs permutes requests, e-mails and accounts
within their own sets; no definition tells their members apart, and the runs with a
liveness property do without it. `CHECK_DEADLOCK` is on everywhere: `Terminating` is the only
step of a finished instance, and it is enabled only when nothing is under way.

### Fairness

`FairSpec` of `AuthSystem` assumes that one of the requests that can go on does
(`Going`): the Go scheduler runs a goroutine, PostgreSQL answers and grants a free
lock, userMicro answers or the connection reports a failure. Nothing is assumed of
arrivals, failures or the clock. Fairness to all requests together suffices because there
are finitely many, each with finitely many steps. userMicro taking up a call
(`R!UserStep`) is one of these steps; the code sets no deadline, so a call that is
neither answered nor lost would wait for ever, and with it its connection.

`FairSpec` of `ConnPool` assumes that a statement that can start, lock its next row or
end does so (`database/sql` serves who waits, in order), and that PostgreSQL aborts one
of a cycle of waits for rows. That a connection or a row becomes free is not
assumed; it is what the run shows. A call of userMicro ends, as above.

`FairSpec` of `Lifecycle` assumes that the goroutine that serves and `main` run, that
the five seconds pass, that a statement of userMicro ends, and that Docker restarts
what it was told to; nothing of the requests to authMicro, nor that a signal comes.

### Disagreements between documents and code

* `login_one_time`: `docs/ТЗ_Auth.md:14` promises one-time codes. The row is read
  without a lock (`login.go:199`) and nobody looks at the number of rows the
  `DELETE` removed (`login.go:222`), so two confirmations that both read before
  either commits are both paid.
* `registration_retry`: `README.md:99` says that a POST /registration sends the code.
  When the answer of the upsert is lost, the row is there and its code was not handed
  over (`registration.go:174-181`); the repeated request finds the row live
  (`registration.go:170`) and is answered as a success.
* `tokens_same_second`: `rest/handler/refresh_tokens.go:29` promises a new pair. In the
  second in which the old token was signed the new one is the same string, and its fresh row is
  deleted as the old one.
* `answers_names`: the text of `validationError` in `authMicro/locales/en.toml:17` is
  under the key `validationError` and not `other`, so go-i18n registers another id
  and the English name stays the id.
* `lifecycle_cut_off`: `Start` returns `ErrServerClosed` when the shutdown begins, and
  `authMicro/cmd/app/main.go:257` takes every error for a failed start: the process
  exits with code 1 without the five seconds its requests are given. userMicro has
  the same lines, but `Serve` of grpc returns nil.

Seen and not made into runs: `docs/ТЗ_Auth.md:192` wants an unknown e-mail always
answered with a wrong code, but the expiry of its session is tested first
(`login.go:207`); the fields of an account have no names for JSON, so their errors
name `FirstName` and `Email` where `docs/ТЗ_Auth.md:106` has `firstName`; the
expirations of JWTs are read as minutes by authMicro (`internal/config/config.go:56-57`)
and as milliseconds by userMicro, which signs none, where `.env:6` has seconds; the connection of the migration is
never given back (`database/postgres.go:45`); a live session with a code is returned as it is
(`registration.go:170`), where the description of the handler
(`rest/handler/registration.go:35`) and `docs/ТЗ_Auth.md:47,57` say it is extended, while the
test `TestSendRegistrationCode_E2E_ExistingSession` has the code stay; an
unknown registration session is answered as a wrong code with a 400
(`registration.go:128`), where `docs/ТЗ_Auth.md:125` wants always a 200; the descriptions of the handlers
(`rest/handler/login_handler.go:41-42`, `rest/handler/registration.go:43-44`) have no 415, which an unknown
content type is answered with; an error of the `DELETE` of
an old token is logged only (`token.go:128`), where `rest/handler/refresh_tokens.go:29`
says it is invalidated; `Login` returns a raw error when the e-mail has no account
(`login.go:161`), and `Execute` for `BEGIN` and `COMMIT`, so the body of the 500 is
not the `BaseError` of `rest/handler/login_handler.go:42`; `RefreshTokenExpires` is filled with the expiry of
the *access* token (`token.go:95`); the `DELETE` of an account switch never takes
effect, since the error that follows rolls it back (`login.go:222-230`); the
`IsExpired` and `IsCodeValid` methods of the entities and
`validateConfirmLoginData` are not called.

## Proofs

The theorems hold for every set of e-mails, accounts, requests and languages, all TTLs
and any skew; the runs check the same formulas on small instances. Every inductive
invariant below was checked by TLC on the instance of its run before it was proved.

| Module | Theorem | Property |
|---|---|---|
| `LoginProofs` | `TypeCorrect` | `TypeOK` |
| | `SessionsMatchLogins` | `SessionMatchesLogin` |
| | `SpentCodesStayGone` | `SpentCodesAreGone` |
| | `OwnersArePaid` | `CodesPayTheirOwner` |
| | `StaleCodesAreRefused` | `StaleCodesBuyNothing` |
| | `PaidTokensAreBacked` | `TokensAreBacked` |
| | `LiveCodesAreKept` | `LiveCodesVanishWhenSpent` |
| | `LiveCodesAreNotReissued` | `OnlyRacesReplaceLiveCodes` |
| | `AccountsGetACode` | `SuccessLeavesACode` |
| | `LoginImplementsOneTimeCodes` | `CodesAreOffered` |
| `RegistrationProofs` | `TypeCorrect` | `TypeOK` |
| | `SessionsMatchRegisters` | `SessionMatchesRegister` |
| | `EveryAccountIsConfirmed` | `AccountsAreConfirmed` |
| | `SuccessIsEarned` | `SuccessMeansOwnAccount` |
| | `LiveCodesAreKept` | `LiveCodesVanishWhenUsed` |
| | `LiveCodesAreNotReissued` | `OnlyRacesReplaceLiveCodes` |
| | `RegistrationImplementsOneTimeCodes` | `CodesAreOffered` |
| `TokensProofs` | `TypeCorrect` | `TypeOK` |
| | `HandedTokensStayLive` | `HandedTokensAreLive` |
| | `OnlyUsedTokensAreRefused` | `UnauthorizedMeansUsed` |
| `AuthSystemProofs` | `TokensAreEarned` | `TokensNeedBothCodes` |
| | `AccountsAppearOnce` | `LoginsSeeAccounts` |
| | `LoginsFeedTokens` | `RefreshesSeeLogins` |
| | `LoginsAreUndisturbed` | (the whole implements `SharedSpec` of `Login`) |
| `ConnPoolProofs` | `ConnectionsAreNotWaitedForAlone` | `NobodyWaitsInVain` |
| `AnswersProofs` | `TheStatusIsJust` | `StatusTellsTheFault` |
| | `NothingIsLostOnTheWay` | `FieldsReachTheClient` |
| | `ExactlyTheBadFields` | `BadFieldsAreNamed` |
| | `OneLanguagePerAnswer` | `FieldsSpeakTheLanguage` |
| `LifecycleProofs` | `NoServiceOnAPartialSchema` | `ServedOnCompleteSchema` |
| | `UserMicroServesToTheEnd` | `UserMicroFinishesItsCalls` |
| | `RequestsFindTheirResources` | `ResourcesOutliveRequests` |
| `OneTimeCodesProofs` | `CodesAreSpentOnce` | (of every implementation of `OneTimeCodes`) |

**Assumptions.** `TimesAreNatural`: TTLs, the skew and the bound of the clock are natural
numbers. `SentinelsAreDistinct`: the absent account, e-mail, code, row and token differ
from the present ones. `NoCodeIsDrawn`: the empty code is not one a request generates.
`EnglishAndRussian`: there are locale files for the two, and `HeadersAreFinite`.
`RequestsHaveAConnection`: the limit of open connections is more than the one that the
migration keeps (it is 20); `LoadIsANumber` and `TablesAreFinite`, of the requests and rows
of `ConnPool`. All other sets may be infinite.

### Login

`SpentCodesAreGone` is not inductive. A Login could be
about to save the spent code again, and a transaction that deleted nothing could
commit while a row with its code is there. `IInv` excludes both. It consists of

1. `TInv`: types, and that a request on its way has its inputs;
2. `SessionMatchesLogin`: a row is of one answered Login;
3. `VerifiedCodesWereSaved`: the Login of a code somebody verified has been
   answered, and it saves nothing any more;
4. `HeldOrGone`: a transaction past its `DELETE` holds the lock of its row, or
   there is no row with its code;
5. `SpentCodesAreGone`.

2 makes 3 inductive, since a code is verified against a row; 3 makes 4 inductive,
since rows come from saves (`RowsComeFromSaves`) and a save carries a code nobody
has verified (`SavedCodesAreNew`); 4 gives the case of a commit in 5. The proof of
each step goes over what an action does to a confirmation (`ConfirmMoves`) and to
a row (`RowsComeFromSaves`), not over all actions each time.

`StaleCodesAreRefused` needs two more invariants: every id in a session or request
is of an account that was created (`AccountsWereBorn`), and so, as ids are not
reused, an account that has left an e-mail does not return and a stale
confirmation does not pass the check (`StaleStopsAtVerify`).
`AccountsGetACode` rests on 2: a live row of the account is not one without a code.
`LiveCodesAreNotReissued` needs that a Login about to save still has a reason to
(`SavesAreCalledFor`), because time does not run backwards. `PaidTokensAreBacked` needs
that a transaction began no later than now (`BeganInThePast`): its clean-up looks at
the database's clock of that instant.

Whoever else writes the table of tokens does not matter to any of this but
`PaidTokensAreBacked`, which is of `Spec`: a refresh retires the row of a pair that is
presented. All other theorems are of `SharedSpec`, with no more than the type of the table
known of what a refresh does, and of `Spec` by `AloneIsShared`.

`LoginImplementsOneTimeCodes` goes over the steps of the code. The one that matters is
the commit of a transaction that deleted nothing: `OneTimeCodes` lets it leave what is on
offer only when that is another code, and this is `HeldOrGone`.

### Registration

An account appears when userMicro carries a call out, which may be long after its caller
read the row, or gave up. `IInv` has three facts beside the types and
`SessionMatchesRegister`: a code somebody confirmed was saved by a request for the same
e-mail that is answered (`ConfirmedCodesWereSaved`); a caller is never behind its call
(`CallsFollowRequests`); an e-mail has the account of the call that succeeded and no
other (`AccountsAreCreated`), which is the unique index of userMicro.

### Tokens

A refresh saves the row of its new token some steps before it hands the token out, so
`HandedTokensAreLive` needs the same of saved tokens (`SavedTokensAreLive`);
`UnauthorizedMeansUsed` needs that the token of a request about to look for its row is
live *to the others* (`SoughtTokensAreLive`). Both rest on two facts about clean-ups: rows
expire with their tokens (`RowsSpeakTrue`), and the clean-up of a login is not ahead of
the clock (`IssuedInThePast`).

### The whole

`TokensAreEarned` follows a token back: to the confirmation of a login that was paid with
the first of its line (`TokensArePaid`), to the Login whose code that one presented
(`CodesWereSent`), to the account it found (`AccountsWereFound`), to the confirmation of
a registration that created it (`AccountsWereEnrolled`), to the registration whose code
that one presented (`EnrolmentsHaveCodes`). Two facts carry the argument from step to
step: an account stays with its e-mail, since only the `INSERT` of userMicro writes the
table, under a free e-mail (`AccountsStay`), and stored codes are of requests that have
been answered and change no more.

`AccountsAppearOnce` and `LoginsFeedTokens` discharge what `Login` and `Tokens` assume
when they are taken alone; the second needs that a transaction signs after it has begun
(`SignedInTime`) and that the token of an answer is with the client already
(`AnswersAreHanded`).

By `LoginsFeedTokens` and `LoginsAreUndisturbed`, what is proved of `Tokens` and of
`Login` beside refreshes is true of the whole; of `Registration` this needs no argument,
since its variables are written by its own requests only.
For the second, a confirmation must not send its call twice (`CallsAreNew`), or to
`Login` the account it created would disappear again; and what a refresh writes is a row
of an account that exists (`TokensAreTyped`, by `TokensArePaid`).
The one theorem of `Login` alone, that the row of a paid pair stays, has
`HandedTokensStayLive` of `Tokens` in its place, which says until when.

### Answers

What an answer says has to be kept true of the error on its whole way: its fault and its
fields are those it was born with (`ErrorsSpeakTrue`), each message is either the bare id
it was born as or a text in the client's language (`MessagesAreRawOrSaid`), and an error of
userMicro is untranslated when the handler of its call sees it (`UserErrorsAreRaw`), with
no fields in the two calls that do not translate.

### Lifecycle

Each invariant is about an event and needs what the order of start and stop keeps true
until then: a goroutine that serves was started behind the migration
(`ServersFollowSchema`); a resource is open until its process has drained
(`OpenUntilDrained`); userMicro has not drained while it has a call
(`CallsAreServed`), and authMicro not while it has a request, unless its time was over
(`RequestsAreServed`).

### ConnPool

A state in which nobody can go on is one where every request has ended, or waits for a
connection or for a row. The invariant says who holds what: a running statement is one
that was started (`StatementsRun`); only confirmations have a transaction, between `BEGIN`
and `COMMIT` (`TransactionsAreExecutes`); only a running statement of authMicro's database
wants rows (`OnlyStatementsLock`), and a locked row is of such a statement or of an open
transaction (`OwnersAreActive`); a connection in use is that of a running statement or of
a transaction (`ConnectionsAreUsed`). The argument is then one about a single state:

1. A call of userMicro locks nothing, so one that is running ends (`CallsAreServed`). If
   nobody can go on, no connection of that pool is in use, and nobody waits for one.
2. If somebody waits for a connection of authMicro's pool, that pool is exhausted, and
   as it has one connection at least, somebody holds one (`SomebodyHoldsOne`). A request
   that holds one waits for a row: it is running a statement, or in its transaction, where
   it needs no second connection (`HoldersWaitForRows`).
3. The owner of a row is such a request too, so it waits for a row itself: the requests
   that wait for rows are closed under "waits for the owner of".
4. A set that is finite, not empty and closed under a function has a subset on which the
   function is onto (`CycleInFiniteSet`): a minimal closed subset, which exists since the
   subsets of a finite set are well-founded. That is the cycle of `OnCycle`.

### OneTimeCodes

`CodesAreSpentOnce` holds of every instance of `OneTimeCodes`
whose `NoCode` is no code: a code that has bought is never on offer again when an
e-mail has any number of buyers, and no e-mail has two purchases when it has one. The
invariant adds that what is on offer or claimed was drawn, that a code belongs to one
e-mail, and that a taken e-mail has no claims.

### Model-checked only

Liveness, which is out of the prover's reach: `EveryRequestAnswered` of `AuthSystem` and
of `ConnPool`, `SignalledProcessesExit` and `ServicesComeUp`. Every other property of a
passing run is stated by a theorem. That PostgreSQL breaks a cycle, and that nobody waits
for ever, is liveness and stays with the run `pool`; the theorem says that a cycle is the
only thing there is to break.

## Not modelled, and why

* Bodies of successful answers, with the expiries they carry (`token.go:95`); nested
  values in a body, which are of another type for the rules; wording of messages.
* Accounts that are changed or removed in `AuthSystem`: userMicro has no such
  operation. `Login` alone allows for them.
* Idle connections and their lifetime: a connection that is closed is opened anew and
  counts as before. Locks inside the database of userMicro: it has single statements
  only, of which the unique index orders the two that meet.
* The values of the environment: `Lifecycle` tells only whether they are there, can
  be read, and whether the keys agree.
* A SIGKILL, or a crash, of a process that has started: `Lifecycle` kills one while it
  starts, and later ends it by signals and `Fatalf` only. What such an end leaves in the
  tables is in the other modules, where every request may stop between any two steps.
  That a process that has started gets its address, too (`Listen` may fail for ever).
* How a code reaches its owner: for now a debug log line, which `Registration` has as
  `sent`. The access token, which is stateless; the logger; generated code and
  deployment files, which have no behaviour of their own; the tests, read as
  documentation.

## Plan

Done, in this order: `Credentials`, `Login` and `LoginProofs`; `Registration`;
`Tokens`; `Answers` and `Lifecycle`; the clock of the database; `OneTimeCodes`, its
proofs and the two refinements; `AuthSystem`; `ConnPool`; the proofs of `Tokens`,
`Registration`, the refinements, `Lifecycle`, `Answers` and `AuthSystem`; `Login` beside
refreshes, and the whole as an implementation of it; the proof of `ConnPool`. Left, should
the code grow into it:

1. Accounts that change or go, in `AuthSystem`, once userMicro has such an operation:
   `AccountsAppearOnce` and `LoginsAreUndisturbed` are where it would show.
2. The abandoned row of `registration_retry` for `Login`, whose lines are the same
   (`login.go:103-121`) and whose code `README.md:101` promises too.
