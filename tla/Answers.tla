------------------------------ MODULE Answers -------------------------------
(***************************************************************************)
(* What becomes of an error.  It is born in userMicro or in authMicro, and  *)
(* may be translated by userMicro, sent over gRPC, turned into a domain     *)
(* error again by the adapter of authMicro, passed on by a service and a    *)
(* handler, and translated and given a status by the HTTP error handler.    *)
(*                                                                         *)
(* The model follows one failing request.  Its body says of each field that *)
(* matters only whether it is there, is a string, and which rules it keeps. *)
(* A text is the message id it was made from, the language it is in ("id"   *)
(* while it is the bare id) and the parameters that were put into it;       *)
(* wording is left out.                                                     *)
(***************************************************************************)
EXTENDS Integers, Sequences

CONSTANTS
  Languages,   \* languages a client may ask for
  HeaderBound  \* bound: how many languages Accept-Language may list

ASSUME EnglishAndRussian == {"en", "ru"} \subseteq Languages

ASSUME HeadersAreFinite == HeaderBound \in Nat

(* Accept-Language without its weights, which the code cuts off. *)
Headers == UNION {[1 .. n -> Languages] : n \in 0 .. HeaderBound}

Endpoints == {"register", "confirmRegistration", "login", "confirmLogin", "refresh"}

VARIABLES
  endpoint,  \* the operation that was requested
  header,    \* its Accept-Language
  body,      \* its body
  at,        \* where the error is
  rpc,       \* the call of userMicro it comes from
  err,       \* the error
  born,      \* the error as it was born, and whose fault it is (for properties)
  answer     \* the HTTP answer

vars == <<endpoint, header, body, at, rpc, err, born, answer>>

-----------------------------------------------------------------------------
(* Texts and translation *)

Raw(id) == [id |-> id, lang |-> "id", params |-> {}]

EmptyName == Raw("")

Tags == {"required", "email", "min", "max"}

(* extractValidationParams *)
Params(tag) == IF tag \in {"min", "max"} THEN {"value"} ELSE {}

(* The messages of locales/<lang>.toml that have a text, as far as the       *)
(* errors of the services use them.                                          *)
UserMessages == Tags \cup {"internalError", "validationError"}

(* In the English file of authMicro the text of validationError is under a   *)
(* key of its own and not under "other": it is a message of another id.      *)
AuthMessages(lang) ==
  Tags \cup {"internalError", "invalidCode", "codeExpired"}
    \cup (IF lang = "en" THEN {} ELSE {"validationError"})

Messages(service, lang) ==
  IF service = "user" THEN UserMessages ELSE AuthMessages(lang)

(* The bundle matches a language without a file to English. *)
Matched(lang) == IF lang = "ru" THEN "ru" ELSE "en"

(* Translator.TranslateError's callback: an id no file knows, a text that is *)
(* a translation already, and an id the language lacks are returned as they  *)
(* came.                                                                     *)
Translated(text, params, lang, service) ==
  IF text.lang = "id" /\ text.id \in Messages(service, Matched(lang))
  THEN [id |-> text.id, lang |-> Matched(lang), params |-> params]
  ELSE text

-----------------------------------------------------------------------------
(* Errors.  A validation error has a set of field errors; every other error  *)
(* has none.  "plain" is any Go error outside the domain, "http" one of echo, *)
(* whose code says the status it comes with, "refused" one of the three      *)
(* sentinels of TokenService.                                                *)

FieldError(field, id, params) ==
  [field |-> field, message |-> Raw(id), params |-> params]

Error(kind, code, fields) ==
  [kind |-> kind, code |-> code, name |-> EmptyName, fields |-> fields]

InternalError == Error("base", "internalError", {})

PlainError == Error("plain", "", {})

(* What c.Bind of echo returns: a body that it cannot parse, or a content    *)
(* type it does not know (ErrUnsupportedMediaType).                          *)
BindErrors ==
  {Error("http", code, {}) : code \in {"badRequest", "unsupportedMediaType"}}

RefusedToken == Error("refused", "", {})

NoError == Error("none", "", {})

ValidationError(fields) == Error("validation", "validationError", fields)

(* NewInvalidCodeError and NewCodeExpiredError *)
CodeError(id) == Error("validation", id, {FieldError("code", id, {})})

(* BaseError.Translate and BaseValidationError.Translate *)
TranslateError(e, lang, service) ==
  [e EXCEPT !.name = Translated(Raw(e.code), {}, lang, service),
            !.fields = {[f EXCEPT !.message =
                           Translated(f.message, f.params, lang, service)] :
                          f \in e.fields}]

IsDomain(e) == e.kind \in {"base", "validation"}

-----------------------------------------------------------------------------
(* Bodies and their rules *)

(* What a field may hold: "fit" keeps every rule there is for it. *)
Names == {"absent", "notString", "empty", "short", "long", "fit"}

Addresses == Names \cup {"noAddress"}

Codes == {"absent", "notString", "empty", "fit"}

AccountData == [firstName : Names, lastName : Names, email : Addresses]

Bodies(op) ==
  CASE op \in {"register", "confirmRegistration"} -> AccountData
    [] op = "login" -> [email : Addresses]
    [] op = "confirmLogin" -> [email : Addresses, code : Codes]
    [] op = "refresh" -> {<<>>}

anyToString(value) ==  \* mutant: what is no string is formatted as one
  CASE value = "absent" -> "empty" [] value = "notString" -> "fit" [] OTHER -> value

(* ConvertToGrpcMap keeps the type of a JSON value, and valueToString of      *)
(* userMicro, like the assertions in the handlers of a login, makes "" of     *)
(* what is no string.                                                        *)
valueToString(value) == IF value \in {"absent", "notString"} THEN "empty" ELSE value

Breaks(tag, text) ==
  CASE tag = "required" -> text = "empty"
    [] tag = "email" -> text = "noAddress"
    [] tag = "min" -> text = "short"
    [] tag = "max" -> text = "long"

(* Validator.Struct and Validator.Var name the first rule that a field breaks. *)
FirstBroken(text, rules) ==
  {i \in DOMAIN rules : /\ Breaks(rules[i], text)
                        /\ \A j \in 1 .. i - 1 : ~Breaks(rules[j], text)}

Validated(field, text, rules) ==
  {FieldError(field, rules[i], Params(rules[i])) : i \in FirstBroken(text, rules)}

NameRules == <<"required", "min", "max">>

(* entity.Account, whose fields have no names of their own for JSON *)
AccountErrors(data) ==
  Validated("FirstName", valueToString(data.firstName), NameRules) \cup
  Validated("LastName", valueToString(data.lastName), NameRules) \cup
  Validated("Email", valueToString(data.email), <<"required", "email", "min", "max">>)

EmailErrors(data) ==
  Validated("email", valueToString(data.email), <<"required", "email">>)

CodeErrors(data) == Validated("code", valueToString(data.code), <<"required">>)

(* The errors that the body has by itself: userMicro finds those of account   *)
(* data, authMicro those of a login.                                         *)
BodyErrors(op, data) ==
  CASE op \in {"register", "confirmRegistration"} -> AccountErrors(data)
    [] op = "login" -> EmailErrors(data)
    [] op = "confirmLogin" -> EmailErrors(data) \cup CodeErrors(data)
    [] op = "refresh" -> {}

IsValid == BodyErrors(endpoint, body) = {}

-----------------------------------------------------------------------------
(* Birth, in userMicro ... *)

(* The calls an operation makes; it stops at the first error.  Only the       *)
(* validation of account data is asked for with a body that is not valid.     *)
Rpcs(op) ==
  (IF op \in {"register", "confirmRegistration"}
   THEN {"ValidateAccountData"} ELSE {}) \cup
  (IF ~IsValid THEN {} ELSE
   CASE op \in {"register", "login"} -> {"GetAccountByEmail"}
     [] op = "confirmRegistration" -> {"CreateAccount"}
     [] op \in {"confirmLogin", "refresh"} -> {"GetAccessTokenPayload"})

ValidatingRpcs == {"ValidateAccountData", "CreateAccount"}

(* AccountService: what ValidateAccountData finds; the other methods make an  *)
(* internal error of what their statement returns.                           *)
UserErrors(call) ==
  IF call = "ValidateAccountData"
  THEN {ValidationError(AccountErrors(body))} \ {ValidationError({})}
  ELSE {InternalError}

(* ... and in authMicro: the services' own checks, statements that fail, and *)
(* the transaction.  Login returns a failed statement as it is when the      *)
(* e-mail has no account; so does Execute a failed BEGIN, before it looks at *)
(* the request, or COMMIT.                                                   *)
AuthErrors(op) ==
  IF ~IsValid
  THEN (IF op \in {"login", "confirmLogin"}
        THEN {ValidationError(BodyErrors(op, body))} ELSE {}) \cup
       (IF op = "confirmLogin" THEN {PlainError} ELSE {})
  ELSE
  CASE op = "register" -> {InternalError}
    [] op = "confirmRegistration" ->
         {InternalError, CodeError("invalidCode"), CodeError("codeExpired")}
    [] op = "login" -> {InternalError, PlainError}
    [] op = "confirmLogin" ->
         {InternalError, PlainError, CodeError("invalidCode"), CodeError("codeExpired")}
    [] op = "refresh" -> {InternalError, RefusedToken}

(* Whose fault an error is, for the properties: it is remembered at birth. *)
Fault(e) ==
  CASE e.kind = "validation" -> "client"
    [] e.kind = "http" -> IF e.code = "badRequest" THEN "client" ELSE "mediaType"
    [] e.kind = "refused" -> "token"
    [] e.kind \in {"base", "plain"} -> "server"

Born(e) == born' = [fault |-> Fault(e), fields |-> e.fields]

NoAnswer == [status |-> 0, body |-> "none", error |-> NoError]

Init ==
  /\ endpoint \in Endpoints
  /\ header \in Headers
  /\ body \in Bodies(endpoint)
  /\ at = "start"
  /\ rpc = "none"
  /\ err = NoError
  /\ born = [fault |-> "none", fields |-> {}]
  /\ answer = NoAnswer

UserFails ==
  /\ at = "start"
  /\ \E call \in Rpcs(endpoint) :
       /\ rpc' = call
       /\ \E e \in UserErrors(call) : err' = e /\ Born(e)
  /\ at' = "user"
  /\ UNCHANGED <<endpoint, header, body, answer>>

(* The call itself fails. *)
CallFails ==
  /\ at = "start"
  /\ \E call \in Rpcs(endpoint) : rpc' = call
  /\ err' = InternalError
  /\ Born(InternalError)
  /\ at' = "service"
  /\ UNCHANGED <<endpoint, header, body, answer>>

ServiceFails ==
  /\ at = "start"
  /\ \E e \in AuthErrors(endpoint) : err' = e /\ Born(e)
  /\ at' = "service"
  /\ UNCHANGED <<endpoint, header, body, rpc, answer>>

(* The handler cannot bind the body. *)
BindFails ==
  /\ at = "start"
  /\ \E e \in BindErrors : err' = e /\ Born(e)
  /\ at' = "service"
  /\ UNCHANGED <<endpoint, header, body, rpc, answer>>

-----------------------------------------------------------------------------
(* The way back *)

(* GetLangFromHeader *)
Lang == IF header = <<>> THEN "en" ELSE Head(header)

EnglishOnly(call) == "en"  \* mutant: the adapter does not send the language

(* The adapter sends the language with the two calls whose errors can name   *)
(* fields; the others come without, and getLangFromContext takes English.    *)
MetadataLang(call) == IF call \in ValidatingRpcs THEN Lang ELSE "en"

CreationOnly(call) ==  \* mutant: ValidateAccountData returns the raw error
  call = "CreateAccount"

(* The handlers of userMicro that translate an error before they return it. *)
Translates(call) == call \in ValidatingRpcs

(* mapToGrpcError: the code and the fields, without name and parameters. *)
ToGrpcError(e) ==
  [code |-> IF e.kind = "validation" THEN "VALIDATION" ELSE "INTERNAL",
   detailed |-> {[name |-> f.field, message |-> f.message] : f \in e.fields}]

(* GrpcErrorMapToError *)
FromGrpcError(g) ==
  IF g.code = "VALIDATION"
  THEN ValidationError({[field |-> d.name, message |-> d.message, params |-> {}] :
                          d \in g.detailed})
  ELSE InternalError

(* userMicro replies, and the adapter reads the reply. *)
UserReplies ==
  /\ at = "user"
  /\ LET said == IF Translates(rpc)
                 THEN TranslateError(err, MetadataLang(rpc), "user")
                 ELSE err
     IN err' = FromGrpcError(ToGrpcError(said))
  /\ at' = "service"
  /\ UNCHANGED <<endpoint, header, body, rpc, born, answer>>

Answered(status, content, e) ==
  /\ answer' = [status |-> status, body |-> content, error |-> e]
  /\ at' = "answered"
  /\ UNCHANGED <<endpoint, header, body, rpc, err, born>>

(* The handler of /refreshToken answers what is wrong with the request; it    *)
(* makes a 400 of every error of Bind.                                       *)
RefreshAnswers ==
  /\ at = "service"
  /\ endpoint = "refresh"
  /\ \/ err.kind = "refused" /\ Answered(401, "empty", NoError)
     \/ err.kind = "http" /\ Answered(400, "message", NoError)

InvalidCodeOnly(code) ==  \* mutant: codeExpired was not added to the mapping
  IF code \in {"invalidCode", "validationError"} THEN 400 ELSE 500

(* getStatusCodeForBaseError; an error whose code it does not know is        *)
(* answered as an internal error.                                            *)
StatusCode(code) ==
  IF code \in {"invalidCode", "codeExpired", "validationError"} THEN 400 ELSE 500

Shown(e) ==
  IF e.code \in {"internalError", "invalidCode", "codeExpired", "validationError"}
  THEN e ELSE InternalError

(* baseErrorhandler.handle *)
DomainErrorAnswered ==
  /\ at = "service"
  /\ IsDomain(err)
  /\ Answered(StatusCode(err.code), "error",
              TranslateError(Shown(err), Lang, "auth"))

(* The status an error of echo comes with; any other error is a 500. *)
EchoStatus(e) ==
  IF e.kind # "http" THEN 500
  ELSE IF e.code = "unsupportedMediaType" THEN 415 ELSE 400

(* The default handler of echo, for all other errors. *)
OtherErrorAnswered ==
  /\ at = "service"
  /\ ~IsDomain(err)
  /\ endpoint = "refresh" => err.kind = "plain"
  /\ Answered(EchoStatus(err), "message", NoError)

Terminating == at = "answered" /\ UNCHANGED vars

Next ==
  \/ UserFails \/ CallFails \/ ServiceFails \/ BindFails
  \/ UserReplies
  \/ RefreshAnswers \/ DomainErrorAnswered \/ OtherErrorAnswered
  \/ Terminating

Spec == Init /\ [][Next]_vars

-----------------------------------------------------------------------------
(* Safety *)

(* Wherever an error was born and however it travelled, the status says      *)
(* whose fault it was: 400 the request's, 415 its content type's, 401 the     *)
(* refresh token's, 500 the services'; only /refreshToken does not tell the   *)
(* first two apart (base_error_handler.go:50-59, http_error_handler.go:13-25, *)
(* account_grpc_service.go:107-140, map.go:8-29, refresh_tokens.go:42-58).    *)
StatusTellsTheFault ==
  at = "answered" =>
    answer.status = CASE born.fault = "client" -> 400
                      [] born.fault = "mediaType" ->
                           IF endpoint = "refresh" THEN 400 ELSE 415
                      [] born.fault = "token" -> 401
                      [] born.fault = "server" -> 500

(* The client is told of every field that broke a rule, in which it broke it *)
(* and of no other, although names and parameters are dropped on the wire.   *)
(* A message that speaks of a value has the value (error.go:74-84).          *)
FieldsReachTheClient ==
  at = "answered" /\ born.fields # {} =>
    /\ {<<f.field, f.message.id>> : f \in answer.error.fields}
         = {<<f.field, f.message.id>> : f \in born.fields}
    /\ \A f \in answer.error.fields : f.message.params = Params(f.message.id)

(* A request that is refused for its body is told of each field that the      *)
(* rules do not accept as it came in the JSON, missing or of another type or  *)
(* too short or long for a name, and of no other field                        *)
(* (account_grpc_service.go:31-40, 89-105, grpcConverter.go:9-50,            *)
(* login_handler.go:51-54, 82-89).                                           *)
Accepted(field) ==
  IF endpoint \in {"login", "confirmLogin"} /\ field = "email"
  THEN {"short", "long", "fit"} ELSE {"fit"}

NameInAnswer(field) ==
  IF endpoint \in {"login", "confirmLogin"} THEN field ELSE
  CASE field = "firstName" -> "FirstName"
    [] field = "lastName" -> "LastName"
    [] field = "email" -> "Email"

BadFieldsAreNamed ==
  at = "answered" /\ answer.error.code = "validationError" =>
    {f.field : f \in answer.error.fields} =
      {NameInAnswer(f) : f \in {g \in DOMAIN body : body[g] \notin Accepted(g)}}

(* Every message of the answer is translated, once, into the language the    *)
(* client prefers, or English when there is no file for it; also by          *)
(* userMicro, which does not see the header (http_error_handler.go:29-39,    *)
(* account_grpc_service.go:172-180).                                         *)
FieldsSpeakTheLanguage ==
  at = "answered" =>
    \A f \in answer.error.fields : f.message.lang = IF Lang = "ru" THEN "ru" ELSE "en"

-----------------------------------------------------------------------------
(* What the documents say and the code does not do *)

(* "TranslateError translates errors that implement TranslatableError",      *)
(* translator.go.  The name of an error that is answered is translated.      *)
NamesAreTranslated ==
  answer.body = "error" => answer.error.name.lang # "id"

=============================================================================
