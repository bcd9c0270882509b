--------------------------- MODULE AnswersProofs ----------------------------
(***************************************************************************)
(* Proofs about Answers, for headers of any length and in any languages.    *)
(*                                                                         *)
(* What an answer says has to be kept true of the error on its whole way.   *)
(* The error always tells the fault it was born with and the field errors   *)
(* it was born with (Speaks), and each of its messages is either the bare   *)
(* id it was born as, or was translated for this client (IsRaw, IsSaid).    *)
(* Only raw messages leave userMicro untranslated, and then there are none: *)
(* the calls whose errors are not translated return internal errors.        *)
(***************************************************************************)
EXTENDS Answers, TLAPS

Ids == Tags \cup {"invalidCode", "codeExpired"}

Speaker == Matched(Lang)

NamesOf(fields) == {f.field : f \in fields}

Said(fields) == {<<f.field, f.message.id>> : f \in fields}

IsRaw(f) ==
  /\ f = FieldError(f.field, f.message.id, f.params)
  /\ f.message.id \in Ids
  /\ f.params = Params(f.message.id)

IsSaid(f) ==
  /\ DOMAIN f = {"field", "message", "params"}
  /\ f.message.id \in Ids
  /\ f.message.lang = Speaker
  /\ f.message.params = Params(f.message.id)

IsError(e) ==
  /\ e = Error(e.kind, e.code, e.fields)
  /\ e.kind \in {"base", "validation", "plain", "http", "refused"}
  /\ e.kind = "base" => e.code = "internalError"
  /\ e.kind = "validation" => e.code \in {"invalidCode", "codeExpired", "validationError"}
  /\ e.kind = "http" => e.code \in {"badRequest", "unsupportedMediaType"}
  /\ e.kind \in {"plain", "refused"} => e.code = ""
  /\ e.kind # "validation" => e.fields = {}
  /\ e.kind = "refused" => endpoint = "refresh"

Speaks(e) ==
  /\ born.fault = Fault(e)
  /\ Said(born.fields) = Said(e.fields)
  /\ e.code = "validationError" =>
       NamesOf(e.fields) = NamesOf(BodyErrors(endpoint, body))

RequestArrived == endpoint \in Endpoints /\ body \in Bodies(endpoint)

ErrorsSpeakTrue == at \in {"user", "service"} => IsError(err) /\ Speaks(err)

UserErrorsAreRaw ==
  at = "user" =>
    /\ \A f \in err.fields : IsRaw(f) /\ f.message.id \in Tags
    /\ err.kind \in {"base", "validation"}
    /\ err.kind = "validation" => err.code = "validationError"
    /\ rpc \notin ValidatingRpcs => err.kind = "base"

MessagesAreRawOrSaid ==
  at = "service" => \A f \in err.fields : IsRaw(f) \/ IsSaid(f)

IInv ==
  /\ RequestArrived
  /\ ErrorsSpeakTrue
  /\ UserErrorsAreRaw
  /\ MessagesAreRawOrSaid
  /\ at \in {"start", "user", "service", "answered"}
  /\ StatusTellsTheFault
  /\ FieldsReachTheClient
  /\ BadFieldsAreNamed
  /\ FieldsSpeakTheLanguage
-----------------------------------------------------------------------------
(* The rules of a body.  A field that breaks a rule has one error, which is *)
(* named for it; a field that breaks none has no error.                     *)
LEMMA ValidatedIsRaw ==
  ASSUME NEW field, NEW text, NEW rules \in Seq(Tags),
         NEW f \in Validated(field, text, rules)
  PROVE  IsRaw(f) /\ f.message.id \in Tags /\ f.field = field
<1>1. PICK i \in DOMAIN rules : f = FieldError(field, rules[i], Params(rules[i]))
  BY DEF Validated, FirstBroken
<1>2. rules[i] \in Tags
  OBVIOUS
<1> QED  BY <1>1, <1>2 DEF FieldError, Raw, IsRaw, Ids

(* A field is named as soon as it breaks one of its rules. *)
LEMMA ValidatedNames ==
  ASSUME NEW field, NEW text, NEW rules \in Seq(Tags), Len(rules) <= 4
  PROVE  NamesOf(Validated(field, text, rules)) =
           IF \E i \in DOMAIN rules : Breaks(rules[i], text) THEN {field} ELSE {}
<1>1. ASSUME NEW i \in DOMAIN rules, Breaks(rules[i], text)
      PROVE  FirstBroken(text, rules) # {}
  <2>1. i \in 1 .. 4 /\ i <= Len(rules) /\ DOMAIN rules = 1 .. Len(rules)
    OBVIOUS
  <2> DEFINE B(j) == Breaks(rules[j], text)
  <2>2. \E j \in 1 .. i : B(j) /\ \A k \in 1 .. j - 1 : ~B(k)
    <3> HIDE DEF B
    <3>1. B(i)
      BY <1>1 DEF B
    <3>2. CASE B(1)
      BY <2>1, <3>2
    <3>3. CASE ~B(1) /\ B(2) /\ i >= 2
      BY <2>1, <3>3
    <3>4. CASE ~B(1) /\ ~B(2) /\ B(3) /\ i >= 3
      BY <2>1, <3>4
    <3>5. CASE ~B(1) /\ ~B(2) /\ ~B(3) /\ B(4) /\ i >= 4
      BY <2>1, <3>5
    <3> QED  BY <2>1, <3>1, <3>2, <3>3, <3>4, <3>5
  <2> QED  BY <2>1, <2>2 DEF FirstBroken
<1>2. \A f \in Validated(field, text, rules) : f.field = field
  BY ValidatedIsRaw
<1>3. \A i \in FirstBroken(text, rules) : i \in DOMAIN rules /\ Breaks(rules[i], text)
  BY DEF FirstBroken
<1>4. Validated(field, text, rules) # {} <=> FirstBroken(text, rules) # {}
  BY DEF Validated
<1> QED  BY <1>1, <1>2, <1>3, <1>4 DEF NamesOf

(* The rules of the code are rules the translation has a text for. *)
LEMMA RulesAreTags ==
  /\ NameRules \in Seq(Tags)
  /\ <<"required", "email", "min", "max">> \in Seq(Tags)
  /\ <<"required", "email">> \in Seq(Tags)
  /\ <<"required">> \in Seq(Tags)
BY DEF NameRules, Tags

(* The errors of a body, on any endpoint, are untranslated. *)
LEMMA BodyErrorsAreRaw ==
  ASSUME NEW op \in Endpoints, NEW data, NEW f \in BodyErrors(op, data)
  PROVE  IsRaw(f) /\ f.message.id \in Tags
BY RulesAreTags, ValidatedIsRaw
DEF BodyErrors, AccountErrors, EmailErrors, CodeErrors, Endpoints

(* A value that is no string is as good as none.                            *)
LEMMA BrokenRules ==
  ASSUME NEW value \in Addresses \cup Codes
  PROVE  /\ value \in Names =>
             ((\E i \in DOMAIN NameRules : Breaks(NameRules[i], valueToString(value)))
                <=> value # "fit")
         /\ (\E i \in DOMAIN <<"required", "email", "min", "max">> :
               Breaks(<<"required", "email", "min", "max">>[i], valueToString(value)))
                <=> value # "fit"
         /\ (\E i \in DOMAIN <<"required", "email">> :
               Breaks(<<"required", "email">>[i], valueToString(value)))
                <=> value \notin {"short", "long", "fit"}
         /\ value \in Codes =>
             ((\E i \in DOMAIN <<"required">> :
                 Breaks(<<"required">>[i], valueToString(value))) <=> value # "fit")
<1>1. /\ DOMAIN NameRules = {1, 2, 3}
      /\ NameRules[1] = "required" /\ NameRules[2] = "min" /\ NameRules[3] = "max"
  BY DEF NameRules
<1>2. /\ DOMAIN <<"required", "email", "min", "max">> = {1, 2, 3, 4}
      /\ DOMAIN <<"required", "email">> = {1, 2}
      /\ DOMAIN <<"required">> = {1}
  OBVIOUS
<1>3. value \in {"absent", "notString", "empty", "short", "long", "fit", "noAddress"}
  BY DEF Addresses, Names, Codes
<1>4. /\ value \in {"absent", "notString"} => valueToString(value) = "empty"
      /\ value \notin {"absent", "notString"} => valueToString(value) = value
  BY DEF valueToString
<1>5. \A text : /\ Breaks("required", text) <=> text = "empty"
                /\ Breaks("email", text) <=> text = "noAddress"
                /\ Breaks("min", text) <=> text = "short"
                /\ Breaks("max", text) <=> text = "long"
  BY DEF Breaks
<1> HIDE DEF Breaks, valueToString
<1> QED  BY <1>1, <1>2, <1>3, <1>4, <1>5 DEF Names, Codes

(* What the rules of each field make of its value. *)
LEMMA FieldsValidated ==
  ASSUME NEW field, NEW value
  PROVE  /\ value \in Names =>
             NamesOf(Validated(field, valueToString(value), NameRules)) =
               IF value = "fit" THEN {} ELSE {field}
         /\ value \in Addresses =>
             /\ NamesOf(Validated(field, valueToString(value),
                                  <<"required", "email", "min", "max">>)) =
                  IF value = "fit" THEN {} ELSE {field}
             /\ NamesOf(Validated(field, valueToString(value), <<"required", "email">>)) =
                  IF value \in {"short", "long", "fit"} THEN {} ELSE {field}
         /\ value \in Codes =>
             NamesOf(Validated(field, valueToString(value), <<"required">>)) =
               IF value = "fit" THEN {} ELSE {field}
<1> DEFINE text == valueToString(value)
           Broken(rules) == \E i \in DOMAIN rules : Breaks(rules[i], text)
           N(rules) == NamesOf(Validated(field, text, rules))
<1>1. /\ Len(NameRules) <= 4 /\ Len(<<"required", "email", "min", "max">>) <= 4
      /\ Len(<<"required", "email">>) <= 4 /\ Len(<<"required">>) <= 4
  BY DEF NameRules
<1>2. ASSUME NEW rules \in Seq(Tags), Len(rules) <= 4
      PROVE  N(rules) = IF Broken(rules) THEN {field} ELSE {}
  BY <1>2, ValidatedNames
<1>3. /\ N(NameRules) = IF Broken(NameRules) THEN {field} ELSE {}
      /\ N(<<"required", "email", "min", "max">>) =
           IF Broken(<<"required", "email", "min", "max">>) THEN {field} ELSE {}
      /\ N(<<"required", "email">>) =
           IF Broken(<<"required", "email">>) THEN {field} ELSE {}
      /\ N(<<"required">>) = IF Broken(<<"required">>) THEN {field} ELSE {}
  <2> HIDE DEF N, Broken
  <2> QED  BY <1>1, <1>2, RulesAreTags
<1>4. value \in Names \cup Addresses \cup Codes =>
        /\ value \in Names => (Broken(NameRules) <=> value # "fit")
        /\ Broken(<<"required", "email", "min", "max">>) <=> value # "fit"
        /\ Broken(<<"required", "email">>) <=> value \notin {"short", "long", "fit"}
        /\ value \in Codes => (Broken(<<"required">>) <=> value # "fit")
  BY BrokenRules DEF Addresses
<1> HIDE DEF Broken
<1> QED  BY <1>3, <1>4

(* The errors of a body name the fields that the rules do not accept.       *)
LEMMA BodyErrorsNameBadFields ==
  ASSUME endpoint \in Endpoints, body \in Bodies(endpoint)
  PROVE  NamesOf(BodyErrors(endpoint, body)) =
           {NameInAnswer(f) : f \in {g \in DOMAIN body : body[g] \notin Accepted(g)}}
<1> DEFINE Named == {NameInAnswer(f) : f \in {g \in DOMAIN body : body[g] \notin Accepted(g)}}
<1>0. SUFFICES NamesOf(BodyErrors(endpoint, body)) = Named
  OBVIOUS
<1>1. \A a, b : NamesOf(a \cup b) = NamesOf(a) \cup NamesOf(b)
  BY DEF NamesOf
<1>2. CASE endpoint \in {"register", "confirmRegistration"}
  <2>1. /\ body \in AccountData
        /\ BodyErrors(endpoint, body) = AccountErrors(body)
    BY <1>2 DEF Bodies, BodyErrors
  <2>2. /\ DOMAIN body = {"firstName", "lastName", "email"}
        /\ body.firstName \in Names /\ body.lastName \in Names /\ body.email \in Addresses
    BY <2>1 DEF AccountData
  <2>3. /\ \A g : Accepted(g) = {"fit"}
        /\ NameInAnswer("firstName") = "FirstName"
        /\ NameInAnswer("lastName") = "LastName"
        /\ NameInAnswer("email") = "Email"
    BY <1>2 DEF Accepted, NameInAnswer
  <2>4. NamesOf(AccountErrors(body)) =
          (IF body.firstName = "fit" THEN {} ELSE {"FirstName"}) \cup
          (IF body.lastName = "fit" THEN {} ELSE {"LastName"}) \cup
          (IF body.email = "fit" THEN {} ELSE {"Email"})
    <3> DEFINE First == Validated("FirstName", valueToString(body.firstName), NameRules)
               Second == Validated("LastName", valueToString(body.lastName), NameRules)
               Third == Validated("Email", valueToString(body.email),
                                  <<"required", "email", "min", "max">>)
    <3>1. AccountErrors(body) = First \cup Second \cup Third
      BY DEF AccountErrors
    <3>2. /\ NamesOf(First) = (IF body.firstName = "fit" THEN {} ELSE {"FirstName"})
          /\ NamesOf(Second) = (IF body.lastName = "fit" THEN {} ELSE {"LastName"})
          /\ NamesOf(Third) = (IF body.email = "fit" THEN {} ELSE {"Email"})
      BY <2>2, FieldsValidated
    <3> HIDE DEF First, Second, Third
    <3>3. NamesOf(First \cup Second) = NamesOf(First) \cup NamesOf(Second)
      BY <1>1, Zenon
    <3>4. NamesOf((First \cup Second) \cup Third) =
            NamesOf(First \cup Second) \cup NamesOf(Third)
      BY <1>1, Zenon
    <3> QED  BY <3>1, <3>2, <3>3, <3>4
  <2>5. Named = (IF body.firstName = "fit" THEN {} ELSE {"FirstName"}) \cup
                (IF body.lastName = "fit" THEN {} ELSE {"LastName"}) \cup
                (IF body.email = "fit" THEN {} ELSE {"Email"})
    BY <2>2, <2>3
  <2> QED  BY <2>1, <2>4, <2>5
<1>3. CASE endpoint = "login"
  <2>1. /\ DOMAIN body = {"email"} /\ body.email \in Addresses
        /\ BodyErrors(endpoint, body) = EmailErrors(body)
    BY <1>3 DEF Bodies, BodyErrors
  <2>2. Accepted("email") = {"short", "long", "fit"} /\ NameInAnswer("email") = "email"
    BY <1>3 DEF Accepted, NameInAnswer
  <2>3. NamesOf(EmailErrors(body)) =
          (IF body.email \in {"short", "long", "fit"} THEN {} ELSE {"email"})
    BY <2>1, FieldsValidated DEF EmailErrors
  <2> QED  BY <2>1, <2>2, <2>3
<1>4. CASE endpoint = "confirmLogin"
  <2>1. /\ DOMAIN body = {"email", "code"}
        /\ body.email \in Addresses /\ body.code \in Codes
        /\ BodyErrors(endpoint, body) = EmailErrors(body) \cup CodeErrors(body)
    BY <1>4 DEF Bodies, BodyErrors
  <2>2. /\ Accepted("email") = {"short", "long", "fit"} /\ NameInAnswer("email") = "email"
        /\ Accepted("code") = {"fit"} /\ NameInAnswer("code") = "code"
    BY <1>4 DEF Accepted, NameInAnswer
  <2>3. NamesOf(EmailErrors(body) \cup CodeErrors(body)) =
          (IF body.email \in {"short", "long", "fit"} THEN {} ELSE {"email"}) \cup
          (IF body.code = "fit" THEN {} ELSE {"code"})
    <3>1. NamesOf(EmailErrors(body) \cup CodeErrors(body)) =
            NamesOf(EmailErrors(body)) \cup NamesOf(CodeErrors(body))
      BY <1>1, Zenon
    <3>2. NamesOf(EmailErrors(body)) =
            (IF body.email \in {"short", "long", "fit"} THEN {} ELSE {"email"})
      BY <2>1, FieldsValidated DEF EmailErrors
    <3>3. NamesOf(CodeErrors(body)) = (IF body.code = "fit" THEN {} ELSE {"code"})
      BY <2>1, FieldsValidated DEF CodeErrors
    <3> QED  BY <3>1, <3>2, <3>3
  <2> QED  BY <2>1, <2>2, <2>3
<1>5. CASE endpoint = "refresh"
  <2>1. DOMAIN body = {} /\ BodyErrors(endpoint, body) = {}
    BY <1>5 DEF Bodies, BodyErrors
  <2> QED  BY <2>1 DEF NamesOf
<1> QED  BY <1>2, <1>3, <1>4, <1>5 DEF Endpoints

-----------------------------------------------------------------------------
(* Translation.  Both services have a text, in both languages, for every    *)
(* rule, and authMicro for the codes.                                       *)
LEMMA TextsAreThere ==
  ASSUME NEW lang, NEW service \in {"user", "auth"}
  PROVE  /\ Tags \subseteq Messages(service, lang)
         /\ Ids \subseteq Messages("auth", lang)
BY DEF Messages, UserMessages, AuthMessages, Ids, Tags

(* A raw message comes out in the language of the translator, with the      *)
(* values it speaks of; a message that was translated before comes out as   *)
(* it is.                                                                   *)
LEMMA TranslatedOnce ==
  ASSUME NEW f, NEW lang, Matched(lang) = Speaker, NEW service \in {"user", "auth"},
         (IsRaw(f) /\ f.message.id \in Messages(service, Matched(lang))) \/ IsSaid(f),
         NEW g, g = [f EXCEPT !.message = Translated(f.message, f.params, lang, service)]
  PROVE  IsSaid(g) /\ g.field = f.field /\ g.message.id = f.message.id
<1>1. Matched(lang) # "id"
  BY DEF Matched
<1>2. CASE IsRaw(f) /\ f.message.id \in Messages(service, Matched(lang))
  <2>1. /\ DOMAIN f = {"field", "message", "params"}
        /\ f.message = Raw(f.message.id)
    BY <1>2 DEF IsRaw, FieldError
  <2>2. f.message.lang = "id"
    BY <2>1 DEF Raw
  <2>3. Translated(f.message, f.params, lang, service) =
          [id |-> f.message.id, lang |-> Matched(lang), params |-> f.params]
    BY <1>2, <2>2 DEF Translated
  <2> QED  BY <1>2, <2>1, <2>3 DEF IsRaw, IsSaid
<1>3. CASE IsSaid(f)
  <2>1. Translated(f.message, f.params, lang, service) = f.message
    BY <1>1, <1>3 DEF Translated, IsSaid
  <2> QED  BY <1>3, <2>1 DEF IsSaid
<1> QED  BY <1>2, <1>3

(* So an error is translated field by field, and says what it said.         *)
LEMMA ErrorTranslated ==
  ASSUME NEW e, e = Error(e.kind, e.code, e.fields),
         NEW lang, Matched(lang) = Speaker, NEW service \in {"user", "auth"},
         \A f \in e.fields :
           (IsRaw(f) /\ f.message.id \in Messages(service, Matched(lang))) \/ IsSaid(f),
         NEW said, said = TranslateError(e, lang, service)
  PROVE  /\ said.kind = e.kind /\ said.code = e.code
         /\ \A f \in said.fields : IsSaid(f)
         /\ NamesOf(said.fields) = NamesOf(e.fields)
         /\ Said(said.fields) = Said(e.fields)
<1> DEFINE T(f) == [f EXCEPT !.message = Translated(f.message, f.params, lang, service)]
<1>1. /\ said.kind = e.kind /\ said.code = e.code
      /\ said.fields = {T(f) : f \in e.fields}
  BY DEF TranslateError, Error
<1>2. \A f \in e.fields :
        IsSaid(T(f)) /\ T(f).field = f.field /\ T(f).message.id = f.message.id
  <2> SUFFICES ASSUME NEW f \in e.fields
               PROVE  /\ IsSaid(T(f)) /\ T(f).field = f.field
                      /\ T(f).message.id = f.message.id
    OBVIOUS
  <2>1. (IsRaw(f) /\ f.message.id \in Messages(service, Matched(lang))) \/ IsSaid(f)
    OBVIOUS
  <2> DEFINE said_f == T(f)
  <2>2. said_f = [f EXCEPT !.message = Translated(f.message, f.params, lang, service)]
    OBVIOUS
  <2> HIDE DEF said_f
  <2>3. IsSaid(said_f) /\ said_f.field = f.field /\ said_f.message.id = f.message.id
    BY <2>1, <2>2, TranslatedOnce, ZenonT(60)
  <2> QED  BY <2>3 DEF said_f
<1> HIDE DEF T
<1>3. \A f \in said.fields : IsSaid(f)
  BY <1>1, <1>2
<1>4. NamesOf(said.fields) = NamesOf(e.fields)
  BY <1>1, <1>2 DEF NamesOf
<1>5. Said(said.fields) = Said(e.fields)
  BY <1>1, <1>2 DEF Said
<1> QED  BY <1>1, <1>3, <1>4, <1>5

-----------------------------------------------------------------------------
(* Nothing has failed when the request arrives.                             *)
LEMMA InitIInv == Init => IInv
BY DEF Init, IInv, RequestArrived, ErrorsSpeakTrue, UserErrorsAreRaw,
   MessagesAreRawOrSaid, StatusTellsTheFault, FieldsReachTheClient,
   BadFieldsAreNamed, FieldsSpeakTheLanguage

(* So are the errors a refused code is answered with. *)
LEMMA CodesAreRaw ==
  ASSUME NEW id \in {"invalidCode", "codeExpired"}
  PROVE  \A f \in CodeError(id).fields : IsRaw(f)
BY DEF CodeError, Error, FieldError, Raw, IsRaw, Ids, Params

(* Every error a step can bear is one that can be answered, is raw, and     *)
(* blames the body only for what is wrong with it.                          *)
LEMMA ErrorsAreBornRaw ==
  ASSUME RequestArrived,
         NEW e, e \in BindErrors \cup {InternalError} \cup AuthErrors(endpoint)
                \/ (e \in UserErrors("ValidateAccountData")
                    /\ endpoint \in {"register", "confirmRegistration"})
  PROVE  /\ IsError(e)
         /\ \A f \in e.fields : IsRaw(f)
         /\ e.code = "validationError" =>
              /\ e.fields = BodyErrors(endpoint, body)
              /\ \A f \in e.fields : f.message.id \in Tags
<1>1. \A f \in BodyErrors(endpoint, body) : IsRaw(f) /\ f.message.id \in Tags
  BY BodyErrorsAreRaw DEF RequestArrived
<1>2. CASE e = ValidationError(BodyErrors(endpoint, body))
  BY <1>1, <1>2 DEF ValidationError, Error, IsError
<1>3. CASE e \in BindErrors \cup {InternalError, PlainError}
  <2>1. CASE e = InternalError
    BY <2>1 DEF InternalError, Error, IsError
  <2>2. CASE e = PlainError
    BY <2>2 DEF PlainError, Error, IsError
  <2>3. CASE e \in BindErrors
    <3>1. PICK code \in {"badRequest", "unsupportedMediaType"} : e = Error("http", code, {})
      BY <2>3 DEF BindErrors
    <3>2. e.kind = "http" /\ e.code = code /\ e.fields = {}
      BY <3>1 DEF Error
    <3> QED  BY <3>1, <3>2 DEF IsError
  <2> QED  BY <1>3, <2>1, <2>2, <2>3
<1>4. CASE e = RefusedToken /\ endpoint = "refresh"
  BY <1>4 DEF RefusedToken, Error, IsError
<1>5. CASE \E id \in {"invalidCode", "codeExpired"} : e = CodeError(id)
  <2>1. PICK id \in {"invalidCode", "codeExpired"} : e = CodeError(id)
    BY <1>5
  <2>2. \A f \in e.fields : IsRaw(f)
    BY <2>1, CodesAreRaw
  <2> QED  BY <2>1, <2>2 DEF CodeError, Error, IsError
<1>6. ASSUME e \in UserErrors("ValidateAccountData"),
             endpoint \in {"register", "confirmRegistration"}
      PROVE  e = ValidationError(BodyErrors(endpoint, body))
  BY <1>6 DEF UserErrors, BodyErrors
<1>7. ASSUME e \in AuthErrors(endpoint)
      PROVE  \/ e \in {InternalError, PlainError}
             \/ e = ValidationError(BodyErrors(endpoint, body))
             \/ e = RefusedToken /\ endpoint = "refresh"
             \/ \E id \in {"invalidCode", "codeExpired"} : e = CodeError(id)
  BY <1>7 DEF AuthErrors, RequestArrived, Endpoints
<1> QED  BY <1>2, <1>3, <1>4, <1>5, <1>6, <1>7

(* An error is born.                                                        *)
LEMMA BirthKeepsIInv ==
  ASSUME IInv, UserFails \/ CallFails \/ ServiceFails \/ BindFails
  PROVE  IInv'
<1>0. RequestArrived /\ UNCHANGED <<endpoint, header, body>>
  BY DEF IInv, UserFails, CallFails, ServiceFails, BindFails
<1>1. RequestArrived'
  BY <1>0 DEF RequestArrived
<1>2. ASSUME at' = "service", Born(err'),
             err' \in BindErrors \cup {InternalError} \cup AuthErrors(endpoint)
      PROVE  IInv'
  <2>1. /\ IsError(err') /\ \A f \in err'.fields : IsRaw(f)
        /\ err'.code = "validationError" => err'.fields = BodyErrors(endpoint, body)
    BY <1>0, <1>2, ErrorsAreBornRaw
  <2>2. born'.fault = Fault(err') /\ born'.fields = err'.fields
    BY <1>2 DEF Born
  <2>3. ErrorsSpeakTrue'
    BY <1>0, <1>2, <2>1, <2>2 DEF ErrorsSpeakTrue, IsError, Speaks, Said, NamesOf
  <2> QED  BY <1>1, <1>2, <2>1, <2>3
           DEF IInv, UserErrorsAreRaw, MessagesAreRawOrSaid, StatusTellsTheFault,
               FieldsReachTheClient, BadFieldsAreNamed, FieldsSpeakTheLanguage, IsRaw
<1>3. CASE UserFails
  <2>1. PICK call \in Rpcs(endpoint) : rpc' = call /\ err' \in UserErrors(call) /\ Born(err')
    BY <1>3 DEF UserFails
  <2>2. \/ /\ call = "ValidateAccountData"
           /\ endpoint \in {"register", "confirmRegistration"}
        \/ call # "ValidateAccountData" /\ err' = InternalError
    BY <1>0, <2>1 DEF Rpcs, UserErrors, RequestArrived, Endpoints
  <2>3. /\ IsError(err') /\ \A f \in err'.fields : IsRaw(f)
        /\ err'.code = "validationError" =>
             err'.fields = BodyErrors(endpoint, body)
             /\ \A f \in err'.fields : f.message.id \in Tags
    BY <1>0, <2>1, <2>2, ErrorsAreBornRaw
  <2>4. born'.fault = Fault(err') /\ born'.fields = err'.fields /\ at' = "user"
    BY <1>3, <2>1 DEF Born, UserFails
  <2>5. ErrorsSpeakTrue'
    BY <1>0, <2>3, <2>4 DEF ErrorsSpeakTrue, IsError, Speaks, Said, NamesOf
  <2>6. /\ err'.kind \in {"base", "validation"}
        /\ err'.kind = "validation" => err'.code = "validationError"
        /\ rpc' \notin ValidatingRpcs => err'.kind = "base"
    BY <2>1, <2>2 DEF UserErrors, ValidationError, InternalError, Error, ValidatingRpcs
  <2>7. \A f \in err'.fields : IsRaw(f) /\ f.message.id \in Tags
    BY <2>3, <2>6 DEF IsError
  <2> QED  BY <1>1, <2>4, <2>5, <2>6, <2>7
           DEF IInv, UserErrorsAreRaw, MessagesAreRawOrSaid, StatusTellsTheFault,
               FieldsReachTheClient, BadFieldsAreNamed, FieldsSpeakTheLanguage, IsRaw
<1>4. CASE CallFails
  BY <1>2, <1>4 DEF CallFails
<1>5. CASE ServiceFails
  BY <1>2, <1>5 DEF ServiceFails
<1>6. CASE BindFails
  BY <1>2, <1>6 DEF BindFails
<1> QED  BY <1>3, <1>4, <1>5, <1>6

-----------------------------------------------------------------------------
(* The reply of userMicro.  The wire drops the parameters of a message and  *)
(* keeps its text, which has them already.                                  *)
LEMMA OverTheWire ==
  ASSUME NEW e, e.kind = "validation", \A f \in e.fields : IsSaid(f),
         NEW arrived, arrived = FromGrpcError(ToGrpcError(e))
  PROVE  /\ arrived = ValidationError(arrived.fields)
         /\ \A f \in arrived.fields : IsSaid(f)
         /\ NamesOf(arrived.fields) = NamesOf(e.fields)
         /\ Said(arrived.fields) = Said(e.fields)
<1> DEFINE T(f) == [field |-> f.field, message |-> f.message, params |-> {}]
<1>1. arrived = ValidationError({T(f) : f \in e.fields})
  <2>1. {[field |-> d.name, message |-> d.message, params |-> {}] :
           d \in ToGrpcError(e).detailed} = {T(f) : f \in e.fields}
    <3> DEFINE Wire(f) == [name |-> f.field, message |-> f.message]
               Read(d) == [field |-> d.name, message |-> d.message, params |-> {}]
    <3>1. ToGrpcError(e).detailed = {Wire(f) : f \in e.fields}
      BY DEF ToGrpcError
    <3>2. \A f \in e.fields : Read(Wire(f)) = T(f)
      OBVIOUS
    <3> HIDE DEF Wire, Read, T
    <3>3. {Read(d) : d \in ToGrpcError(e).detailed} = {T(f) : f \in e.fields}
      BY <3>1, <3>2
    <3> QED  BY <3>3 DEF Read
  <2>2. ToGrpcError(e).code = "VALIDATION"
    BY DEF ToGrpcError
  <2> QED  BY <2>1, <2>2 DEF FromGrpcError
<1>2. arrived.fields = {T(f) : f \in e.fields}
  BY <1>1 DEF ValidationError, Error
<1>3. \A f \in e.fields :
        IsSaid(T(f)) /\ T(f).field = f.field /\ T(f).message.id = f.message.id
  BY DEF IsSaid
<1> HIDE DEF T
<1>4. \A f \in arrived.fields : IsSaid(f)
  BY <1>2, <1>3
<1>5. NamesOf(arrived.fields) = NamesOf(e.fields)
  BY <1>2, <1>3 DEF NamesOf
<1>6. Said(arrived.fields) = Said(e.fields)
  BY <1>2, <1>3 DEF Said
<1> QED  BY <1>1, <1>2, <1>4, <1>5, <1>6

(* The way from userMicro to authMicro keeps fault, fields and language. *)
LEMMA ReplyKeepsIInv ==
  ASSUME IInv, UserReplies
  PROVE  IInv'
<1>0. /\ at = "user" /\ at' = "service"
      /\ UNCHANGED <<endpoint, header, body, born>>
  BY DEF UserReplies
<1>1. /\ IsError(err) /\ Speaks(err)
      /\ \A f \in err.fields : IsRaw(f) /\ f.message.id \in Tags
      /\ err.kind \in {"base", "validation"}
      /\ err.kind = "validation" => err.code = "validationError"
      /\ rpc \notin ValidatingRpcs => err.kind = "base"
  BY <1>0 DEF IInv, ErrorsSpeakTrue, UserErrorsAreRaw
<1>2. SUFFICES /\ IsError(err') /\ Speaks(err')
               /\ \A f \in err'.fields : IsSaid(f)
  BY <1>0 DEF IInv, RequestArrived, ErrorsSpeakTrue, UserErrorsAreRaw, IsError, Speaks,
     MessagesAreRawOrSaid, StatusTellsTheFault, FieldsReachTheClient,
     BadFieldsAreNamed, FieldsSpeakTheLanguage, IsSaid, Speaker, Lang
<1>3. CASE err.kind = "validation"
  <2> DEFINE said == TranslateError(err, Lang, "user")
  <2>1. err' = FromGrpcError(ToGrpcError(said))
    BY <1>1, <1>3 DEF UserReplies, Translates, MetadataLang
  <2>2. /\ said.kind = "validation"
        /\ \A f \in said.fields : IsSaid(f)
        /\ NamesOf(said.fields) = NamesOf(err.fields)
        /\ Said(said.fields) = Said(err.fields)
    BY <1>1, <1>3, TextsAreThere, ErrorTranslated DEF IsError, Speaker
  <2> HIDE DEF said
  <2>3. /\ err' = ValidationError(err'.fields)
        /\ \A f \in err'.fields : IsSaid(f)
        /\ NamesOf(err'.fields) = NamesOf(err.fields)
        /\ Said(err'.fields) = Said(err.fields)
    BY <2>1, <2>2, OverTheWire
  <2>4. err'.kind = "validation" /\ err'.code = "validationError"
    BY <2>3 DEF ValidationError, Error
  <2>5. IsError(err')
    BY <2>3, <2>4 DEF IsError, ValidationError, Error
  <2>6. Speaks(err')
    BY <1>1, <1>3, <2>3, <2>4 DEF Speaks, Fault
  <2> QED  BY <2>3, <2>5, <2>6
<1>4. CASE err.kind = "base"
  <2>1. err' = InternalError
    <3>1. PICK said : /\ err' = FromGrpcError(ToGrpcError(said))
                      /\ \/ said = err
                         \/ said = TranslateError(err, MetadataLang(rpc), "user")
      BY DEF UserReplies
    <3>2. said.kind = "base"
      BY <1>1, <1>4, <3>1 DEF TranslateError, IsError, Error
    <3> QED  BY <3>1, <3>2 DEF FromGrpcError, ToGrpcError
  <2>2. err.fields = {} /\ Said(err.fields) = Said({})
    BY <1>1, <1>4 DEF IsError
  <2>3. /\ err'.kind = "base" /\ err'.code = "internalError" /\ err'.fields = {}
        /\ err' = Error("base", "internalError", {})
    BY <2>1 DEF InternalError, Error
  <2>4. IsError(err')
    BY <2>3 DEF IsError
  <2>5. Speaks(err')
    BY <1>1, <1>4, <2>2, <2>3 DEF Speaks, Fault
  <2> QED  BY <2>3, <2>4, <2>5
<1> QED  BY <1>1, <1>3, <1>4

-----------------------------------------------------------------------------
(* The answer.  An error that is no error of the domain has no fields.      *)
LEMMA AnsweringKeepsIInv ==
  ASSUME IInv, RefreshAnswers \/ DomainErrorAnswered \/ OtherErrorAnswered
  PROVE  IInv'
<1>0. /\ at = "service" /\ at' = "answered"
      /\ UNCHANGED <<endpoint, header, body, err, born>>
  BY DEF RefreshAnswers, DomainErrorAnswered, OtherErrorAnswered, Answered
<1>1. /\ IsError(err) /\ Speaks(err)
      /\ \A f \in err.fields : IsRaw(f) \/ IsSaid(f)
      /\ RequestArrived
  BY <1>0 DEF IInv, ErrorsSpeakTrue, MessagesAreRawOrSaid
<1>2. RequestArrived' /\ Speaker' = Speaker
  BY <1>0, <1>1 DEF RequestArrived, Speaker, Lang
<1>3. SUFFICES StatusTellsTheFault' /\ FieldsReachTheClient' /\ BadFieldsAreNamed'
               /\ FieldsSpeakTheLanguage'
  BY <1>0, <1>2 DEF IInv, ErrorsSpeakTrue, UserErrorsAreRaw, MessagesAreRawOrSaid
<1>4. ASSUME err.kind \in {"plain", "http", "refused"},
             answer'.error = NoError,
             answer'.status = CASE err.kind = "refused" -> 401
                                [] endpoint = "refresh" /\ err.kind = "http" -> 400
                                [] OTHER -> EchoStatus(err)
      PROVE  StatusTellsTheFault' /\ FieldsReachTheClient' /\ BadFieldsAreNamed'
             /\ FieldsSpeakTheLanguage'
  <2>1. born.fault = Fault(err) /\ born.fields = {}
    <3>1. /\ born.fault = Fault(err) /\ err.fields = {}
          /\ Said(born.fields) = Said(err.fields)
      BY <1>1, <1>4 DEF IsError, Speaks
    <3>2. Said(born.fields) = {}
      BY <3>1 DEF Said
    <3>3. \A f \in born.fields : <<f.field, f.message.id>> \in Said(born.fields)
      BY DEF Said
    <3> QED  BY <3>1, <3>2, <3>3
  <2>2. StatusTellsTheFault'
    <3>1. born' = born /\ endpoint' = endpoint
      BY <1>0
    <3>2. CASE err.kind = "http"
      <4>1. err.code \in {"badRequest", "unsupportedMediaType"}
        BY <1>1, <3>2 DEF IsError
      <4>2. /\ err.code = "badRequest" => answer'.status = 400
            /\ err.code = "unsupportedMediaType" =>
                 answer'.status = IF endpoint = "refresh" THEN 400 ELSE 415
        BY <1>4, <3>2, <4>1 DEF EchoStatus
      <4> QED  BY <2>1, <3>1, <3>2, <4>1, <4>2 DEF StatusTellsTheFault, Fault
    <3>3. CASE err.kind = "refused"
      BY <1>4, <2>1, <3>1, <3>3 DEF StatusTellsTheFault, Fault
    <3>4. CASE err.kind = "plain"
      BY <1>4, <2>1, <3>1, <3>4 DEF StatusTellsTheFault, Fault, EchoStatus
    <3> QED  BY <1>4, <3>2, <3>3, <3>4
  <2>3. answer'.error.fields = {} /\ answer'.error.code = ""
    <3>1. NoError.fields = {} /\ NoError.code = ""
      BY DEF NoError, Error
    <3> QED  BY <1>4, <3>1
  <2> QED  BY <1>0, <2>1, <2>2, <2>3
           DEF FieldsReachTheClient, BadFieldsAreNamed, FieldsSpeakTheLanguage
<1>5. CASE RefreshAnswers
  <2>1. CASE err.kind = "refused" /\ Answered(401, "empty", NoError)
    BY <1>4, <2>1 DEF Answered
  <2>2. CASE err.kind = "http" /\ Answered(400, "message", NoError)
    BY <1>4, <1>5, <2>2 DEF Answered, RefreshAnswers
  <2> QED  BY <1>5, <2>1, <2>2 DEF RefreshAnswers
<1>6. CASE OtherErrorAnswered
  <2>1. err.kind \in {"plain", "http"}
    BY <1>1, <1>6 DEF OtherErrorAnswered, IsDomain, IsError
  <2>2. answer' = [status |-> EchoStatus(err), body |-> "message", error |-> NoError]
    BY <1>6 DEF OtherErrorAnswered, Answered
  <2>3. endpoint = "refresh" => err.kind = "plain"
    BY <1>6 DEF OtherErrorAnswered
  <2> QED  BY <1>4, <2>1, <2>2, <2>3
<1>7. CASE DomainErrorAnswered
  <2> DEFINE said == TranslateError(err, Lang, "auth")
  <2>1. err.kind \in {"base", "validation"} /\ Shown(err) = err
    BY <1>1, <1>7 DEF DomainErrorAnswered, IsDomain, IsError, Shown
  <2>2. answer' = [status |-> StatusCode(err.code), body |-> "error", error |-> said]
    BY <1>7, <2>1 DEF DomainErrorAnswered, Answered
  <2>3. /\ said.code = err.code
        /\ \A f \in said.fields : IsSaid(f)
        /\ NamesOf(said.fields) = NamesOf(err.fields)
        /\ Said(said.fields) = Said(err.fields)
    <3>1. \A f \in err.fields : IsRaw(f) => f.message.id \in Messages("auth", Matched(Lang))
      BY TextsAreThere DEF IsRaw
    <3>2. \A f \in err.fields :
            \/ IsRaw(f) /\ f.message.id \in Messages("auth", Matched(Lang))
            \/ IsSaid(f)
      BY <1>1, <3>1
    <3>3. err = Error(err.kind, err.code, err.fields)
      BY <1>1 DEF IsError
    <3>4. Matched(Lang) = Speaker
      BY DEF Speaker
    <3> HIDE DEF said
    <3>5. \A x : x = TranslateError(err, Lang, "auth") =>
            /\ x.code = err.code
            /\ \A f \in x.fields : IsSaid(f)
            /\ NamesOf(x.fields) = NamesOf(err.fields)
            /\ Said(x.fields) = Said(err.fields)
      BY <3>2, <3>3, <3>4, ErrorTranslated
    <3> QED  BY <3>5 DEF said
  <2> HIDE DEF said
  <2>4. answer'.status = StatusCode(err.code) /\ answer'.error = said
    BY <2>2
  <2>5. StatusTellsTheFault'
    <3>1. born' = born /\ born.fault = Fault(err)
      BY <1>0, <1>1 DEF Speaks
    <3>2. CASE err.kind = "base"
      <4>1. err.code = "internalError"
        BY <1>1, <3>2 DEF IsError
      <4> QED  BY <1>0, <2>4, <3>1, <3>2, <4>1 DEF StatusTellsTheFault, StatusCode, Fault
    <3>3. CASE err.kind = "validation"
      <4>1. err.code \in {"invalidCode", "codeExpired", "validationError"}
        BY <1>1, <3>3 DEF IsError
      <4> QED  BY <1>0, <2>4, <3>1, <3>3, <4>1 DEF StatusTellsTheFault, StatusCode, Fault
    <3> QED  BY <2>1, <3>2, <3>3
  <2>6. FieldsReachTheClient'
    BY <1>0, <1>1, <2>3, <2>4 DEF FieldsReachTheClient, Speaks, Said, IsSaid
  <2>7. BadFieldsAreNamed'
    <3> SUFFICES ASSUME said.code = "validationError"
                 PROVE  NamesOf(said.fields) =
                          {NameInAnswer(f) : f \in {g \in DOMAIN body : body[g] \notin Accepted(g)}}
      BY <1>0, <2>4 DEF BadFieldsAreNamed, NamesOf, NameInAnswer, Accepted
    <3> QED  BY <1>1, <2>3, BodyErrorsNameBadFields DEF Speaks, RequestArrived
  <2>8. FieldsSpeakTheLanguage'
    BY <1>0, <2>3, <2>4 DEF FieldsSpeakTheLanguage, IsSaid, Speaker, Matched, Lang
  <2> QED  BY <2>5, <2>6, <2>7, <2>8
<1> QED  BY <1>5, <1>6, <1>7

(* Each step bears an error, sends it on or answers it. *)
LEMMA NextIInv == IInv /\ [Next]_vars => IInv'
<1> SUFFICES ASSUME IInv, [Next]_vars PROVE IInv'
  OBVIOUS
<1>1. CASE UNCHANGED vars
  <2>1. UNCHANGED <<endpoint, header, body, at, rpc, err, born, answer>>
    BY <1>1 DEF vars
  <2>2. RequestArrived' /\ UserErrorsAreRaw'
    BY <2>1 DEF IInv, RequestArrived, UserErrorsAreRaw, IsRaw
  <2>3. ErrorsSpeakTrue'
    BY <2>1 DEF IInv, ErrorsSpeakTrue, IsError, Speaks
  <2>4. MessagesAreRawOrSaid'
    BY <2>1 DEF IInv, MessagesAreRawOrSaid, IsRaw, IsSaid, Speaker, Lang
  <2>5. StatusTellsTheFault' /\ FieldsReachTheClient'
    BY <2>1 DEF IInv, StatusTellsTheFault, FieldsReachTheClient
  <2>6. BadFieldsAreNamed'
    BY <2>1 DEF IInv, BadFieldsAreNamed, Accepted, NameInAnswer
  <2>7. FieldsSpeakTheLanguage'
    BY <2>1 DEF IInv, FieldsSpeakTheLanguage, Lang
  <2> QED  BY <2>1, <2>2, <2>3, <2>4, <2>5, <2>6, <2>7 DEF IInv
<1> QED  BY <1>1, BirthKeepsIInv, ReplyKeepsIInv, AnsweringKeepsIInv
         DEF Next, Terminating

(* So the invariant holds from the start. *)
LEMMA Invariance == Spec => []IInv
BY InitIInv, NextIInv, PTL DEF Spec

-----------------------------------------------------------------------------
(* The status of an answer says whose fault the error was, wherever it was  *)
(* born and however it travelled, and tells a body that cannot be parsed    *)
(* from a content type that is not known everywhere but on /refreshToken    *)
(* (base_error_handler.go:50-59, http_error_handler.go:13-25, map.go:8-29). *)
THEOREM TheStatusIsJust == Spec => []StatusTellsTheFault
<1>1. IInv => StatusTellsTheFault
  BY DEF IInv
<1> QED  BY <1>1, Invariance, PTL

(* The field errors an error was born with reach the client, all of them    *)
(* and no other, with the values they speak of (error.go:74-84).            *)
THEOREM NothingIsLostOnTheWay == Spec => []FieldsReachTheClient
<1>1. IInv => FieldsReachTheClient
  BY DEF IInv
<1> QED  BY <1>1, Invariance, PTL

(* A request refused for its body is told of exactly the fields that the    *)
(* rules do not accept as they came (account_grpc_service.go:31-40).        *)
THEOREM ExactlyTheBadFields == Spec => []BadFieldsAreNamed
<1>1. IInv => BadFieldsAreNamed
  BY DEF IInv
<1> QED  BY <1>1, Invariance, PTL

(* Every message of an answer is in the language of the client, also those  *)
(* that userMicro translated (http_error_handler.go:29-39,                  *)
(* account_grpc_service.go:172-180).                                        *)
THEOREM OneLanguagePerAnswer == Spec => []FieldsSpeakTheLanguage
<1>1. IInv => FieldsSpeakTheLanguage
  BY DEF IInv
<1> QED  BY <1>1, Invariance, PTL

=============================================================================
