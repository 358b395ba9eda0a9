------------------------------- MODULE Inputs -------------------------------
(***************************************************************************)
(* What the modules of src/modules make of their arguments: the checks of  *)
(* src/utils/input-validation.ts and the configurations they let through,  *)
(* the parameters of list() and of the query builder, and the criteria of  *)
(* a search.                                                               *)
(*                                                                         *)
(* A configuration is a function from the keys it has to values of Schema. *)
(***************************************************************************)
EXTENDS Records

\* The strings that trim() leaves empty.
Blank == {"", " "}
Get(config, key) == IF key \in DOMAIN config THEN config[key] ELSE Undefined

\* assertNonEmptyString() and its kin, as what they let through.
NonEmptyString(v) == v.type = "string" /\ v.val \notin Blank
PlainObject(v) == v.type = "object"
NonEmptyObject(v) == PlainObject(v) /\ DOMAIN v.fields # {}
OptionalNumber(v) == v.type = "undefined" \/ IsNumber(v)
OptionalBoolean(v) == v.type \in {"undefined", "boolean"}
OptionalString(v) == v.type = "undefined" \/ NonEmptyString(v)
\* An array whose entries nobody looks at.
AnyArray(v) == v.type = "array"
StringArray(v) == v.type = "array" /\ \A i \in DOMAIN v.items : NonEmptyString(v.items[i])
OptionalStringArray(v) == v.type = "undefined" \/ StringArray(v)
OptionalRecordOfStrings(v) ==
  \/ v.type = "undefined"
  \/ v.type = "object" /\ \A k \in DOMAIN v.fields : v.fields[k].type = "string"
OneOf(v, allowed) == v.type = "string" /\ v.val \in allowed
OptionalEnum(v, allowed) == v.type = "undefined" \/ OneOf(v, allowed)

-----------------------------------------------------------------------------
(* Webhooks.                                                               *)

StringOf(allowed) == Union([i \in 1..Len(allowed) |-> Literal(Scalar("string", allowed[i]))])

\* What src/types/webhooks.ts declares: what the schema asks for, with four
\* verbs for the method.
WebhookConfigType ==
  [WebhookConfigSchema EXCEPT
     !.shape["httpMethod"] = Optional(StringOf(<<"GET", "POST", "PUT", "PATCH">>))]

ValidateWebhookConfig(c) ==
  /\ DOMAIN c # {}
  /\ \A k \in {"name", "url", "module"} : NonEmptyString(Get(c, k))
  /\ StringArray(Get(c, "events"))
  /\ \A k \in {"description", "httpMethod", "channel"} : OptionalString(Get(c, k))
  /\ OptionalRecordOfStrings(Get(c, "parameters"))

ValidateWebhookUpdate(c) ==
  /\ DOMAIN c # {}
  /\ \A k \in {"name", "url", "module", "description", "httpMethod", "channel"} :
       OptionalString(Get(c, k))
  /\ OptionalStringArray(Get(c, "events"))
  /\ OptionalRecordOfStrings(Get(c, "parameters"))

\* An update may leave out what a configuration must have.
Partial(s) == [s EXCEPT !.shape = [k \in DOMAIN @ |-> Optional(@[k])]]

\* Nothing checks that the method is one of the declared verbs, ...
MethodIsDeclared(c) == OptionalEnum(Get(c, "httpMethod"), {"GET", "POST", "PUT", "PATCH"})

-----------------------------------------------------------------------------
(* Bulk jobs.                                                              *)

ValidateBulkCallback(v) ==
  /\ NonEmptyObject(v)
  /\ NonEmptyString(Get(v.fields, "url"))
  /\ OptionalEnum(Get(v.fields, "method"), {"post", "get"})

ValidateBulkReadConfig(c) ==
  /\ NonEmptyString(Get(c, "module"))
  /\ OptionalStringArray(Get(c, "fields"))
  /\ OptionalNumber(Get(c, "page")) /\ OptionalNumber(Get(c, "perPage"))
  /\ OptionalEnum(Get(c, "fileType"), {"csv", "ics"})
  /\ Get(c, "criteria").type # "undefined" => NonEmptyObject(c.criteria)
  /\ Get(c, "callback").type # "undefined" => ValidateBulkCallback(c.callback)

ValidateFieldMapping(v) ==
  /\ NonEmptyObject(v)
  /\ NonEmptyString(Get(v.fields, "apiName"))
  /\ OptionalNumber(Get(v.fields, "index"))

ValidateBulkWriteConfig(c) ==
  /\ OneOf(Get(c, "operation"), {"insert", "update", "upsert", "delete"})
  /\ NonEmptyString(Get(c, "module")) /\ NonEmptyString(Get(c, "fileId"))
  /\ OptionalString(Get(c, "findBy")) /\ OptionalBoolean(Get(c, "ignoreEmpty"))
  /\ OptionalString(Get(c, "characterEncoding"))
  /\ Get(c, "callback").type # "undefined" => ValidateBulkCallback(c.callback)
  /\ Get(c, "fieldMappings").type # "undefined" =>
       /\ c.fieldMappings.type = "array"
       /\ \A i \in DOMAIN c.fieldMappings.items : ValidateFieldMapping(c.fieldMappings.items[i])

\* ... nor that the default value of a field mapping is of a declared type.
DefaultIsDeclared(v) ==
  LET value == Get(v.fields, "defaultValue")
  IN  OptionalNumber(value) \/ value.type \in {"string", "boolean"}
DefaultsAreDeclared(c) ==
  Get(c, "fieldMappings").type # "undefined" =>
    \A i \in DOMAIN c.fieldMappings.items : DefaultIsDeclared(c.fieldMappings.items[i])

\* The types that src/types/bulk.ts declares for them, as schemas, to which NaN
\* is no number.
BulkCallbackType ==
  With([url |-> Str], [method |-> Optional(StringOf(<<"post", "get">>))])
BulkReadJobConfigType ==
  With([module |-> Str],
       [fields |-> Optional(ArrayOf(Str)), page |-> Optional(Num), perPage |-> Optional(Num),
        criteria |-> Optional(RecordOf(Unknown)), callback |-> Optional(BulkCallbackType),
        fileType |-> Optional(StringOf(<<"csv", "ics">>))])
BulkWriteFieldMappingType ==
  With([apiName |-> Str],
       [index |-> Optional(Num), defaultValue |-> Optional(Union(<<Str, Num, Bool>>))])
BulkWriteJobConfigType ==
  With([operation |-> StringOf(<<"insert", "update", "upsert", "delete">>),
        module |-> Str, fileId |-> Str],
       [findBy |-> Optional(Str), characterEncoding |-> Optional(Str),
        ignoreEmpty |-> Optional(Bool), callback |-> Optional(BulkCallbackType),
        fieldMappings |-> Optional(ArrayOf(BulkWriteFieldMappingType))])

\* The schemas that records and configurations are held against.
DeclaredSchemas ==
  {LeadSchema, ContactSchema, DealSchema,
   WebhookConfigSchema, Partial(WebhookConfigSchema),
   WebhookConfigType, Partial(WebhookConfigType),
   BulkReadJobConfigType, BulkWriteJobConfigType}

-----------------------------------------------------------------------------
(* Parameters.  Options are functions from the option names given; page 0  *)
(* and the empty string are falsy.                                         *)

Falsy(x) == x \in {"0", ""}
Given(o, key) == key \in DOMAIN o
Truthy(o, key) == Given(o, key) /\ ~Falsy(o[key])

OptionOf ==
  [page |-> "page", per_page |-> "perPage", sort_by |-> "sortBy",
   sort_order |-> "sortOrder", fields |-> "fields"]
Params(o, names) == [p \in names |-> o[OptionOf[p]]]

\* BaseModule.list(): what is given is passed on.
ListParams(o) == Params(o, {p \in DOMAIN OptionOf : Given(o, OptionOf[p])})

\* LeadQueryBuilder.applyOptions() on a fresh builder, and execute(): an
\* order goes with the field it orders by.
QueryParams(o) ==
  Params(o, {p \in DOMAIN OptionOf :
               /\ IF p = "fields" THEN Given(o, "fields") ELSE Truthy(o, OptionOf[p])
               /\ p = "sort_order" => Truthy(o, "sortBy")})

=============================================================================
