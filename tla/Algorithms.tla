----------------------------- MODULE Algorithms -----------------------------
(***************************************************************************)
(* The pure functions of the SDK, each against a definition of what it is  *)
(* for.  They keep no state: a behaviour is a choice of one input, and the *)
(* invariants say what becomes of it.  If metadata is to be logged,        *)
(* criteria to be written or a response to be validated, the behaviour is  *)
(* that of Redaction, Criteria or Parsing, with the properties they have.  *)
(***************************************************************************)
EXTENDS Inputs, Redaction, Criteria, Parsing

CONSTANTS RecordsRead, \* [module, record]
          Configs,     \* [kind, config]
          SearchOptions

Renamed(x) == MapRecord(x.record, FieldMap(x.module))
ASSUME InputAssumption ==
  /\ \A x \in RecordsRead : /\ x.module \in {"Leads", "Contacts", "Deals"}
                            /\ {Fields(x.record), Fields(Renamed(x))} \subseteq Data
  /\ \A x \in Configs : /\ x.kind \in {"webhook", "update", "read", "write"}
                        /\ Fields(x.config) \in Data
  /\ DeclaredSchemas \subseteq Schemas

VARIABLE input

NothingToLog ==
  heap = [n \in Nodes |-> <<>>] /\ stack = <<>> /\ level = <<>> /\ shown = {}

NothingToWrite ==
  /\ values = <<>> /\ done = 0 /\ at = 0
  /\ reader = [colons |-> 0, escaped |-> FALSE, value |-> <<>>, values |-> <<>>]

NothingToParse ==
  /\ response = [schema |-> Unknown, value |-> Undefined, flag |-> "unset",
                  options |-> [enabled |-> "no", mode |-> "off", development |-> FALSE, warn |-> "no"]]
  /\ calls = <<>> /\ contexts = <<NewContext>> /\ verdict = TRUE

AlgorithmsInit ==
  \/ input = [about |-> "nothing"] /\ NothingToLog /\ NothingToWrite /\ NothingToParse
  \/ input = [about |-> "metadata"] /\ Init /\ NothingToWrite /\ NothingToParse
  \/ input = [about |-> "search"] /\ CriteriaInit /\ NothingToLog /\ NothingToParse
  \/ input = [about |-> "response"] /\ ParseInit /\ NothingToLog /\ NothingToWrite

Choose(what, x) ==
  /\ input' = [about |-> what, is |-> x]
  /\ UNCHANGED <<vars, criteriaVars, parseVars>>

Idle == input.about = "nothing"

TransformRecord == Idle /\ \E x \in RecordsRead : Choose("record", x)
ValidateConfig == Idle /\ \E x \in Configs : Choose("config", x)
PassOptions == Idle /\ \E x \in SearchOptions : Choose("options", x)

LogMetadata == Next /\ UNCHANGED <<input, criteriaVars, parseVars>>
BuildSearch == CriteriaNext /\ UNCHANGED <<input, vars, parseVars>>
ValidateResponse == ParseNext /\ UNCHANGED <<input, vars, criteriaVars>>

AlgorithmsNext ==
  \/ ValidateResponse \/ TransformRecord \/ ValidateConfig
  \/ PassOptions \/ LogMetadata \/ BuildSearch
AlgorithmsSpec == AlgorithmsInit /\ [][AlgorithmsNext]_<<input, vars, criteriaVars, parseVars>>

-----------------------------------------------------------------------------
\* With camel-case names a record that conforms to its module's schema still
\* does, and has none of Zoho's names left that the map renames.  A field whose
\* new name no other one takes is found under the map's name for it, under the
\* text of the member if every object inherits one of its name, or else under
\* the name it had.
CamelRecordsConform ==
  input.about = "record" =>
    LET map == FieldMap(input.is.module)
        before == input.is.record
        after == Renamed(input.is)
        ZohoNames == {map[c] : c \in DOMAIN map}
        Conform(record) == Conforms(RecordSchema(input.is.module), Fields(record), FALSE)
        Found(name, k) == name \in DOMAIN after /\ after[name] = before[k]
    IN  /\ Conform(before) => Conform(after)
        /\ \A k \in DOMAIN before :
             Unrivalled(before, map, k) =>
               /\ \A c \in DOMAIN map : map[c] = k => Found(c, k)
               /\ k \in Inherited \ ZohoNames => Found(SourceText[k], k)
               /\ k \notin ZohoNames \cup Inherited => Found(k, k)
        /\ DOMAIN after \cap ZohoNames \subseteq DOMAIN map

\* A configuration that the hand-written checks let through is what the schema
\* of webhooks takes, and has the type that src/types declares for it, exactly
\* if the method of the webhook (webhooks.ts:115 takes any string) and the
\* default values of field mappings (bulk.ts:230 does not look at them) have
\* theirs.  And a query passes on some of the parameters that list() does, all
\* of them exactly if no option it tests is falsy (page 0) and no order comes
\* without a field to order by.
InputsAreTakenAsDeclared ==
  /\ input.about = "config" =>
       LET c == input.is.config
           Is(type) == Conforms(type, Fields(c), FALSE)
       IN  CASE input.is.kind = "webhook" ->
                  ValidateWebhookConfig(c) =>
                    /\ Is(WebhookConfigSchema)
                    /\ Is(WebhookConfigType) <=> MethodIsDeclared(c)
             [] input.is.kind = "update" ->
                  ValidateWebhookUpdate(c) =>
                    /\ Is(Partial(WebhookConfigSchema))
                    /\ Is(Partial(WebhookConfigType)) <=> MethodIsDeclared(c)
             [] input.is.kind = "read" -> ValidateBulkReadConfig(c) => Is(BulkReadJobConfigType)
             [] input.is.kind = "write" ->
                  ValidateBulkWriteConfig(c) =>
                    (Is(BulkWriteJobConfigType) <=> DefaultsAreDeclared(c))
  /\ input.about = "options" =>
       LET o == input.is
           listed == ListParams(o)
           queried == QueryParams(o)
       IN  /\ \A p \in DOMAIN queried : p \in DOMAIN listed /\ queried[p] = listed[p]
           /\ queried = listed <=>
                /\ \A p \in DOMAIN listed \ {"fields"} : ~Falsy(listed[p])
                /\ Given(o, "sortOrder") => Given(o, "sortBy")
=============================================================================
