------------------------------ MODULE Parsing -------------------------------
(***************************************************************************)
(* validateSchema() of src/validation/schema.ts, call by call.  A parser   *)
(* pushes its issues and the unknown fields it meets onto a context that   *)
(* the parsers of the parts share; arrays, records and objects take their  *)
(* verdict from that context, so from the issues of everything parsed      *)
(* before them too, and only a union gives its alternatives contexts of    *)
(* their own, which end with them.                                         *)
(*                                                                         *)
(* Issues are sets of what was expected, unknown fields sets of keys:      *)
(* their paths, order and wording are left out.                            *)
(***************************************************************************)
EXTENDS Schema

CONSTANT Responses  \* [schema, value, options, flag]

ValidationOptions ==
  [enabled : {"unset", "yes", "no"}, mode : {"unset", "off", "strict", "permissive"},
   development : BOOLEAN, warn : {"unset", "yes", "no"}]
ASSUME ResponseAssumption ==
  Responses \subseteq [schema : Schemas, value : Data, options : ValidationOptions,
                      flag : {"unset", "yes", "no"}]

VARIABLES response,
          calls,     \* activations of _parse(), the innermost last
          contexts,  \* contexts in use, the innermost last
          verdict    \* what the last of them to return has returned

parseVars == <<response, calls, contexts, verdict>>

Options == NormalizeOptions(ApplyValidationFeatureFlags(response.options, response.flag))
Off == ~Options.enabled \/ Options.mode = "off"
Strict == Options.mode = "strict"

NewContext == [issues |-> {}, unknown |-> {}]

\* The phase of an activation: "called", "parts" between two parts, "part"
\* while the part `now' is parsed.
Call(s, v, c) ==
  [schema |-> s, value |-> v, ctx |-> c, phase |-> "called", todo |-> {}, now |-> "none"]
In == calls[Len(calls)]
Becomes(a) == [calls EXCEPT ![Len(calls)] = a]

ParseInit ==
  /\ response \in Responses
  /\ calls = IF Off THEN <<>> ELSE <<Call(response.schema, response.value, 1)>>
  /\ contexts = <<NewContext>>
  /\ verdict = Off

-----------------------------------------------------------------------------
(* The parts of a value, each with its schema.                             *)

Scalars == {"string", "number", "boolean", "literal", "unknown"}

Parts(s, v) ==
  CASE s.kind = "array" -> DOMAIN v.items
    [] s.kind = "record" -> DOMAIN v.fields
    [] s.kind = "object" -> DOMAIN s.shape
    [] s.kind = "union" -> DOMAIN s.of
PartSchema(s, k) ==
  CASE s.kind = "object" -> s.shape[k] [] s.kind = "union" -> s.of[k] [] OTHER -> s.item
PartValue(s, v, k) ==
  CASE s.kind = "union" -> v [] s.kind = "array" -> v.items[k] [] OTHER -> v.fields[k]

\* Entries come in their order, alternatives too, keys in any.
IsNext(k) ==
  /\ In.phase = "parts" /\ k \in In.todo
  /\ In.schema.kind \in {"array", "union"} => \A j \in In.todo : k <= j
IsMissing(k) == In.schema.kind = "object" /\ k \notin DOMAIN In.value.fields

\* What a value must be before its parts matter.
Fits(s, v) ==
  \/ s.kind \in {"unknown", "union"}
  \/ s.kind \in {"string", "boolean", "array"} /\ v.type = s.kind
  \/ s.kind = "number" /\ IsNumber(v)
  \/ s.kind = "literal" /\ v = s.value
  \/ s.kind \in {"record", "object"} /\ v.type = "object"

-----------------------------------------------------------------------------
Issues(what) == [contexts EXCEPT ![In.ctx].issues = @ \cup what]
Gives(ok) == verdict' = ok /\ calls' = SubSeq(calls, 1, Len(calls) - 1)

\* optional() and nullable() do not call the parser they wrap.
LetsThrough ==
  /\ calls # <<>> /\ In.phase = "called" /\ Excused(In.schema, In.value)
  /\ Gives(TRUE) /\ UNCHANGED <<response, contexts>>

Refuses ==
  /\ calls # <<>> /\ In.phase = "called"
  /\ ~Excused(In.schema, In.value) /\ ~Fits(In.schema, In.value)
  /\ contexts' = Issues({In.schema.kind})
  /\ Gives(FALSE) /\ UNCHANGED response

Takes ==
  /\ calls # <<>> /\ In.phase = "called"
  /\ ~Excused(In.schema, In.value) /\ Fits(In.schema, In.value)
  /\ In.schema.kind \in Scalars
  /\ Gives(TRUE) /\ UNCHANGED <<response, contexts>>

Opens ==
  /\ calls # <<>> /\ In.phase = "called"
  /\ ~Excused(In.schema, In.value) /\ Fits(In.schema, In.value)
  /\ In.schema.kind \notin Scalars
  /\ calls' = Becomes([In EXCEPT !.phase = "parts", !.todo = Parts(In.schema, In.value)])
  /\ UNCHANGED <<response, contexts, verdict>>

\* A key of the shape that the value does not have is not parsed.
Misses(k) ==
  /\ calls # <<>> /\ IsNext(k) /\ IsMissing(k)
  /\ contexts' = IF In.schema.shape[k].optional THEN contexts
                 ELSE Issues({In.schema.shape[k].kind})
  /\ calls' = Becomes([In EXCEPT !.todo = @ \ {k}])
  /\ UNCHANGED <<response, verdict>>

OwnContext == In.ctx                             \* mutant: alternatives share it
\* createChildContext().
ChildContext == In.ctx + 1

Parses(k) ==
  /\ calls # <<>> /\ IsNext(k) /\ ~IsMissing(k)
  /\ LET union == In.schema.kind = "union"
     IN  /\ contexts' = IF union THEN Append(contexts, NewContext) ELSE contexts
         /\ calls' = Append(Becomes([In EXCEPT !.phase = "part", !.todo = @ \ {k}, !.now = k]),
                            Call(PartSchema(In.schema, k), PartValue(In.schema, In.value, k),
                                 IF union THEN ChildContext ELSE In.ctx))
  /\ UNCHANGED <<response, verdict>>

\* Nobody but a union looks at the verdict on a part; its first alternative
\* that succeeds makes it succeed, and what the alternative reported is gone.
PartParsed ==
  /\ calls # <<>> /\ In.phase = "part"
  /\ contexts' = SubSeq(contexts, 1, In.ctx)
  /\ IF In.schema.kind = "union" /\ verdict
     THEN Gives(TRUE)
     ELSE calls' = Becomes([In EXCEPT !.phase = "parts"]) /\ UNCHANGED verdict
  /\ UNCHANGED response

NoneFits ==
  /\ calls # <<>> /\ In.phase = "parts" /\ In.todo = {} /\ In.schema.kind = "union"
  /\ contexts' = Issues({"union"})
  /\ Gives(FALSE) /\ UNCHANGED response

\* The keys the shape does not know are issues or, if asked for, reported.
JudgeExtra ==
  LET extra == IF In.schema.kind = "object" THEN Extra(In.schema, In.value) ELSE {}
  IN  IF extra # {} /\ Rejects(In.schema, Strict) THEN Issues({"unknown key"})
      ELSE IF Options.warn THEN [contexts EXCEPT ![In.ctx].unknown = @ \cup extra]
      ELSE contexts

Concludes ==
  /\ calls # <<>> /\ In.phase = "parts" /\ In.todo = {} /\ In.schema.kind # "union"
  /\ contexts' = JudgeExtra
  /\ Gives(contexts'[In.ctx].issues = {}) /\ UNCHANGED response

ParseNext ==
  \/ LetsThrough \/ Refuses \/ Takes \/ Opens \/ PartParsed \/ NoneFits \/ Concludes
  \/ calls # <<>> /\ \E k \in In.todo : Misses(k) \/ Parses(k)
ParseSpec == ParseInit /\ [][ParseNext]_parseVars

-----------------------------------------------------------------------------
(* Properties.                                                             *)

\* A response passes validation if and only if it conforms to its schema,
\* although arrays, records and objects take their verdict from a context
\* that holds the issues of everything parsed before them; every unknown
\* key outside a union is among those the context collects if the options
\* say so; and with the flag strictTypeValidation set to false nothing is
\* validated strictly.
ParseAgrees ==
  calls = <<>> =>
    LET s == response.schema
        v == response.value
    IN  /\ verdict = (Off \/ Conforms(s, v, Strict))
        /\ verdict = (contexts[1].issues = {})
        /\ contexts[1].unknown =
             IF Options.mode = "permissive" /\ Options.warn THEN UnknownKeys(s, v) ELSE {}
        /\ response.flag = "no" => Options.mode # "strict"
=============================================================================
