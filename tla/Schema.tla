------------------------------- MODULE Schema -------------------------------
(***************************************************************************)
(* src/validation: the combinators a response schema is made of, the       *)
(* options of a validation, and what a schema means: Conforms() says which *)
(* values a schema takes, UnknownKeys() which keys it does not know, both  *)
(* without any of the state of a parse, which is in Parsing.               *)
(*                                                                         *)
(* A value is a record with its type; `undefined' is the type of an absent *)
(* value.  A key that every object inherits, such as `constructor', is     *)
(* found in any shape by the operator `in', and in any map by an index.    *)
(***************************************************************************)
EXTENDS Naturals, Sequences

CONSTANTS Schemas,  \* the schemas there are, with all those they are made of
          Data      \* the values there are, with all those in them

Scalar(t, x) == [type |-> t, val |-> x]
Null == [type |-> "null"]
Undefined == [type |-> "undefined"]
Items(s) == [type |-> "array", items |-> s]
Fields(f) == [type |-> "object", fields |-> f]
IsNumber(v) == v.type = "number" /\ v.val # "NaN"

\* Two of them; the others are alike.
Inherited == {"constructor", "toString"}

Kinds == {"string", "number", "boolean", "literal", "unknown", "array", "record",
          "object", "union"}
ASSUME SchemaAssumption ==
  /\ \A s \in Schemas :
       /\ s.kind \in Kinds /\ s.optional \in BOOLEAN /\ s.nullable \in BOOLEAN
       /\ s.kind \in {"array", "record"} => s.item \in Schemas
       /\ s.kind = "union" => s.of \in Seq(Schemas)
       /\ s.kind = "object" => /\ \A k \in DOMAIN s.shape : s.shape[k] \in Schemas
                              /\ DOMAIN s.shape \cap Inherited = {}
  /\ \A v \in Data :
       /\ v.type = "string" => v = Scalar("string", v.val)
       /\ v.type = "array" => v.items \in Seq(Data)
       /\ v.type = "object" => \A k \in DOMAIN v.fields : v.fields[k] \in Data

-----------------------------------------------------------------------------
(* Schemas.                                                                *)

Kind(k) == [kind |-> k, optional |-> FALSE, nullable |-> FALSE]
Str == Kind("string")
Num == Kind("number")
Bool == Kind("boolean")
Unknown == Kind("unknown")
Literal(v) == [kind |-> "literal", optional |-> FALSE, nullable |-> FALSE, value |-> v]
ArrayOf(s) == [kind |-> "array", optional |-> FALSE, nullable |-> FALSE, item |-> s]
RecordOf(s) == [kind |-> "record", optional |-> FALSE, nullable |-> FALSE, item |-> s]
\* unknownKeys is "passthrough" or "error".
Object(shape, unknownKeys) ==
  [kind |-> "object", optional |-> FALSE, nullable |-> FALSE,
   shape |-> shape, unknownKeys |-> unknownKeys]
Union(ss) == [kind |-> "union", optional |-> FALSE, nullable |-> FALSE, of |-> ss]
Optional(s) == [s EXCEPT !.optional = TRUE]
Nullable(s) == [s EXCEPT !.nullable = TRUE]

\* An extra key of an object is an error in strict mode or if the schema
\* says so.
Extra(s, v) == DOMAIN v.fields \ (DOMAIN s.shape \cup Inherited)
Rejects(s, strict) == strict \/ s.unknownKeys = "error"

\* What an optional or a nullable schema lets through.
Excused(s, v) ==
  \/ s.optional /\ v.type = "undefined"
  \/ s.nullable /\ v.type = "null"

-----------------------------------------------------------------------------
(* Options.  An option left out is "unset".                                *)

Or(option, default) == IF option = "unset" THEN default ELSE option

\* feature-flags.ts: the flag strictTypeValidation = "no" makes the mode
\* permissive, and turns validation on that was off by its mode alone.
ApplyValidationFeatureFlags(o, strictFlag) ==
  IF strictFlag # "no" THEN o
  ELSE [o EXCEPT !.enabled = Or(@, "yes"), !.mode = "permissive"]

NormalizeOptions(o) ==
  LET enabled == Or(o.enabled, IF o.mode # "off" THEN "yes" ELSE "no")
  IN  [enabled |-> enabled = "yes",
       mode |-> IF enabled = "yes"
                THEN Or(o.mode, IF o.development THEN "permissive" ELSE "strict")
                ELSE "off",
       warn |-> Or(o.warn, IF o.development THEN "yes" ELSE "no") = "yes"]

-----------------------------------------------------------------------------
(* What a schema means.                                                    *)

\* What it says of a value, if c says it of their parts.
Judges(c, s, v, strict) ==
  \/ Excused(s, v)
  \/ s.kind = "unknown"
  \/ s.kind \in {"string", "boolean"} /\ v.type = s.kind
  \/ s.kind = "number" /\ IsNumber(v)
  \/ s.kind = "literal" /\ v = s.value
  \/ s.kind = "union" /\ \E i \in DOMAIN s.of : c[<<s.of[i], v>>]
  \/ /\ s.kind = "array" /\ v.type = "array"
     /\ \A i \in DOMAIN v.items : c[<<s.item, v.items[i]>>]
  \/ /\ s.kind = "record" /\ v.type = "object"
     /\ \A k \in DOMAIN v.fields : c[<<s.item, v.fields[k]>>]
  \/ /\ s.kind = "object" /\ v.type = "object"
     /\ \A k \in DOMAIN s.shape :
          IF k \in DOMAIN v.fields THEN c[<<s.shape[k], v.fields[k]>>] ELSE s.shape[k].optional
     /\ Rejects(s, strict) => Extra(s, v) = {}

Conforms(s, v, strict) ==
  LET c[p \in Schemas \X Data] == Judges(c, p[1], p[2], strict)
  IN  c[<<s, v>>]

\* The keys that objects outside unions have and their schemas do not know,
\* if u has those of their parts.
Unknowns(u, s, v) ==
  CASE s.kind = "array" /\ v.type = "array" -> UNION {u[<<s.item, v.items[i]>>] : i \in DOMAIN v.items}
    [] s.kind = "record" /\ v.type = "object" ->
         UNION {u[<<s.item, v.fields[k]>>] : k \in DOMAIN v.fields}
    [] s.kind = "object" /\ v.type = "object" ->
         (IF s.unknownKeys = "error" THEN {} ELSE Extra(s, v))
         \cup UNION {u[<<s.shape[k], v.fields[k]>>] : k \in DOMAIN s.shape \cap DOMAIN v.fields}
    [] OTHER -> {}

UnknownKeys(s, v) ==
  LET u[p \in Schemas \X Data] == Unknowns(u, p[1], p[2])
  IN  u[<<s, v>>]
=============================================================================
