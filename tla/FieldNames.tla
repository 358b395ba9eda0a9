----------------------------- MODULE FieldNames -----------------------------
(***************************************************************************)
(* src/utils/field-mapping.ts: the renaming of the fields of a record from *)
(* the names Zoho has for them to camel-case names.                        *)
(***************************************************************************)
EXTENDS Schema

FieldMapItself(map) == map                       \* mutant: not inverted
InvertFieldMap(map) ==
  [raw \in {map[c] : c \in DOMAIN map} |-> CHOOSE c \in DOMAIN map : map[c] = raw]

\* What an inherited member reads as when it is made a name.
SourceText ==
  [constructor |-> "function Object() { [native code] }",
   toString |-> "function toString() { [native code] }"]
SourceTexts == {SourceText[k] : k \in Inherited}

\* The map is an object, and an index finds what it inherits too.
NewName(inverse, key) ==
  CASE key \in DOMAIN inverse -> inverse[key]
    [] key \in Inherited \ DOMAIN inverse -> SourceText[key]
    [] OTHER -> key

\* mapRecord() with style "camel": the later of two fields that come to the
\* same name stays; records are compared without an order of their fields,
\* so it may be either.
MapRecord(record, map) ==
  LET inverse == InvertFieldMap(map)
  IN  [name \in {NewName(inverse, k) : k \in DOMAIN record} |->
         record[CHOOSE k \in DOMAIN record : NewName(inverse, k) = name]]

\* No other field of the record takes the new name of this one.
Unrivalled(record, map, k) ==
  \A j \in DOMAIN record \ {k} :
    NewName(InvertFieldMap(map), j) # NewName(InvertFieldMap(map), k)
=============================================================================
