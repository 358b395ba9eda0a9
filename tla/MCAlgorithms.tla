---------------------------- MODULE MCAlgorithms ----------------------------
(* The inputs on which TLC compares the functions with their definitions. *)
EXTENDS Algorithms, SequencesExt

Simple == {Scalar("string", "x"), Scalar("number", "1"), Scalar("number", "NaN"), Null}
Two == {Scalar("string", "x"), Scalar("number", "1")}
Flat == Simple \cup {Items(<<v>>) : v \in Simple}
            \cup {Fields(f) : f \in [{"a"} -> Simple] \cup [{"a", "b"} -> Simple]
                                    \cup [{"b", "constructor"} -> Two] \cup {[k \in {} |-> Null]}}
Pairs == {Fields(f) : f \in [{"a"} -> {Scalar("string", "x"), Null}] \cup [{"a", "b"} -> {Scalar("number", "1")}]}
Answers == Flat \cup {Items(<<v, w>>) : v, w \in Pairs \cup Two}
                 \cup {Fields(k :> v) : k \in {"a", "b"}, v \in Flat} \cup {Undefined}

Small == {Str, Num, Literal(Scalar("string", "x")), Unknown, Nullable(Str), Union(<<Num, Str>>)}
Shapes == {Object("a" :> s, k) : s \in Small, k \in {"passthrough", "error"}}
            \cup {Object(("a" :> s) @@ ("b" :> Optional(Num)), "passthrough") : s \in {Str, Unknown}}
Asked == Small \cup Shapes \cup {ArrayOf(s) : s \in Small \cup Shapes}
               \cup {RecordOf(s) : s \in Small \cup Shapes}
               \cup {Union(<<s, t>>) : s, t \in {Str, ArrayOf(Num), Object("a" :> Num, "error"),
                                                Object("a" :> Unknown, "passthrough")}}
               \cup {Object("a" :> Union(<<Object("a" :> Num, "error"), s>>), "passthrough") : s \in Shapes}
               \cup {Optional(Object("a" :> Unknown, k)) : k \in {"passthrough", "error"}}

Opts(enabled, mode, development, warn) ==
  [enabled |-> enabled, mode |-> mode, development |-> development, warn |-> warn]
MCResponses ==
  [schema : Asked, value : Answers, flag : {"unset"},
   options : {Opts("yes", "strict", FALSE, "unset"), Opts("unset", "permissive", FALSE, "yes")}]
  \cup [schema : {Object("a" :> Str, "passthrough")}, flag : {"unset", "yes", "no"},
        value : {Fields(k :> v) : k \in {"a", "b"}, v \in Simple},
        options : {Opts(e, m, d, w) : e \in {"unset", "yes", "no"}, d \in BOOLEAN,
                     m \in {"unset", "off", "strict", "permissive"}, w \in {"unset", "yes", "no"}}]

\* Up to two of the fields Zoho knows, or of others, with or without an id.
Raw(module) == {FieldMap(module)[c] : c \in DOMAIN FieldMap(module)}
MCRecordsRead ==
  UNION {{[module |-> m, record |-> [k \in ks |-> IF k = "id" THEN i ELSE v]] :
            ks \in {K \cup J : K \in {{j, k} : j, k \in Raw(m) \cup {"Custom_Field", "email", "name"} \cup Inherited},
                               J \in {{}, {"id"}}},
            i \in {Scalar("string", "1"), Scalar("number", "1")}, v \in Two \cup {Null}} :
         m \in {"Leads", "Contacts", "Deals"}}

Some(x) == Scalar("string", x)
Odd == Simple \cup {Some(""), Some("insert"), Some("csv"), Some("post"), Some("GET"), Undefined, Scalar("boolean", "true"),
                    Items(<<>>), Items(<<Some("x"), Null>>), Items(<<Fields("apiName" :> Some("x"))>>),
                    Items(<<Fields(("apiName" :> Some("x")) @@ ("index" :> Some("x")))>>),
                    Items(<<Fields("apiName" :> Some("x")), Fields(("apiName" :> Some("x")) @@ ("defaultValue" :> Null))>>),
                    Items(<<Fields(("apiName" :> Some("x")) @@ ("defaultValue" :> Scalar("number", "1")))>>),
                    Fields([k \in {} |-> Null]), Fields("url" :> Some("x")), Fields("url" :> Null),
                    Fields(("url" :> Some("x")) @@ ("method" :> Some("put")))}
Valid(kind) ==
  CASE kind \in {"webhook", "update"} ->
         ("name" :> Some("x")) @@ ("url" :> Some("x")) @@ ("module" :> Some("x"))
         @@ ("events" :> Items(<<Some("x")>>))
    [] kind = "read" -> "module" :> Some("x")
    [] kind = "write" ->
         ("operation" :> Some("insert")) @@ ("module" :> Some("x")) @@ ("fileId" :> Some("x"))
KeysOf(kind) ==
  CASE kind \in {"webhook", "update"} -> DOMAIN WebhookConfigSchema.shape
    [] kind = "read" -> DOMAIN BulkReadJobConfigType.shape
    [] kind = "write" -> DOMAIN BulkWriteJobConfigType.shape
Changed(c, k, v) == (k :> v) @@ c
Without(c, k) == [j \in DOMAIN c \ {k} |-> c[j]]
MCConfigs ==
  UNION {LET c == Valid(kind)
         IN  {[kind |-> kind, config |-> x] :
                x \in {Without(c, k) : k \in DOMAIN c}
                      \cup {Changed(Changed(c, j, u), k, v) :
                              j, k \in KeysOf(kind), u \in Odd, v \in {Some("x"), Fields("url" :> Some("x"))}}} :
         kind \in {"webhook", "update", "read", "write"}}

\* Schemas and values with all they are made of, which are four deep at most.
WithParts(ss) ==
  ss \cup UNION {CASE s.kind \in {"array", "record"} -> {s.item}
                   [] s.kind = "union" -> {s.of[i] : i \in DOMAIN s.of}
                   [] s.kind = "object" -> {s.shape[k] : k \in DOMAIN s.shape}
                   [] OTHER -> {} : s \in ss}
WithContents(vs) ==
  vs \cup UNION {CASE v.type = "array" -> {v.items[i] : i \in DOMAIN v.items}
                   [] v.type = "object" -> {v.fields[k] : k \in DOMAIN v.fields}
                   [] OTHER -> {} : v \in vs}
PartsAsked == WithParts(WithParts(WithParts(WithParts(Asked \cup DeclaredSchemas))))
Contents ==
  WithContents(WithContents(WithContents(Answers \cup Odd \cup {Some("1"), Items(<<Some("x")>>)})))
InUse ==
  {v \in Contents \cup [type : {"object"}, fields : {x.record : x \in MCRecordsRead}]
                   \cup [type : {"object"}, fields : {Renamed(x) : x \in MCRecordsRead}]
                   \cup [type : {"object"}, fields : {x.config : x \in MCConfigs}] : TRUE}
MCSchemas == PartsAsked
MCData == InUse

MCChars == {"x", "(", ")", ":", "\\"}
MCSearches == BoundedSeq([string : BOOLEAN, text : BoundedSeq(MCChars, 2)], 2)
MCSearchOptions ==
  UNION {[ks -> {"", "0", "1", "x"}] : ks \in SUBSET {"page", "perPage", "sortBy", "sortOrder", "fields"}}

\* Three objects to log, of at most two, two and one entries, whose leaves
\* say where they are from.
MCNodes == 1 .. 3
MCLeaves == MCNodes \X (1 .. 2)
EntriesOf(n, i) == [key : Keys, value : {Leaf(<<n, i>>)} \cup {Node(m) : m \in MCNodes}]
AtMostOne(n) == {<<>>} \cup {<<e>> : e \in EntriesOf(n, 1)}
AtMostTwo(n) == AtMostOne(n) \cup {<<e, f>> : e \in EntriesOf(n, 1), f \in EntriesOf(n, 2)}
MCHeaps == {<<a, b, c>> : a \in AtMostTwo(1), b \in AtMostTwo(2), c \in AtMostOne(3)}
=============================================================================
