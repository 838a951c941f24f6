----------------------------- MODULE MCPipeline -----------------------------
EXTENDS SchemaPipeline

Str(s) == [t |-> "Str", s |-> s]
Obj(f) == [t |-> "Obj", fields |-> f]
Arr(f) == [t |-> "Arr", items |-> f]
Bool(v) == [t |-> "Bool", b |-> v]
Null == [t |-> "Null"]
Token(n, frac) ==
    [t |-> "Num", neg |-> n < 0, int |-> IF n = 0 THEN <<0>> ELSE DecimalDigits(Magnitude(n)), frac |-> frac, exp |-> <<>>]
Num(n) == Token(n, <<>>)
(* A schema of one keyword. *)
Kw(key, value) == << <<key, value>> >>
Of(type) == Obj(Kw("type", Str(type)))
Prop(name, value) == Kw("properties", Obj(Kw(name, value)))
Req(name) == Kw("required", Arr(<<Str(name)>>))

Values ==
    <<Null, Bool(TRUE), Num(0), Num(1), Num(2), Token(1, <<5>>), Num(-1), Num(10), Str("a"), Str("b"), Str("ab"),
      Arr(<<>>), Arr(<<Num(1)>>), Arr(<<Num(1), Num(1)>>), Arr(<<Num(1), Str("a")>>), Arr(<<Str("a"), Num(1)>>),
      Arr(<<Num(1), Num(2), Num(3)>>),
      Obj(<<>>), Obj(Kw("a", Num(1))), Obj(Kw("a", Str("a"))), Obj(Kw("b", Num(1))), Obj(Kw("b", Str("a"))),
      Obj(Kw("a", Num(1)) \o Kw("b", Str("a"))), Obj(Kw("a", Num(2)) \o Kw("b", Num(1))), Obj(Kw("ab", Num(1))),
      Obj(Kw("a", Obj(Kw("a", Num(1)))))>>

MCMatches ==
    {<<"^a", "a">>, <<"^a", "ab">>, <<"b", "b">>, <<"b", "ab">>, <<"(?!a)b", "b">>, <<"date", "b">>}
MCAnalysis == ("^a" :> "Ordinary") @@ ("b" :> "Ordinary") @@ ("(?!a)b" :> "Leading") @@ ("\\1" :> "Unsupported") @@ ("(" :> "Malformed") @@ ("date" :> "Ordinary")
MCLeading == ("(?!a)b" :> [body |-> "b", assertions |-> <<[negative |-> TRUE, operand |-> "^a"]>>])
MCLength == ("a" :> 1) @@ ("b" :> 1) @@ ("ab" :> 2)
Pointer(path) == [kind |-> "pointer", path |-> path]
MCFragment ==
    ("#" :> Pointer(<<>>)) @@ ("#/$defs/d" :> Pointer(<<"$defs", "d">>)) @@ ("#/$defs/e" :> Pointer(<<"$defs", "e">>))
        @@ ("#/" :> Pointer(<<"">>)) @@ ("#/place/d" :> Pointer(<<"place", "d">>))
        @@ ("#/$defs/d/$defs/e" :> Pointer(<<"$defs", "d", "$defs", "e">>))
        @@ ("#x" :> [kind |-> "anchor", name |-> "x"]) @@ ("#y" :> [kind |-> "anchor", name |-> "y"])
        @@ [text \in {"other", "bad", "b", "c", "b#/$defs/e", "b#x", "http://a/b", "http://a/"} |-> [kind |-> "remote"]]
Relative(path, fragment) == [scheme |-> FALSE, path |-> path, fragment |-> fragment]
Absolute(uri) == [scheme |-> TRUE, path |-> uri, fragment |-> {}]
MCReference ==
    [text \in {t \in DOMAIN MCFragment : MCFragment[t].kind # "remote"} |-> Relative("", {MCFragment[text]})]
        @@ [text \in {"other", "b", "c"} |-> Relative(text, {})]
        @@ ("b#/$defs/e" :> Relative("b", {Pointer(<<"$defs", "e">>)})) @@ ("b#x" :> Relative("b", {[kind |-> "anchor", name |-> "x"]}))
        @@ [text \in {"http://a/", "http://a/b"} |-> Absolute(text)]
(* Every base is a document of one directory. *)
MCAgainst == [pair \in {"http://a/", "http://a/b", "http://a/c"} \X {"other", "b", "c"} |->
                CASE pair[2] = "b" -> "http://a/b" [] pair[2] = "c" -> "http://a/c" [] OTHER -> "http://a/other"]
MCRank == ("" :> 0) @@ ("http://a/" :> 1) @@ ("http://a/b" :> 2) @@ ("http://a/c" :> 3) @@ ("http://a/other" :> 4) @@ ("x" :> 5) @@ ("y" :> 6)

Assertions ==
    {Kw("type", Str("object")), Kw("type", Str("array")), Kw("type", Str("string")), Kw("type", Str("number")),
     Kw("type", Str("integer")), Kw("type", Arr(<<Str("string"), Str("integer")>>)), Kw("type", Arr(<<Str("null"), Str("object")>>)),
     Kw("minimum", Num(1)), Kw("maximum", Num(1)), Kw("exclusiveMinimum", Num(1)), Kw("exclusiveMaximum", Num(2)),
     Kw("multipleOf", Num(2)), Kw("multipleOf", Token(0, <<5>>)), Kw("minimum", Token(1, <<5>>)),
     Kw("minLength", Num(2)), Kw("maxLength", Num(1)), Kw("pattern", Str("^a")), Kw("pattern", Str("(?!a)b")), Kw("format", Str("date")), Kw("format", Str("email")),
     Kw("items", Of("integer")), Kw("items", Bool(FALSE)), Kw("prefixItems", Arr(<<Of("integer")>>)),
     Kw("contains", Of("string")), Kw("contains", Of("integer")) \o Kw("minContains", Num(2)), Kw("contains", Of("integer")) \o Kw("maxContains", Num(1)),
     Kw("contains", Bool(TRUE)) \o Kw("minContains", Num(0)),
     Kw("minItems", Num(2)), Kw("maxItems", Num(1)), Kw("uniqueItems", Bool(TRUE)),
     Prop("a", Of("integer")), Prop("b", Of("string")), Kw("patternProperties", Obj(Kw("^a", Obj(Kw("minimum", Num(2)))))),
     Kw("additionalProperties", Bool(FALSE)), Kw("additionalProperties", Of("string")), Kw("additionalProperties", Bool(TRUE)),
     Req("a"), Kw("propertyNames", Obj(Kw("pattern", Str("^a")))), Kw("minProperties", Num(2)), Kw("maxProperties", Num(1)),
     Kw("dependentSchemas", Obj(Kw("a", Obj(Prop("b", Of("integer")))))), Kw("dependentRequired", Obj(Kw("a", Arr(<<Str("b")>>)))),
     Kw("dependencies", Obj(Kw("b", Arr(<<Str("a")>>)))), Kw("dependencies", Obj(Kw("b", Obj(Prop("a", Of("integer"))))))}

Applicators ==
    {Kw("anyOf", Arr(<<Obj(Prop("a", Of("integer"))), Obj(Prop("b", Of("string")))>>)),
     Kw("anyOf", Arr(<<Of("string"), Obj(Kw("minimum", Num(2)))>>)),
     Kw("allOf", Arr(<<Obj(Prop("b", Of("string")))>>)),
     Kw("oneOf", Arr(<<Obj(Req("a") \o Prop("a", Bool(TRUE))), Obj(Prop("b", Bool(TRUE)) \o Req("b"))>>)),
     Kw("not", Of("integer")), Kw("not", Obj(Prop("a", Of("string")))),
     Kw("if", Obj(Prop("a", Of("integer")))) \o Kw("then", Obj(Prop("b", Of("string")))) \o Kw("else", Of("object")),
     Kw("if", Obj(Prop("a", Of("integer")))),
     Kw("if", Of("integer")) \o Kw("else", Bool(FALSE)),
     Kw("$ref", Str("#/$defs/d")) \o Kw("$defs", Obj(Kw("d", Obj(Prop("a", Of("integer")))))),
     Kw("$ref", Str("#/$defs/d")) \o Kw("$defs", Obj(Kw("d", Obj(Prop("a", Obj(Kw("$ref", Str("#/$defs/d")))) \o Kw("type", Arr(<<Str("object"), Str("integer")>>)))))),
     Kw("$ref", Str("#/$defs/d")) \o Kw("$defs", Obj(Kw("d", Obj(Kw("anyOf", Arr(<<Of("string"), Obj(Kw("$ref", Str("#/$defs/d")))>>))))))}

(* A required name that properties does not declare becomes a property of its own, so it *)
(* is not combined with a keyword that asks whether the name was declared.              *)
Undeclared(t) ==
    /\ ObjHas(t, "required") /\ ~ObjHas(Entries(Get(t, "properties")), "a")
    /\ \E key \in {"additionalProperties", "unevaluatedProperties", "patternProperties"} : ObjHas(t, key)

Unevaluated == {<<>>, Kw("unevaluatedProperties", Bool(FALSE)), Kw("unevaluatedItems", Bool(FALSE))}

Pairs ==
    {Obj(s) : s \in {t \in {p \o q \o u : p \in Assertions, q \in Assertions \cup Applicators, u \in Unevaluated} :
                        NamesDistinct(t) /\ ~Undeclared(t)}}

(* Integers: the digit bands of a range and the engines of a multiple. *)
Bound(key, values) == {<<>>} \cup {Kw(key, Num(n)) : n \in values}
Integers ==
    {Obj(Kw("type", Str("integer")) \o lo \o hi \o m) :
        lo \in Bound("minimum", {-107, -9, 0, 3, 98}), hi \in Bound("maximum", {-10, 0, 12, 105}),
        m \in Bound("multipleOf", {1, 2, 3, 4, 5, 7, 20, 25})}

(* References that come back to the same instance, or to a part of it. *)
Def(d, e) == Kw("$defs", Obj(Kw("d", d) \o Kw("e", e)))
Ref(name) == Obj(Kw("$ref", Str(name)))
D == Ref("#/$defs/d")
E == Ref("#/$defs/e")
Bodies ==
    {D, E, Of("string"), Obj(Prop("a", D)), Obj(Kw("items", E)), Obj(Kw("anyOf", Arr(<<Of("string"), D>>))),
     Obj(Kw("anyOf", Arr(<<E, Of("integer")>>))), Obj(Kw("allOf", Arr(<<Of("object"), D>>))), Obj(Kw("allOf", Arr(<<D, E>>))),
     Obj(Kw("anyOf", Arr(<<Of("array"), Obj(Kw("allOf", Arr(<<E, Of("string")>>)))>>))),
     Obj(Kw("oneOf", Arr(<<Of("string"), E>>))), Obj(Kw("not", E)), Obj(Kw("dependentSchemas", Obj(Kw("a", D)))),
     Obj(Kw("$ref", Str("#/$defs/e")) \o Kw("unevaluatedProperties", Bool(FALSE)))}
Recursive == {Obj(Kw("$ref", Str("#/$defs/d")) \o Def(d, e)) : d \in Bodies, e \in Bodies}
                \cup {Obj(Prop("a", Ref("#")) \o u) : u \in Unevaluated}

(* The literals, the finite sets of strings and what counts on them. *)
Letters == Obj(Kw("enum", Arr(<<Str("a"), Str("b")>>)))
Literals ==
    {Obj(Kw("const", Num(1))), Obj(Kw("const", Str("a"))), Obj(Kw("const", Arr(<<Num(1)>>))), Letters,
     Obj(Kw("enum", Arr(<<Num(1), Str("a"), Null>>))), Obj(Kw("enum", Arr(<<Str("a"), Str("b"), Str("ab")>>))),
     Obj(Kw("enum", Arr(<<Num(1), Str("a")>>)) \o Kw("type", Str("string"))),
     Obj(Kw("items", Letters) \o Kw("uniqueItems", Bool(TRUE))),
     Obj(Kw("items", Obj(Kw("enum", Arr(<<Str("a"), Str("b"), Num(1)>>)))) \o Kw("uniqueItems", Bool(TRUE))),
     Obj(Kw("contains", Letters) \o Kw("maxContains", Num(1))),
     Obj(Kw("allOf", Arr(<<Letters, Obj(Kw("not", Obj(Kw("const", Str("a")))))>>))),
     Obj(Kw("propertyNames", Letters)), Obj(Prop("a", Bool(FALSE)) \o Kw("unevaluatedProperties", Bool(FALSE))),
     Obj(Kw("patternProperties", Obj(Kw("^a", Bool(FALSE)))) \o Kw("unevaluatedProperties", Bool(FALSE))),
     Obj(Kw("patternProperties", Obj(Kw("^a", Bool(FALSE)) \o Kw("b", Of("integer")))) \o Kw("additionalProperties", Bool(FALSE))),
     Obj(Kw("type", Str("number")) \o Kw("maxDigitsInteger", Num(1))), Obj(Kw("type", Str("integer")) \o Kw("minDigits", Num(2))),
     Obj(Kw("type", Str("number")) \o Kw("maxDigitsFraction", Num(0))),
     Obj(Kw("pattern", Str("\\1"))), Obj(Kw("pattern", Str("("))), Obj(Kw("$ref", Str("other"))), Obj(Kw("$schema", Str("none"))),
     Obj(Kw("$schema", Str("07")) \o Kw("$ref", Str("#/$defs/d")) \o Kw("type", Str("string")) \o Def(Of("integer"), Null)),
     Obj(Kw("$schema", Str("04")) \o Kw("if", Of("integer")) \o Kw("then", Bool(FALSE))), Ref("#/"), Ref("#"),
     Obj(Kw("type", Str("none"))), Obj(Kw("type", Arr(<<>>))), Obj(Kw("anyOf", Arr(<<>>))), Obj(Kw("minItems", Num(-1))),
     Obj(Kw("type", Str("array")) \o Kw("minItems", Num(200))), Obj(Kw("type", Str("array")) \o Kw("maxItems", Num(200)) \o Kw("items", Of("null"))),
     Obj(Kw("required", Arr(<<Str("a"), Str("a")>>))), Bool(TRUE), Bool(FALSE)}

(* A typed object or array small enough to be one automaton, and the limits that move it. *)
Small ==
    {Obj(Kw("type", Str("object")) \o Prop("a", v) \o r \o Kw("additionalProperties", Bool(FALSE))) :
        v \in {Of("integer"), Of("string"), Of("null"), Letters}, r \in {<<>>, Req("a")}}
    \cup {Obj(Kw("type", Str("object")) \o Kw("properties", Obj(Kw("a", Of("integer")) \o Kw("b", Of("string")))) \o r \o u) :
        r \in {<<>>, Req("a"), Req("b")}, u \in {<<>>, Kw("additionalProperties", Bool(FALSE))}}
    \cup {Obj(Kw("type", Str("array")) \o Kw("items", Of("integer")) \o lo \o hi) :
        lo \in Bound("minItems", {1, 2}), hi \in Bound("maxItems", {0, 1, 2})}
    \cup {Obj(Kw("type", Str("array")) \o Kw("prefixItems", Arr(<<Of("integer"), Of("string")>>)) \o rest \o lo \o hi) :
        rest \in {<<>>, Kw("items", Bool(FALSE)), Kw("items", Of("integer"))}, lo \in Bound("minItems", {1, 2}), hi \in Bound("maxItems", {1, 3})}

RoomyLimits ==
    [max_documents |-> 4, max_uris |-> 20, max_resources |-> 6, max_depth |-> 3, max_locations |-> 40, max_anchors |-> 3,
     max_total_anchors |-> 6, max_references |-> 10, max_work |-> 80]

Options(closure, plan_bytes, validators, engine) ==
    [object_closure |-> closure, format_assertion |-> TRUE, max_plan_bytes |-> plan_bytes,
     max_active_validators |-> validators, max_engine |-> engine,
     set |-> FALSE, retrieval |-> NoUri, documents |-> <<>>, limits |-> RoomyLimits]
Roomy == Options("AllowOpen", 1000, 8, 100)
Tight ==
    {Options("AllowOpen", 60, 8, 100), Options("AllowOpen", 150, 8, 100), Options("AllowOpen", 1000, 1, 100),
     Options("AllowOpen", 1000, 8, 2), Options("RejectOpenObjects", 1000, 8, 100), Options("AssumeClosedProfile", 1000, 8, 100)}

(* Schemas of several resources: identifiers, anchors and references that cross them. *)
References == {"b", "#/$defs/d", "b#/$defs/e", "#/$defs/d/$defs/e", "#x", "b#x", "http://a/b", "c", "bad", "#/place/d", "#y"}
Inner == {Of("string"), Obj(Kw("$anchor", Str("y")) \o Kw("type", Str("integer"))),
          Obj(Kw("$anchor", Str("x")) \o Kw("type", Str("integer"))), Obj(Kw("$id", Str("b")))}
Outer ==
    {Obj(id \o anchor \o body) :
        id \in {<<>>, Kw("$id", Str("b"))}, anchor \in {<<>>, Kw("$anchor", Str("x")), Kw("$dynamicAnchor", Str("x"))},
        body \in {Kw("$defs", Obj(Kw("e", e))) : e \in Inner}
                    \cup {Prop("a", Obj(Kw("$dynamicRef", Str("#x")))) \o Kw("type", Arr(<<Str("object"), Str("integer")>>))}}
Crossing ==
    {Obj(id \o Prop("a", Obj(Kw(kind, Str(text)))) \o Kw("$defs", Obj(Kw("d", d))) \o Kw("place", Obj(Kw("d", Of("string"))))) :
        id \in {<<>>, Kw("$id", Str("http://a/"))}, kind \in {"$ref", "$dynamicRef"}, text \in References, d \in Outer}

(* Sets of documents: a tree that is made strict from outside, aliases, legacy identifiers, metaschemas. *)
Registry(retrieval, documents) == [Roomy EXCEPT !.set = TRUE, !.retrieval = retrieval, !.documents = documents]
Doc(uri, ast) == [uri |-> uri, ast |-> ast]
Trees ==
    {Obj(anchor \o Kw("type", Arr(<<Str("object"), Str("integer")>>)) \o Prop("a", Obj(Kw(kind, Str(text))))) :
        anchor \in {<<>>, Kw("$dynamicAnchor", Str("x")), Kw("$anchor", Str("x"))}, kind \in {"$ref", "$dynamicRef"}, text \in {"#x", "b", "http://a/"}}
StrictRoots ==
    {Obj(anchor \o Kw("$ref", Str(text)) \o u) :
        anchor \in {<<>>, Kw("$dynamicAnchor", Str("x"))}, text \in {"b", "b#x", "c"}, u \in {<<>>, Kw("unevaluatedProperties", Bool(FALSE)), Kw("minProperties", Num(1))}}
Aliased == {Of("string"), Obj(Kw("$id", Str("c")) \o Kw("type", Str("integer"))), Obj(Kw("$id", Str("http://a/")))}
SetInputs ==
    {<<root, Registry(retrieval, <<Doc("http://a/b", tree)>>), "values">> : root \in StrictRoots, tree \in Trees \cup Aliased, retrieval \in {"", "http://a/"}}
    \cup {<<Ref("b"), Registry("http://a/", <<Doc("http://a/b", Of("string")), Doc(uri, Of("integer"))>>), "values">> : uri \in {"http://a/", "http://a/b", "http://a/c", ""}}

(* A legacy identifier with a fragment makes its URI a name of the enclosing resource, so it *)
(* is not combined with a reference to that URI.                                            *)
Legacy ==
    {Obj(Kw("$schema", Str("04")) \o Kw("id", Str(id)) \o Prop("a", Ref(text)) \o Kw("definitions", Obj(Kw("d", Obj(Kw("id", Str(inner)) \o Kw("type", Str("integer"))))))) :
        id \in {"http://a/", "#x"}, text \in {"b", "#x", "#", "http://a/b"}, inner \in {"b", "#x", "bad"}}
    \cup {Obj(Kw("$schema", Str("04")) \o Kw("id", Str("http://a/")) \o Prop("a", Ref(text)) \o Kw("definitions", Obj(Kw("d", Obj(Kw("id", Str("b#x")) \o Kw("type", Str("integer"))))))) :
        text \in {"#x", "#"}}

(* Without the validation vocabulary the lowering drops types and numeric bounds only, so the   *)
(* roots of a custom dialect have no other keyword of it; the dialects all list applicators.    *)
Dialect(entries) == Obj(Kw("$vocabulary", Obj(Kw("core", Bool(TRUE)) \o Kw("applicator", Bool(TRUE)) \o entries)))
Metaschemas ==
    {Dialect(<<>>), Dialect(Kw("validation", Bool(FALSE))), Dialect(Kw("other", Bool(TRUE)) \o Kw("validation", Bool(TRUE))),
     Dialect(Kw("other", Bool(FALSE)) \o Kw("validation", Bool(TRUE))), Dialect(Kw("other", Null)), Obj(<<>>), Bool(TRUE)}
Bounds == {Kw("minimum", Num(1)), Kw("exclusiveMaximum", Num(1)), Kw("multipleOf", Num(2))}
Custom ==
    {<<Obj(Kw("$schema", Str("http://a/c")) \o body), Registry("http://a/", <<Doc(uri, meta)>>), "values">> :
        body \in Bounds \cup {Kw("type", Str("integer")), Kw("type", Str("integer")) \o Kw("minimum", Num(1)),
                             Prop("a", Obj(Kw("type", Str("number")) \o Kw("maximum", Num(1)))), Kw("not", Of("object"))},
        uri \in {"http://a/b", "http://a/c"}, meta \in Metaschemas}

Short(field, n) == [Roomy EXCEPT !.limits = [@ EXCEPT ![field] = n]]
ShortLimits ==
    {Short("max_documents", 0), Short("max_resources", 1), Short("max_depth", 0), Short("max_locations", 3), Short("max_anchors", 0),
     Short("max_total_anchors", 1), Short("max_references", 0), Short("max_work", 3), Short("max_work", 5), Short("max_uris", 1)}
Limited ==
    {<<Obj(Kw("$id", Str("http://a/")) \o Prop("a", Obj(Kw("$ref", Str("b#x")))) \o Kw("$defs", Obj(Kw("d", d)))), o, "values">> :
        d \in {e \in Outer : ObjHas(e.fields, "$id")}, o \in ShortLimits}

MCInputs ==
    {<<s, Roomy, "values">> : s \in Pairs \cup Recursive \cup Literals \cup Small \cup Crossing}
        \cup {<<s, Roomy, "integers">> : s \in Integers}
        \cup {<<s, o, "values">> : s \in Small \cup Literals, o \in Tight}
        \cup SetInputs \cup Custom \cup Limited \cup {<<s, Registry("", <<>>), "values">> : s \in Legacy}
MCInstances == [values |-> Values, integers |-> [i \in 1 .. 261 |-> Num(i - 131)]]

MCTexts == {"a", "b", "ab", "^a", "(?!a)b", "date", "email", "LexicalNumber", AnyBody, CodePoint, "\\1", "("}
MCBytes == [text \in MCTexts |-> 2]
=============================================================================
