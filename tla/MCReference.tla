----------------------------- MODULE MCReference ----------------------------
(***************************************************************************)
(* Model-checking instance of ReferenceMatcher: one schema for each part   *)
(* of the descent, with a vocabulary that reaches its decisions.           *)
(***************************************************************************)
EXTENDS ReferenceMatcher

a == <<"a">>
aa == <<"a", "a">>
slash == <<"/">>

Bound(coef, scale, exclusive) == {[coef |-> coef, scale |-> scale, exclusive |-> exclusive]}

AnyValue == [policy |-> "AllowAny"]
One(id) == [policy |-> "Schema", schema |-> id]

MCNumber == [kind |-> "Number", integer_only |-> FALSE, minimum |-> {}, maximum |-> {}, multiple_of |-> {}]

MCArray ==
    [kind |-> "Array", items |-> AnyValue, min_items |-> 0, max_items |-> NoMaximum, unique_items |-> FALSE,
     contains |-> {}, items_annotates |-> FALSE]

MCTuple ==
    [kind |-> "Tuple", prefix |-> <<"null">>, tail |-> One("any"), min_items |-> 0, max_items |-> NoMaximum,
     unique_items |-> FALSE, contains |-> {}, tail_annotates |-> FALSE]

MCOpen ==
    [kind |-> "OpenObject", known |-> <<>>, known_required |-> {}, patterns |-> <<>>,
     additional |-> [policy |-> "Open"], property_names |-> {}, min_properties |-> 0,
     max_properties |-> NoMaximum, dependent |-> <<>>, dependent_required |-> {}]

MCClosed ==
    [kind |-> "Object", fields |-> <<<<a, "even">>, <<slash, "null">>>>, required |-> {1}, dependent |-> <<>>,
     dependent_required |-> {}]

MCString ==
    [kind |-> "StringPattern", regex |-> {}, min_len |-> 0, max_len |-> NoMaximum, charset |-> "Utf8Any", user |-> TRUE]

MCContains(id, min, max) == {[policy |-> "Schema", schema |-> id, min |-> min, max |-> max]}

MCIr ==
    [never |-> [kind |-> "Never"],
     any |-> [kind |-> "Not", inner |-> "never"],
     null |-> [kind |-> "Null"],
     unsupported |-> [kind |-> "Unsupported"],
     real |-> MCNumber,
     even |-> [MCNumber EXCEPT !.integer_only = TRUE, !.multiple_of = {[coef |-> 2, scale |-> 0]}],
     small |-> [MCNumber EXCEPT !.maximum = Bound(1, 0, FALSE)],
     half |-> [MCNumber EXCEPT !.minimum = Bound(-15, 1, FALSE), !.maximum = Bound(12, 0, TRUE),
                               !.multiple_of = {[coef |-> 5, scale |-> 1]}],
     few |-> [MCNumber EXCEPT !.integer_only = TRUE, !.minimum = Bound(5, 1, FALSE), !.maximum = Bound(13, 0, TRUE)],
     range |-> [kind |-> "Intersection", branches |-> <<"few", "even">>],
     letters |-> [MCString EXCEPT !.regex = {a, aa}],
     short |-> [MCString EXCEPT !.charset = "Utf8CountedCodepoints", !.min_len = 1, !.max_len = 1],
     names |-> [kind |-> "Enum", values |-> {a, aa}, large |-> TRUE],
     oneOf |-> [kind |-> "ExactlyOne", branches |-> <<"even", "small">>],
     anyOf |-> [kind |-> "Union", branches |-> <<"null", "needsA", "even">>],
     needsA |-> [MCOpen EXCEPT !.known = <<<<a, "oneOf">>>>, !.known_required = {1}],
     allOf |-> [kind |-> "Intersection", branches |-> <<"needsA", "closed">>],
     closed |-> [MCOpen EXCEPT !.known = <<<<a, "even">>>>, !.patterns = << <<{a, aa}, "real">>, <<{aa}, "small">> >>,
                               !.additional = [policy |-> "Forbid"]],
     fixed |-> [MCClosed EXCEPT !.dependent_required = {<<a, slash>>}],
     more |-> [MCOpen EXCEPT !.additional = One("even"), !.min_properties = 1, !.max_properties = 1],
     not |-> [kind |-> "Not", inner |-> "names"],
     unique |-> [MCArray EXCEPT !.unique_items = TRUE],
     roster |-> [MCArray EXCEPT !.unique_items = TRUE, !.items = One("names"), !.min_items = 2],
     has |-> [MCArray EXCEPT !.max_items = 2, !.contains = MCContains("even", 1, 1)],
     pair |-> [MCTuple EXCEPT !.prefix = <<"null", "short">>, !.tail = [policy |-> "None"], !.min_items = 1],
     named |-> [MCOpen EXCEPT !.property_names = {"short"}, !.max_properties = 1],
     dependent |-> [MCOpen EXCEPT !.dependent = <<<<slash, "needsA">>>>],
     known |-> [MCOpen EXCEPT !.known = <<<<a, "real">>>>],
     other |-> [MCOpen EXCEPT !.known = <<<<slash, "null">>>>, !.known_required = {1}],
     either |-> [kind |-> "Union", branches |-> <<"known", "other">>],
     sealed |-> [kind |-> "Unevaluated", of |-> "Properties", scope |-> "either", unevaluated |-> "even"],
     strict |-> [kind |-> "Unevaluated", of |-> "Properties", scope |-> "either", unevaluated |-> "never"],
     first |-> [MCTuple EXCEPT !.contains = MCContains("even", 0, 1)],
     rest |-> [kind |-> "Unevaluated", of |-> "Items", scope |-> "first", unevaluated |-> "never"],
     node |-> [MCOpen EXCEPT !.known = <<<<a, "again">>>>],
     again |-> [kind |-> "DynamicRef", initial_target |-> "node", anchor |-> "node"],
     tree |-> [kind |-> "Intersection", branches |-> <<"base", "one">>],
     base |-> [kind |-> "Ref", target |-> "node"],
     one |-> [MCOpen EXCEPT !.max_properties = 1]]

MCEngine ==
    [null |-> [start |-> "q0", accept |-> {"q4"},
               next |-> (<<"q0", "n">> :> "q1") @@ (<<"q1", "u">> :> "q2") @@ (<<"q2", "l">> :> "q3")
                         @@ (<<"q3", "l">> :> "q4")]]

(* The schemas node and again are those of a library whose dynamic anchor the
   main schema overrides with tree. *)
MCIrResource == [id \in DOMAIN MCIr |-> IF id \in {"node", "again"} THEN "library" ELSE "main"]

MCIrAnchors == (<<"node", "main">> :> "tree") @@ (<<"node", "library">> :> "node")

MCDiagnosed == {"unsupported"}

NumberTokens == {<<"0">>, <<"1">>, <<"2">>, <<"-">>, <<".", "5">>, <<"e", "1", " ">>, <<" ">>}

ObjectTokens == {<<"{">>, <<"}">>, <<",">>, <<"\"", "a", "\"", ":">>, <<"\"", "a">>, <<"a", "\"", ":">>, <<"2">>}

SlashTokens == {<<"{">>, <<"}">>, <<",">>, <<"\"", "a", "\"", ":">>, <<"\"", "\\", "/", "\"", ":">>, <<"2">>,
                <<"n", "u", "l", "l">>}

ArrayTokens == {<<"[">>, <<"]">>, <<",">>}

StringTokens == {<<"\"">>, <<"a">>, <<"\\">>, <<"/">>, <<" ", "\"", "a">>, <<"a", "\"">>}

MCVocabularyOf ==
    [half |-> NumberTokens,
     range |-> (NumberTokens \ {<<".", "5">>}) \cup {<<".", "0">>},
     letters |-> StringTokens,
     names |-> StringTokens,
     oneOf |-> NumberTokens \ {<<" ">>},
     anyOf |-> (ObjectTokens \ {<<"\"", "a", "\"", ":">>}) \cup {<<"n", "u", "l", "l">>, <<" ">>},
     allOf |-> ObjectTokens \cup {<<".", "5">>},
     closed |-> ObjectTokens \cup {<<".", "5">>},
     fixed |-> SlashTokens,
     more |-> ObjectTokens,
     not |-> {<<"\"">>, <<"a">>, <<"a", "\"">>, <<"n", "u", "l", "l">>, <<"2", " ">>},
     unique |-> ArrayTokens \cup {<<"1", ",">>, <<"1", ".", "0">>, <<"1", "0", "e", "-", "1">>,
                                  <<"{", "\"", "a", "\"", ":">>, <<"}">>},
     roster |-> ArrayTokens \cup {<<"\"", "a">>, <<"a", "\"">>, <<"\"">>, <<" ">>},
     has |-> ArrayTokens \cup {<<"2">>, <<"1">>, <<"0", " ", ",">>, <<"{", "}">>},
     pair |-> ArrayTokens \cup {<<"n", "u">>, <<"l", "l">>, <<"\"", "a">>, <<"\"">>},
     named |-> {<<"{">>, <<"}">>, <<"\"", "a">>, <<"\"", ":", "2">>, <<"\\", "/">>, <<",">>},
     dependent |-> SlashTokens,
     sealed |-> (SlashTokens \ {<<"2">>}) \cup {<<"2", " ">>, <<"1", " ">>},
     strict |-> SlashTokens,
     rest |-> ArrayTokens \cup {<<"2">>, <<"n", "u", "l", "l">>, <<"1">>, <<" ">>},
     tree |-> {<<"{">>, <<"}">>, <<"\"", "a", "\"", ":">>, <<",">>, <<"\"", "/", "\"", ":">>, <<"{", "}">>},
     unsupported |-> {<<"1">>}]

MCMaxBuffer ==
    [half |-> 3, range |-> 1, letters |-> 6, names |-> 6, oneOf |-> 3, anyOf |-> 4, allOf |-> 10, closed |-> 8, fixed |-> 10,
     more |-> 6, not |-> 5, unique |-> 6, roster |-> 6, has |-> 4, pair |-> 9, named |-> 6, dependent |-> 10, sealed |-> 11,
     strict |-> 10, rest |-> 7, tree |-> 12, unsupported |-> 1]

MCRoots == DOMAIN MCVocabularyOf

MCLimits == {[max_document_bytes |-> 40, max_mask_work |-> 100], [max_document_bytes |-> 4, max_mask_work |-> 22]}

MCCompletions ==
    { <<>>, <<"}">>, <<"]">>, <<"0", "}">>, <<"2", "]">>, <<"a", "\"">>, <<"\"">>, <<"\"", "a", "a", "\"", "]">>, <<":", "2", "}">>,
      <<"\"", "a", "\"", ":", "2", "}">>, <<"5">>, <<"0">>, <<"2">>, <<"1">>, <<"}", "}">>, <<"n", "u", "l", "l", "}">> }

MCEscapes == ("/" :> "/") @@ ("\"" :> "\"") @@ ("\\" :> "\\") @@ ("n" :> "newline")
=============================================================================
