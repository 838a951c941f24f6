---------------------------- MODULE MCValidators ----------------------------
(***************************************************************************)
(* Model-checking instance of StructuredMatcher for the schemas that run   *)
(* cursors beside the frames, and for those that fold a value as it is     *)
(* read: each schema with a vocabulary that reaches its decisions.         *)
(***************************************************************************)
EXTENDS StructuredMatcher

a == <<"a">>
slash == <<"/">>
aa == <<"a", "a">>

MCEscapes == ("/" :> "/") @@ ("\"" :> "\"") @@ ("\\" :> "\\") @@ ("n" :> "newline")

MCByteOrder == << " ", "\"", ",", "-", ".", "/", "0", "1", "2", "5", ":", "[", "\\", "]", "a", "e", "l", "n", "u", "z", "{", "}" >>

Bound(coef, scale, exclusive) == {[coef |-> coef, scale |-> scale, exclusive |-> exclusive]}

MCNumber == [kind |-> "Number", integer_only |-> FALSE, minimum |-> {}, maximum |-> {}, multiple_of |-> {}]

MCArray ==
    [kind |-> "Array", prefix |-> <<>>, tail |-> "AnyJson", min_items |-> 0, max_items |-> Unbounded,
     unique_items |-> FALSE, finite_unique_capacity |-> Unbounded, contains |-> {}, tail_annotates |-> FALSE,
     annotations_required |-> FALSE]

MCObject ==
    [kind |-> "Object", known |-> <<>>, viable |-> {}, required |-> {}, additional |-> "Open", patterns |-> <<>>,
     viable_pattern |-> {}, property_names |-> {}, min_properties |-> 0, max_properties |-> Unbounded,
     dependent_required |-> <<>>, dependent_schemas |-> <<>>, dependent_by_name |-> <<>>,
     annotations_required |-> FALSE]

MCCombinator == [kind |-> "Combinator", op |-> "All", branches |-> <<>>]

MCUnevaluated ==
    [kind |-> "Unevaluated", of |-> "Object", scope |-> "never", unevaluated |-> "never",
     rejects_unevaluated |-> FALSE, finite_evaluated_keys |-> {}]

(* The keys "a" and "aa". *)
MCPattern ==
    [start |-> "p", accept |-> {"a1", "a2"}, next |-> (<<"p", "a">> :> "a1") @@ (<<"a1", "a">> :> "a2"),
     count |-> [p |-> 2, a1 |-> 2, a2 |-> 1]]

(* The literal null, and the integer 1. *)
MCNull ==
    [kind |-> "Regular", start |-> "q0", accept |-> {"q4"},
     next |-> (<<"q0", "n">> :> "q1") @@ (<<"q1", "u">> :> "q2") @@ (<<"q2", "l">> :> "q3") @@ (<<"q3", "l">> :> "q4")
                @@ (<<"q0", " ">> :> "q0") @@ (<<"q4", " ">> :> "q4")]

(* Strings of some bytes and escapes: automata that read the quotes too. *)
MCText(bytes, escapes) ==
    [kind |-> "Regular", start |-> "q0", accept |-> {"end"},
     next |-> (<<"q0", "\"">> :> "in") @@ (<<"in", "\"">> :> "end") @@ (<<"end", " ">> :> "end")
                @@ [step \in {"in"} \X bytes |-> "in"]
                @@ [step \in IF escapes # {} THEN {<<"in", "\\">>} ELSE {} |-> "esc"]
                @@ [step \in {"esc"} \X escapes |-> "in"]]

MCString == [kind |-> "String", min_scalars |-> 0, max_scalars |-> Unbounded, pattern |-> {}]

MCNodes ==
    LET nodes ==
        [never |-> [kind |-> "Unsupported"],
         null |-> MCNull,
         real |-> MCNumber,
         even |-> [MCNumber EXCEPT !.integer_only = TRUE, !.multiple_of = {[coef |-> 2, scale |-> 0]}],
         small |-> [MCNumber EXCEPT !.maximum = Bound(1, 0, FALSE)],
         half |-> [MCNumber EXCEPT !.minimum = Bound(-15, 1, FALSE), !.maximum = Bound(12, 0, TRUE),
                                   !.multiple_of = {[coef |-> 5, scale |-> 1]}],
         letters |-> [kind |-> "String", min_scalars |-> 1, max_scalars |-> 2, pattern |-> {MCPattern}],
         short |-> [MCString EXCEPT !.max_scalars = 1],
         brief |-> [MCString EXCEPT !.max_scalars = 2],
         text |-> MCText(ToSet(Neutral), DOMAIN MCEscapes),
         lower |-> MCText({"a", "z"}, DOMAIN MCEscapes),
         word |-> MCText({"a", "z"}, {}),
         briefWord |-> [MCCombinator EXCEPT !.branches = <<"brief", "word">>],
         shortOrWord |-> [MCCombinator EXCEPT !.op = "Any", !.branches = <<"short", "word">>],
         wanted |-> [MCArray EXCEPT !.max_items = 1, !.contains = {[matches |-> "word", min |-> 1, max |-> Unbounded]}],
         worded |-> [MCObject EXCEPT !.property_names = {"text"}, !.max_properties = 1],
         names |-> [kind |-> "StringEnum", members |-> {a, aa}],
         oneOf |-> [MCCombinator EXCEPT !.op = "ExactlyOne", !.branches = <<"even", "small">>],
         anyOf |-> [MCCombinator EXCEPT !.op = "Any", !.branches = <<"null", "needsA", "even">>],
         allOf |-> [MCCombinator EXCEPT !.branches = <<"needsA", "closed">>],
         needsA |-> [MCObject EXCEPT !.required = {a}, !.known = (a :> "oneOf"), !.viable = {a}],
         closed |-> [MCObject EXCEPT !.additional = "Forbid", !.viable = {a}, !.known = (a :> "even"),
                                     !.patterns = <<[engine |-> MCPattern, value |-> "real", satisfiable |-> TRUE]>>,
                                     !.viable_pattern = {MCPattern}],
         not |-> [kind |-> "Negation", inner |-> "names"],
         unique |-> [MCArray EXCEPT !.unique_items = TRUE],
         roster |-> [MCArray EXCEPT !.unique_items = TRUE, !.tail = "names", !.min_items = 2,
                                    !.finite_unique_capacity = 2],
         has |-> [MCArray EXCEPT !.max_items = 2, !.contains = {[matches |-> "even", min |-> 1, max |-> 1]}],
         named |-> [MCObject EXCEPT !.property_names = {"short"}, !.max_properties = 1],
         dependent |-> [MCObject EXCEPT !.dependent_schemas = <<"needsA">>, !.dependent_by_name = (slash :> 1)],
         known |-> [MCObject EXCEPT !.known = (a :> "real"), !.viable = {a}, !.annotations_required = TRUE],
         other |-> [MCObject EXCEPT !.known = (slash :> "null"), !.viable = {slash}, !.required = {slash},
                                    !.annotations_required = TRUE],
         either |-> [MCCombinator EXCEPT !.op = "Any", !.branches = <<"known", "other">>],
         sealed |-> [MCUnevaluated EXCEPT !.scope = "either", !.unevaluated = "even"],
         strict |-> [MCUnevaluated EXCEPT !.scope = "either",
                        !.rejects_unevaluated = TRUE, !.finite_evaluated_keys = {[names |-> {a, slash}, patterns |-> {}]}],
         first |-> [MCArray EXCEPT !.prefix = <<"null">>, !.annotations_required = TRUE,
                                   !.contains = {[matches |-> "even", min |-> 0, max |-> 1]}],
         rest |-> [MCUnevaluated EXCEPT !.of = "Array", !.scope = "first", !.rejects_unevaluated = TRUE],
         node |-> [MCObject EXCEPT !.known = (a :> "again"), !.viable = {a}],
         again |-> [kind |-> "DynamicRef", initial_target |-> "node", anchor |-> "node"],
         tree |-> [MCCombinator EXCEPT !.branches = <<"base", "one">>],
         base |-> [kind |-> "Ref", target |-> "node"],
         one |-> [MCObject EXCEPT !.max_properties = 1]]
    IN nodes

(* The schemas node and again are those of a library whose dynamic anchor the
   main schema overrides with tree. *)
MCResourceOf == [node \in DOMAIN MCNodes |-> IF node \in {"node", "again"} THEN "library" ELSE "main"]

MCAnchors == (<<"node", "main">> :> "tree") @@ (<<"node", "library">> :> "node")

NumberTokens == {<<"0">>, <<"1">>, <<"2">>, <<"-">>, <<".", "5">>, <<"e", "1", " ">>, <<" ">>}

ObjectTokens == {<<"{">>, <<"}">>, <<",">>, <<"\"", "a", "\"", ":">>, <<"\"", "a">>, <<"a", "\"", ":">>, <<"2">>}

SlashTokens == {<<"{">>, <<"}">>, <<",">>, <<"\"", "a", "\"", ":">>, <<"\"", "\\", "/", "\"", ":">>, <<"2">>,
                <<"n", "u", "l", "l">>}

WordTokens == {<<"\"">>, <<"a">>, <<"z", "a">>, <<"a", "z", "a">>, <<"\\">>, <<"/", "\"">>}

ArrayTokens == {<<"[">>, <<"]">>, <<",">>}

MCVocabularyOf ==
    [half |-> NumberTokens,
     letters |-> {<<"\"">>, <<"a">>, <<"\\">>, <<"/">>, <<" ", "\"", "a">>, <<"a", "\"">>},
     oneOf |-> NumberTokens \ {<<" ">>},
     anyOf |-> (ObjectTokens \ {<<"\"", "a", "\"", ":">>}) \cup {<<"n", "u", "l", "l">>, <<" ">>},
     allOf |-> ObjectTokens \cup {<<".", "5">>},
     not |-> {<<"\"">>, <<"a">>, <<"a", "\"">>, <<"n", "u", "l", "l">>, <<"2", " ">>},
     unique |-> ArrayTokens \cup {<<"1", ",">>, <<"1", ".", "0">>, <<"1", "0", "e", "-", "1">>,
                                  <<"{", "\"", "a", "\"", ":">>, <<"}">>},
     roster |-> ArrayTokens \cup {<<"\"", "a">>, <<"a", "\"">>, <<"\"">>, <<" ">>},
     has |-> ArrayTokens \cup {<<"2">>, <<"1">>, <<"0", " ", ",">>, <<"{", "}">>},
     named |-> {<<"{">>, <<"}">>, <<"\"", "a">>, <<"\"", ":", "2">>, <<"\\", "/">>, <<",">>},
     dependent |-> (SlashTokens \ {<<"\"", "a", "\"", ":">>}) \cup {<<"\"", "a">>, <<"\"", ":">>},
     sealed |-> (SlashTokens \ {<<"2">>}) \cup {<<"2", " ">>, <<"1", " ">>},
     strict |-> SlashTokens,
     rest |-> ArrayTokens \cup {<<"2">>, <<"n", "u", "l", "l">>, <<"1">>},
     tree |-> {<<"{">>, <<"}">>, <<"\"", "a", "\"", ":">>, <<",">>, <<"\"", "/", "\"", ":">>, <<"{", "}">>},
     text |-> WordTokens \cup {<<"2">>, <<"\\", "a">>, <<"\\", "\"", "\"", " ">>, <<"/", "\"", "a">>},
     lower |-> {<<"\"">>, <<"a">>, <<"\\">>, <<"2", "\\", "a">>, <<"n", "\"">>},
     briefWord |-> WordTokens,
     shortOrWord |-> WordTokens,
     wanted |-> WordTokens \cup {<<"2">>, <<"[">>, <<"]">>, <<"a", "\"", "]">>},
     worded |-> WordTokens \cup {<<"{">>, <<"}">>, <<"z", "\"", ":", "2">>}]

MCMaxText ==
    [half |-> 3, letters |-> 6, oneOf |-> 3, anyOf |-> 4, allOf |-> 8, not |-> 4, unique |-> 5, roster |-> 5, has |-> 3,
     named |-> 9, dependent |-> 9, sealed |-> 11, strict |-> 12, rest |-> 9, tree |-> 11,
     text |-> 4, lower |-> 4, briefWord |-> 4, shortOrWord |-> 4, wanted |-> 5, worded |-> 6]

MCRoots == DOMAIN MCVocabularyOf

MCRoomy ==
    [max_document_bytes |-> 100, max_depth |-> 10, max_properties |-> 10, max_items |-> 10, max_key_bytes |-> 10,
     max_string_bytes |-> 10, max_number_bytes |-> 10, max_undo_entries |-> 100, max_mask_work |-> 1000,
     max_active_validators |-> 20, max_slice_cache |-> 2, max_dynamic_scope_depth |-> 6]

MCTight ==
    [MCRoomy EXCEPT !.max_depth = 5, !.max_active_validators = 4, !.max_number_bytes = 2, !.max_properties = 1,
                    !.max_mask_work = 30]

MCLimits == {MCRoomy, MCTight}

NumberEnds == { <<>>, <<"5">> }

ObjectEnds ==
    { <<>>, <<"}">>, <<"0", "}">>, <<":", "2", "}">>, <<"\"", "a", "\"", ":", "2", "}">>, <<"n", "u", "l", "l", "}">> }

ArrayEnds == { <<>>, <<"]">>, <<"2", "]">>, <<"\"", "]">>, <<"\"", "a", "a", "\"", "]">> }

StringEnds == { <<>>, <<"\"">>, <<"a", "\"">> }

MCCompletionsOf ==
    [half |-> NumberEnds, letters |-> StringEnds, oneOf |-> NumberEnds, anyOf |-> ObjectEnds, allOf |-> ObjectEnds,
     not |-> StringEnds, unique |-> ArrayEnds, roster |-> ArrayEnds, has |-> ArrayEnds, named |-> ObjectEnds,
     dependent |-> ObjectEnds, sealed |-> ObjectEnds, strict |-> ObjectEnds, rest |-> ArrayEnds,
     tree |-> {<<>>, <<"}">>, <<"}", "}">>}, text |-> StringEnds, lower |-> StringEnds, briefWord |-> StringEnds, shortOrWord |-> StringEnds,
     wanted |-> ArrayEnds, worded |-> ObjectEnds \cup {<<"\"", ":", "2", "}">>}]

(* Keys of one length collide, and so do values of one kind. *)
MCKeyHash(key) == Len(key)

MCFingerprint(value) == value[1]
=============================================================================
