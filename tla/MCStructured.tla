---------------------------- MODULE MCStructured ----------------------------
(***************************************************************************)
(* Model-checking instance of StructuredMatcher: six plans that use every  *)
(* frame, roomy and tight limits, and two vocabularies.                    *)
(***************************************************************************)
EXTENDS StructuredMatcher

a == <<"a">>
slash == <<"/">>
aa == <<"a", "a">>

(* A JSON integer with its trailing whitespace. *)
MCNumber ==
    [kind |-> "Regular", start |-> "q0", accept |-> {"zero", "int", "space"},
     next |-> (<<"q0", "0">> :> "zero") @@ (<<"q0", "1">> :> "int")
                @@ (<<"int", "0">> :> "int") @@ (<<"int", "1">> :> "int")
                @@ (<<"zero", " ">> :> "space") @@ (<<"int", " ">> :> "space")
                @@ (<<"space", " ">> :> "space")]

MCObject ==
    [kind |-> "Object", known |-> <<>>, viable |-> {}, required |-> {}, additional |-> "AllowAny", patterns |-> <<>>,
     viable_pattern |-> {}, property_names |-> {}, min_properties |-> 0, max_properties |-> Unbounded,
     dependent_required |-> <<>>, dependent_schemas |-> <<>>, dependent_by_name |-> <<>>,
     annotations_required |-> FALSE]

(* additionalProperties false: "a" is required by "/", "aa" is unsatisfiable. *)
MCClosed ==
    [MCObject EXCEPT !.additional = "Forbid", !.viable = {a, slash}, !.min_properties = 1,
                     !.known = (a :> "number") @@ (slash :> "number") @@ (aa :> "never"),
                     !.dependent_required = (slash :> {a})]

MCArray ==
    [kind |-> "Array", prefix |-> <<>>, tail |-> "AnyJson", min_items |-> 0, max_items |-> Unbounded,
     unique_items |-> FALSE, finite_unique_capacity |-> Unbounded, contains |-> {}, tail_annotates |-> FALSE,
     annotations_required |-> FALSE]

MCNodes ==
    [number |-> MCNumber,
     never |-> [kind |-> "Unsupported"],
     open |-> MCObject,
     closed |-> MCClosed,
     mapped |-> [MCObject EXCEPT !.additional = "number", !.known = (a :> "any"), !.required = {a},
                                 !.viable = {a}, !.max_properties = 2],
     any |-> MCArray,
     tuple |-> [MCArray EXCEPT !.prefix = <<"number">>, !.tail = "closed", !.min_items = 1, !.max_items = 2],
     fixed |-> [MCArray EXCEPT !.prefix = <<"open">>, !.tail = "Closed"]]

MCResourceOf == [node \in DOMAIN MCNodes |-> "main"]

MCOpen == {"open"}

MCRoots == {"open", "closed", "mapped", "any", "tuple", "fixed"}

MCRoomy ==
    [max_document_bytes |-> 100, max_depth |-> 10, max_properties |-> 10, max_items |-> 10, max_key_bytes |-> 10,
     max_string_bytes |-> 10, max_number_bytes |-> 10, max_undo_entries |-> 100, max_mask_work |-> 1000,
     max_active_validators |-> 10, max_slice_cache |-> 2, max_dynamic_scope_depth |-> 4]

MCTight ==
    [max_document_bytes |-> 9, max_depth |-> 3, max_properties |-> 1, max_items |-> 1, max_key_bytes |-> 1,
     max_string_bytes |-> 1, max_number_bytes |-> 2, max_undo_entries |-> 9, max_mask_work |-> 60,
     max_active_validators |-> 10, max_slice_cache |-> 2, max_dynamic_scope_depth |-> 4]

MCLimits == {MCRoomy, MCTight}

MCRoomyOnly == {MCRoomy}

MCTokens ==
    { <<"{">>, <<"}">>, <<"[">>, <<"]">>, <<",">>, <<"\"", "a", "\"", ":">>, <<"\"", "/", "\"", ":", "0">>,
      <<"\"", "\\">>, <<"/", "\"">>, <<":">>, <<"0">>, <<"1", "0", " ">>, <<"-", "0", ".">>, <<"n", "u", "l", "l">>,
      <<"{", "}">>, <<"\"", "a">>, <<"\"", "\\", "/", "\"", ":">> }

MCVocabularyOf == [r \in MCRoots |-> MCTokens]

MCMaxText == [r \in MCRoots |-> 8]

MCMaxCrossing == [r \in MCOpen |-> 20]

MCByteOrder == << " ", "\"", ",", "-", ".", "/", "0", "1", ":", "[", "\\", "]", "a", "l", "n", "u", "{", "}" >>

MCEnds ==
    { <<>>, <<"}">>, <<"]">>, <<"0", "}">>, <<":", "0", "}">>, <<"\"", "a", "\"", ":", "0", "}">> }

MCCompletionsOf == [r \in MCRoots |-> MCEnds]

MCEscapes == ("/" :> "/") @@ ("\"" :> "\"") @@ ("\\" :> "\\") @@ ("n" :> "newline")

(* Keys of one length collide. *)
MCKeyHash(key) == Len(key)

MCFingerprint(value) == Len(value)

MCNoAnchors == <<>>

(* Tokens that close an object and go on to the next key of its parent. *)
MCCrossingTokens ==
    { <<"{">>, <<"\"", "/", "\"", ":">>, <<"\"", "a", "\"", ":">>, <<"}", ",", "\"", "a", "\"", ":">>,
      <<"{", "}">>, <<"0", ",">>, <<"0", "}">>, <<"}">> }

MCCrossing == [r \in MCOpen |-> MCCrossingTokens]
=============================================================================
