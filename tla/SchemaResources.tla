--------------------------- MODULE SchemaResources ---------------------------
(***************************************************************************)
(* Schema resources: the documents a caller registers, the resources,      *)
(* locations, anchors and references discovered in them, the resolution of *)
(* every reference, and the lowering of the whole graph into one arena.    *)
(*                                                                         *)
(* A document is its retrieval URI (or NoUri) and its schema.  A pointer   *)
(* is the sequence of its decoded tokens.  A graph g is a record; its      *)
(* failed field is the code of the first error, or Ok.  Every URI costs    *)
(* one unit of the limit on URI bytes; the memory of the graph itself is   *)
(* not counted.                                                            *)
(***************************************************************************)
EXTENDS SchemaLowering

CONSTANTS
    Reference,         \* a valid URI reference to its scheme, its path and its fragment
    Against,           \* a base URI and a relative path to the URI they make
    Rank,              \* the order of URIs and names
    AnchorNames,       \* valid_anchor
    LegacyMetaschemas, \* is_legacy_metaschema
    KnownVocabularies, \* is_known_vocabulary
    ValidationVocabulary

NoUri == ""

Spoil(g, code) == IF g.failed = Ok THEN [g EXCEPT !.failed = code] ELSE g

(* The error of a step, if it had one. *)
Raise(g, code) == IF code = Ok THEN g ELSE Spoil(g, code)

CheckLimit(g, n, limit) == IF n > limit THEN Spoil(g, "Limit") ELSE g

----------------------------------------------------------------------------
(* URIs. *)

ResolveUriReference(base, text) ==
    LET reference == Reference[text]
        Answer(code, uri, fragment) == [code |-> code, uri |-> uri, fragment |-> fragment]
    IN  CASE text \notin DOMAIN Reference -> Answer("InvalidUri", NoUri, {})
          [] text \in DOMAIN Reference /\ base = NoUri /\ ~reference.scheme -> Answer("ReferenceResolution", NoUri, {})
          [] OTHER -> Answer(Ok,
                             CASE reference.scheme -> reference.path
                               [] reference.path = "" -> base
                               [] OTHER -> Against[<<base, reference.path>>],
                             reference.fragment)

SameDocumentFragment(text) ==
    CASE text \notin DOMAIN Reference -> [code |-> "InvalidUri", fragment |-> {}]
      [] text \in DOMAIN Reference /\ (Reference[text].scheme \/ Reference[text].path # "") ->
            [code |-> "ReferenceResolution", fragment |-> {}]
      [] OTHER -> [code |-> Ok, fragment |-> Reference[text].fragment]

(* A fragment that is there and is not empty. *)
Fragmented(resolved) == \E f \in resolved.fragment : f # [kind |-> "pointer", path |-> <<>>]

ResolveResourceId(base, text) ==
    LET resolved == ResolveUriReference(base, text)
    IN  IF resolved.code = Ok /\ Fragmented(resolved) THEN [resolved EXCEPT !.code = "InvalidUri"] ELSE resolved

Absent == [code |-> Ok, text |-> {}]

ObjectString(value, key) ==
    LET fields == IF value.t = "Obj" THEN SelectSeq(value.fields, LAMBDA f : f[1] = key) ELSE <<>>
    IN  CASE fields = <<>> -> Absent
          [] Len(fields) = 1 /\ fields[1][2].t = "Str" -> [code |-> Ok, text |-> {fields[1][2].s}]
          [] OTHER -> [code |-> "Malformed", text |-> {}]

----------------------------------------------------------------------------
(* The registry. *)

InsertInner(registry, uri, ast) ==
    LET counted == CheckLimit(registry, Len(registry.documents) + 1, registry.limits.max_documents)
        named == CheckLimit(counted, registry.uris + 1, registry.limits.max_uris)
        added == [counted EXCEPT !.documents = Append(@, [uri |-> uri, ast |-> ast])]
    IN  CASE counted.failed # Ok -> counted
          [] counted.failed = Ok /\ uri = NoUri -> added
          [] counted.failed = Ok /\ uri # NoUri /\ named.failed # Ok -> named
          [] OTHER -> IF \E i \in DOMAIN registry.documents : registry.documents[i].uri = uri
                      THEN Spoil(registry, "DuplicateResource")
                      ELSE [added EXCEPT !.uris = @ + 1]

(* The documents in the order of their URIs, the anonymous ones first. *)
NewResourceBuilder(registry) ==
    LET Before(d, e) == Rank[d.uri] < Rank[e.uri]
        documents == SortSeq(registry.documents, Before)
    IN  [limits |-> registry.limits, documents |-> documents, uris |-> registry.uris,
         counted |-> {documents[i].uri : i \in DOMAIN documents}, resources |-> <<>>, locations |-> <<>>, anchors |-> <<>>,
         references |-> <<>>, resolved |-> <<>>, uri_index |-> <<>>, work |-> 0, failed |-> registry.failed]

----------------------------------------------------------------------------
(* Discovery. *)

PushResource(g, document, uri) ==
    LET counted == CheckLimit(g, Len(g.resources) + 1, g.limits.max_resources)
        fresh == uri # NoUri /\ uri \notin g.counted
        priced == IF fresh THEN CheckLimit([g EXCEPT !.counted = @ \cup {uri}, !.uris = @ + 1], g.uris + 1, g.limits.max_uris)
                  ELSE g
        record == [uri |-> uri, document |-> document, root |-> 1, locations |-> <<>>, names |-> <<>>,
                   static |-> <<>>, dynamic |-> <<>>]
    IN  CASE counted.failed # Ok -> counted
          [] counted.failed = Ok /\ uri \in DOMAIN g.uri_index -> Spoil(g, "DuplicateResource")
          [] OTHER -> [priced EXCEPT !.resources = Append(@, record),
                                     !.uri_index = IF uri = NoUri THEN @ ELSE (uri :> Len(g.resources) + 1) @@ @]

PushUriAlias(g, uri, resource) ==
    CASE uri \notin DOMAIN g.uri_index -> [g EXCEPT !.uri_index = (uri :> resource) @@ @]
      [] uri \in DOMAIN g.uri_index /\ g.uri_index[uri] = resource -> g
      [] OTHER -> Spoil(g, "DuplicateResource")

DocumentLocations(g, document, path) ==
    {l \in DOMAIN g.locations : g.locations[l].document = document /\ g.locations[l].path = path}

PushLocation(g, document, resource, path, pointer, ast) ==
    LET counted == CheckLimit(g, Len(g.locations) + 1, g.limits.max_locations)
        id == Len(g.locations) + 1
    IN  CASE counted.failed # Ok -> counted
          [] counted.failed = Ok /\ (DocumentLocations(g, document, path) # {}
                                     \/ pointer \in DOMAIN g.resources[resource].locations) -> Spoil(g, "Malformed")
          [] OTHER -> [g EXCEPT !.resources[resource].locations = (pointer :> id) @@ @,
                                !.locations = Append(@, [document |-> document, resource |-> resource, path |-> path, ast |-> ast])]

PushLocationAlias(g, resource, pointer, location) ==
    IF pointer \in DOMAIN g.resources[resource].locations /\ g.resources[resource].locations[pointer] # location
    THEN Spoil(g, "Malformed")
    ELSE [g EXCEPT !.resources[resource].locations = (pointer :> location) @@ @]

PushAnchor(g, resource, location, name, dynamic) ==
    LET record == g.resources[resource]
        own == CheckLimit(g, Len(record.static) + Len(record.dynamic) + 1, g.limits.max_anchors)
        total == CheckLimit(own, Len(g.anchors) + 1, g.limits.max_total_anchors)
        id == Len(g.anchors) + 1
        listed == IF dynamic THEN [record EXCEPT !.dynamic = Append(@, id)] ELSE [record EXCEPT !.static = Append(@, id)]
    IN  CASE g.failed # Ok -> g
          [] g.failed = Ok /\ name \notin AnchorNames -> Spoil(g, "Malformed")
          [] g.failed = Ok /\ name \in AnchorNames /\ total.failed # Ok -> total
          [] OTHER ->
                IF name \in DOMAIN record.names
                THEN Spoil(g, "DuplicateAnchor")
                ELSE [g EXCEPT !.anchors = Append(@, [resource |-> resource, name |-> name, target |-> location, dynamic |-> dynamic]),
                               !.resources[resource] = [listed EXCEPT !.names = (name :> id) @@ @]]

PushReference(g, location, kind, base, given) ==
    LET text == The(given.text)
        record == [from |-> location, kind |-> kind, text |-> text, base |-> base]
        counted == CheckLimit(CheckLimit(g, Len(g.references) + 1, g.limits.max_references), g.uris + 1, g.limits.max_uris)
    IN  CASE g.failed # Ok \/ given = Absent -> g
          [] g.failed = Ok /\ given.code # Ok -> Spoil(g, given.code)
          [] OTHER ->
                CASE Len(g.references) + 1 > g.limits.max_references -> counted
                  [] Len(g.references) + 1 <= g.limits.max_references /\ text \notin DOMAIN Reference -> Spoil(g, "InvalidUri")
                  [] OTHER -> IF counted.failed # Ok THEN counted
                              ELSE [g EXCEPT !.uris = @ + 1, !.references = Append(@, record)]

PushAnchors(g, resource, location, given, dynamic) ==
    FoldSet(LAMBDA name, a : PushAnchor(a, resource, location, name, dynamic), Raise(g, given.code), given.text)

IndexLegacyFragment(g, resource, location, resolved) ==
    LET names == {f.name : f \in {e \in resolved.fragment : e.kind = "anchor" /\ e.name \in AnchorNames}}
    IN  PushAnchors(g, resource, location, [code |-> resolved.code, text |-> names], FALSE)

(* Before draft 2019-09 an id may name an anchor. *)
IndexLegacyId(g, resource, location, base, id) ==
    CASE id.code # Ok -> Spoil(g, id.code)
      [] id.code = Ok /\ id.text = {} -> g
      [] OTHER -> IndexLegacyFragment(g, resource, location, ResolveUriReference(base, The(id.text)))

IndexKeywords(g, schema, location, resource, base, legacy) ==
    LET static == PushAnchors(g, resource, location, ObjectString(schema, "$anchor"), FALSE)
        anchors == PushAnchors(static, resource, location, ObjectString(schema, "$dynamicAnchor"), TRUE)
        id == IF legacy THEN ObjectString(schema, "id") ELSE Absent
        named == IndexLegacyId(anchors, resource, location, base, id)
    IN  PushReference(PushReference(named, location, "Static", base, ObjectString(schema, "$ref")),
                      location, "Dynamic", base, ObjectString(schema, "$dynamicRef"))

SingleSchemaKeywords ==
    {"additionalProperties", "unevaluatedProperties", "propertyNames", "contains", "unevaluatedItems", "items", "not",
     "if", "then", "else", "contentSchema"}

MapSchemaKeywords == {"$defs", "definitions", "properties", "patternProperties", "dependentSchemas"}

ArraySchemaKeywords == {"prefixItems", "allOf", "anyOf", "oneOf"}

(* The subschemas of a schema with their pointers, in source order. *)
SchemaChildren(schema) ==
    LET Listed(field) ==
            CASE field[1] \in SingleSchemaKeywords -> << <<<<field[1]>>, field[2]>> >>
              [] field[1] \in MapSchemaKeywords /\ field[2].t = "Obj" ->
                    [i \in DOMAIN field[2].fields |-> <<<<field[1], field[2].fields[i][1]>>, field[2].fields[i][2]>>]
              [] field[1] \in ArraySchemaKeywords /\ field[2].t = "Arr" ->
                    [i \in DOMAIN field[2].items |-> <<<<field[1], i>>, field[2].items[i]>>]
              [] OTHER -> <<>>
        all == FoldLeft(LAMBDA found, field : found \o Listed(field), <<>>, IF schema.t = "Obj" THEN schema.fields ELSE <<>>)
    IN  SelectSeq(all, LAMBDA child : child[2].t \in {"Obj", "Bool"})

Placed(g, item) == [g |-> g, item |-> item]

(* A resource of its own. *)
EnterOwnResource(g, document, item, own) ==
    Placed(PushResource(Raise(CheckLimit(g, item.depth + 1, g.limits.max_depth), own.code), document, own.uri),
           [item EXCEPT !.base = own.uri, !.resource = Len(g.resources) + 1, !.pointer = <<>>, !.depth = @ + 1])

(* A legacy id with a fragment leaves the schema in its resource, under another base. *)
EnterLegacyResource(g, document, item, text, named) ==
    CASE named.code # Ok -> Placed(Spoil(g, named.code), item)
      [] named.code = Ok /\ Fragmented(named) ->
            Placed(PushUriAlias(g, named.uri, item.resource), [item EXCEPT !.base = named.uri])
      [] OTHER -> EnterOwnResource(g, document, item, ResolveResourceId(item.base, text))

EnterNamedResource(g, document, item, id) ==
    CASE id.code # Ok -> Placed(Spoil(g, id.code), item)
      [] id.code = Ok /\ id.text = {} -> Placed(g, item)
      [] OTHER -> IF item.legacy
                  THEN EnterLegacyResource(g, document, item, The(id.text), ResolveUriReference(item.base, The(id.text)))
                  ELSE EnterOwnResource(g, document, item, ResolveResourceId(item.base, The(id.text)))

(* Where a schema stands once its id is read; the id of a root has been read. *)
EnterResource(g, document, item) ==
    IF item.root THEN Placed(g, item)
    ELSE EnterNamedResource(g, document, item, ObjectString(item.ast, IF item.legacy THEN "id" ELSE "$id"))

RECURSIVE DiscoverStack(_, _, _)

DiscoverChildren(g, document, item) ==
    LET Child(a, child) ==
            DiscoverStack(a, document, [item EXCEPT !.ast = child[2], !.path = @ \o child[1], !.pointer = @ \o child[1], !.root = FALSE])
    IN  IF g.failed # Ok THEN g ELSE FoldLeft(Child, g, SchemaChildren(item.ast))

(* Its location is the last one. *)
DiscoverLocated(g, document, item) ==
    LET location == Len(g.locations)
        rooted == IF item.pointer = <<>> THEN [g EXCEPT !.resources[item.resource].root = location] ELSE g
    IN  IF g.failed # Ok THEN g
        ELSE DiscoverChildren(IndexKeywords(rooted, item.ast, location, item.resource, item.base, item.legacy), document, item)

(* One that already is a location of the resource is skipped. *)
DiscoverEntered(document, placed) ==
    LET g == placed.g
        item == placed.item
    IN  IF g.failed # Ok \/ \E l \in DocumentLocations(g, document, item.path) : g.locations[l].resource = item.resource
        THEN g
        ELSE DiscoverLocated(PushLocation(g, document, item.resource, item.path, item.pointer, item.ast), document, item)

DiscoverWorked(g, document, item) ==
    IF g.failed # Ok THEN g ELSE DiscoverEntered(document, EnterResource(g, document, item))

(* A schema, then its subschemas. *)
DiscoverStack(g, document, item) ==
    DiscoverWorked(CheckLimit([g EXCEPT !.work = @ + 1], g.work + 1, g.limits.max_work), document, item)

LegacyIds(ast) == \E dialect \in ObjectString(ast, "$schema").text : dialect \in LegacyMetaschemas

DiscoverRoot(g, document, uri, legacy) ==
    LET retrieval == g.documents[document].uri
        resource == Len(g.resources) + 1
        Aliased(a) == IF a.failed = Ok /\ retrieval # NoUri /\ uri # retrieval THEN PushUriAlias(a, retrieval, resource) ELSE a
        item == [ast |-> g.documents[document].ast, path |-> <<>>, pointer |-> <<>>, base |-> uri, resource |-> resource,
                 depth |-> 0, root |-> TRUE, legacy |-> legacy]
    IN  DiscoverStack(Aliased(PushResource(g, document, uri)), document, item)

(* What the id of the root makes of the retrieval URI. *)
RootUri(retrieval, id, legacy) ==
    CASE id.text = {} -> [code |-> id.code, uri |-> retrieval]
      [] id.text # {} /\ legacy -> ResolveUriReference(retrieval, The(id.text))
      [] OTHER -> ResolveResourceId(retrieval, The(id.text))

DiscoverDocument(g, document) ==
    LET ast == g.documents[document].ast
        legacy == LegacyIds(ast)
        Found(resolved) ==
            IF resolved.code # Ok THEN Spoil(g, resolved.code) ELSE DiscoverRoot(g, document, resolved.uri, legacy)
    IN  CASE g.failed # Ok -> g
          [] g.failed = Ok /\ ObjectString(ast, "$schema").code # Ok -> Spoil(g, "Malformed")
          [] OTHER -> Found(RootUri(g.documents[document].uri, ObjectString(ast, IF legacy THEN "id" ELSE "$id"), legacy))

----------------------------------------------------------------------------
(* Resolution. *)

(* The resource a reference names, if it is registered, and the fragment in it. *)
ReferenceTarget(g, reference) ==
    LET relative == reference.base = NoUri /\ ~Reference[reference.text].scheme
        resolved == ResolveUriReference(reference.base, reference.text)
        same == SameDocumentFragment(reference.text)
    IN  IF relative
        THEN [code |-> same.code, resource |-> {g.locations[reference.from].resource}, fragment |-> same.fragment]
        ELSE [code |-> resolved.code, resource |-> {g.uri_index[u] : u \in {resolved.uri} \cap DOMAIN g.uri_index},
              fragment |-> resolved.fragment]

(* A pointer to a place no keyword leads to: what stands there is discovered as a schema of the resource. *)
MaterializePointerSchema(g, resource, pointer) ==
    LET root == g.locations[g.resources[resource].root]
        path == root.path \o pointer
        existing == DocumentLocations(g, root.document, path)
        document == g.documents[root.document].ast
        found == {v \in At(document, path) : v.t \in {"Obj", "Bool"}}
        item == [ast |-> The(found), path |-> path, pointer |-> pointer, base |-> g.resources[resource].uri,
                 resource |-> resource, depth |-> 0, root |-> TRUE, legacy |-> LegacyIds(document)]
    IN  CASE existing # {} -> PushLocationAlias(g, resource, pointer, The(existing))
          [] existing = {} /\ found = {} -> g
          [] OTHER -> DiscoverStack(g, root.document, item)

MaterializePointerTarget(g, target) ==
    LET pointers == {f \in target.fragment : f.kind \in {"pointer", "badPointer"} /\ Fragmented(target)}
        resource == The(target.resource)
        pointer == The(pointers)
    IN  CASE target.code # Ok -> Spoil(g, target.code)
          [] target.code = Ok /\ (target.resource = {} \/ pointers = {}) -> g
          [] OTHER ->
                CASE pointer.kind = "badPointer" -> Spoil(g, "ReferenceResolution")
                  [] pointer.kind # "badPointer" /\ pointer.path \in DOMAIN g.resources[resource].locations -> g
                  [] OTHER -> MaterializePointerSchema(g, resource, pointer.path)

(* The references found on the way are looked at too. *)
RECURSIVE MaterializePointerTargets(_, _)
MaterializePointerTargets(g, index) ==
    IF g.failed # Ok \/ index > Len(g.references)
    THEN g
    ELSE MaterializePointerTargets(MaterializePointerTarget(g, ReferenceTarget(g, g.references[index])), index + 1)

(* The resources are numbered in the order of their URIs. *)
CanonicalizeResourceIds(g) ==
    LET Before(i, j) == \/ Rank[g.resources[i].uri] < Rank[g.resources[j].uri]
                        \/ Rank[g.resources[i].uri] = Rank[g.resources[j].uri] /\ i < j
        order == SetToSortSeq(DOMAIN g.resources, Before)
        remap == [old \in DOMAIN g.resources |-> CHOOSE new \in DOMAIN order : order[new] = old]
    IN  [g EXCEPT !.resources = [new \in DOMAIN order |-> g.resources[order[new]]],
                  !.locations = [l \in DOMAIN g.locations |-> [g.locations[l] EXCEPT !.resource = remap[@]]],
                  !.anchors = [a \in DOMAIN g.anchors |-> [g.anchors[a] EXCEPT !.resource = remap[@]]],
                  !.uri_index = [u \in DOMAIN g.uri_index |-> remap[g.uri_index[u]]]]

(* A reference to the root, to a location or to an anchor of its resource. *)
ValidateTarget(g, reference, target) ==
    LET resource == g.resources[The(target.resource)]
        fragment == IF Fragmented(target) THEN The(target.fragment) ELSE [kind |-> "root"]
        Resolved(location, anchor) ==
            [g EXCEPT !.resolved = Append(@, [from |-> reference.from, kind |-> reference.kind,
                                              target |-> [location |-> location, anchor |-> anchor]])]
    IN  CASE g.failed # Ok -> g
          [] g.failed = Ok /\ target.code # Ok -> Spoil(g, target.code)
          [] g.failed = Ok /\ target.code = Ok /\ target.resource = {} -> Spoil(g, "ReferenceResolution")
          [] OTHER ->
                CASE fragment.kind = "root" -> Resolved(resource.root, {})
                  [] fragment.kind = "pointer" /\ fragment.path \in DOMAIN resource.locations ->
                        Resolved(resource.locations[fragment.path], {})
                  [] fragment.kind = "anchor" /\ fragment.name \in DOMAIN resource.names ->
                        Resolved(g.anchors[resource.names[fragment.name]].target, {resource.names[fragment.name]})
                  [] OTHER -> Spoil(g, "ReferenceResolution")

ValidateReference(g, reference) ==
    ValidateTarget(CheckLimit([g EXCEPT !.work = @ + 1], g.work + 1, g.limits.max_work), reference, ReferenceTarget(g, reference))

ValidateReferences(g) == FoldLeft(ValidateReference, g, g.references)

MaterializeAll(g) == IF g.failed = Ok THEN MaterializePointerTargets(g, 1) ELSE g

ResolveAll(g) == IF g.failed = Ok THEN ValidateReferences(CanonicalizeResourceIds(g)) ELSE g

DiscoverAll(g) == FoldLeft(DiscoverDocument, g, [i \in DOMAIN g.documents |-> i])

Discover(registry) == ResolveAll(MaterializeAll(DiscoverAll(NewResourceBuilder(registry))))

----------------------------------------------------------------------------
(* The lowering of a graph. *)

RootLocation(g, retrieval, root) ==
    LET anonymous == {d \in DOMAIN g.documents : g.documents[d].uri = NoUri /\ g.documents[d].ast = root}
    IN  CASE retrieval # NoUri ->
                IF retrieval \in DOMAIN g.uri_index THEN {g.resources[g.uri_index[retrieval]].root} ELSE {}
          [] OTHER -> IF Cardinality(anonymous) = 1 THEN DocumentLocations(g, The(anonymous), <<>>) ELSE {}

(* Without the validation vocabulary types and numeric bounds are not asserted. *)
VocabularyEnabled(vocabularies) ==
    LET bad == {i \in DOMAIN vocabularies :
                    vocabularies[i][2].t # "Bool" \/ (vocabularies[i][2].b /\ vocabularies[i][1] \notin KnownVocabularies)}
        first == vocabularies[CHOOSE i \in bad : \A j \in bad : i <= j]
    IN  [code |-> IF bad = {} THEN Ok ELSE IF first[2].t = "Bool" THEN "Unsupported" ELSE "Malformed",
         enabled |-> \E i \in DOMAIN vocabularies : vocabularies[i][1] = ValidationVocabulary]

ValidationVocabularyEnabled(g, root) ==
    LET dialect == The(DeclaredDialect(root))
        meta == g.locations[g.resources[g.uri_index[dialect]].root].ast
        Answer(code) == [code |-> code, enabled |-> TRUE]
    IN  CASE DeclaredDialect(root) \subseteq KnownMetaschemas -> Answer(Ok)
          [] ~(DeclaredDialect(root) \subseteq KnownMetaschemas) /\ dialect \notin DOMAIN g.uri_index -> Answer("Unsupported")
          [] OTHER ->
                CASE meta.t # "Obj" -> Answer("Malformed")
                  [] meta.t = "Obj" /\ ~Is(Get(meta.fields, "$vocabulary"), "Obj") -> Answer("Unsupported")
                  [] OTHER -> VocabularyEnabled(Entries(Get(meta.fields, "$vocabulary")))

ResourceDialectQuirks(g, root_quirks) ==
    [r \in DOMAIN g.resources |-> QuirksOf(g.locations[g.resources[r].root].ast, root_quirks)]

(* The anchors of each resource in turn, the static ones first, each run by name. *)
AnchorOrder(g) ==
    LET ByName(run) == SortSeq(run, LAMBDA a, e : Rank[g.anchors[a].name] < Rank[g.anchors[e].name])
    IN  FoldLeft(LAMBDA ids, resource : ids \o ByName(resource.static) \o ByName(resource.dynamic), <<>>, g.resources)

CanonicalAnchorIds(g) == [a \in DOMAIN g.anchors |-> CHOOSE new \in DOMAIN AnchorOrder(g) : AnchorOrder(g)[new] = a]

GraphLowerer(g, root, options, enabled) ==
    LET root_quirks == QuirksOf(root, NoQuirks)
    IN  [root |-> root, anchors |-> <<>>, closure |-> options.object_closure, format_assertion |-> options.format_assertion,
         validation_enabled |-> enabled, root_quirks |-> root_quirks, quirks |-> ResourceDialectQuirks(g, root_quirks),
         graph |-> TRUE, locations |-> g.locations, references |-> g.resolved, anchor_table |-> g.anchors,
         anchor_ids |-> CanonicalAnchorIds(g)]

(* Each location is lowered once, at depth 0 and with the flags down; its slot is assigned then. *)
SettleLocation(b, location) ==
    IF location \in DOMAIN b.location_slots /\ location \notin b.assigned
    THEN [SetDefTarget(b, b.location_slots[location], b.location_nodes[location]) EXCEPT !.assigned = @ \cup {location}]
    ELSE b

LocationLowered(b, location, document, id) ==
    IF b.failed # Ok THEN b
    ELSE SettleLocation([b EXCEPT !.document = document, !.location_nodes = (location :> id) @@ @], location)

LowerLocation(x, b, location) ==
    LET record == x.locations[location]
        Stored(made) == LocationLowered(made.b, location, b.document, made.id)
    IN  CASE b.failed # Ok -> b
          [] b.failed = Ok /\ location \in DOMAIN b.location_nodes -> SettleLocation(b, location)
          [] OTHER -> Stored(Lower(x, [b EXCEPT !.document = record.document], CallOf("lower", record.ast, record.path, 0)))

(* The locations that are asked for, then the pending ones, whose list grows while they are lowered. *)
RECURSIVE LowerLocations(_, _, _, _)
LowerLocations(x, b, asked, index) ==
    IF b.failed # Ok \/ index > Len(asked) + Len(b.pending) THEN b
    ELSE LowerLocations(x, LowerLocation(x, b, IF index <= Len(asked) THEN asked[index] ELSE b.pending[index - Len(asked)]),
                        asked, index + 1)

FinishGraph(g, b, location) ==
    LET order == AnchorOrder(g)
        resources == [r \in DOMAIN g.resources |-> [uri |-> {g.resources[r].uri}, root |-> b.location_nodes[g.resources[r].root]]]
        anchors == [i \in DOMAIN order |-> [g.anchors[order[i]] EXCEPT !.target = b.location_nodes[@]]]
    IN  IF b.failed # Ok THEN Failed(b.failed) ELSE FinishWithResources(b, b.location_nodes[location], resources, anchors)

(* The root, the roots of the resources, the targets of the anchors. *)
LowerRoots(g, location, options, vocabulary) ==
    LET asked == <<location>> \o [r \in DOMAIN g.resources |-> g.resources[r].root]
                    \o [a \in DOMAIN g.anchors |-> g.anchors[a].target]
        x == GraphLowerer(g, g.locations[location].ast, options, vocabulary.enabled)
    IN  IF vocabulary.code # Ok THEN Failed(vocabulary.code)
        ELSE FinishGraph(g, LowerLocations(x, NewLowerer, asked, 1), location)

LowerResourceGraph(g, root, retrieval, options) ==
    LET found == RootLocation(g, retrieval, root)
    IN  IF found = {} THEN Failed("Malformed")
        ELSE LowerRoots(g, The(found), options, ValidationVocabularyEnabled(g, g.locations[The(found)].ast))

(* The registry of the caller, with the root document inserted last. *)
SchemaSetGraph(root, options) ==
    LET empty == [documents |-> <<>>, uris |-> 0, limits |-> options.limits, failed |-> Ok]
        given == FoldLeft(LAMBDA r, d : IF r.failed # Ok THEN r ELSE InsertInner(r, d.uri, d.ast), empty, options.documents)
        full == IF given.failed = Ok THEN InsertInner(given, options.retrieval, root) ELSE given
    IN  IF full.failed = Ok THEN Discover(full) ELSE full

=============================================================================
