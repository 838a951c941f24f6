---------------------------- MODULE SchemaCompile ----------------------------
(***************************************************************************)
(* The automaton of a regular node, as the language it is assembled from.  *)
(*                                                                         *)
(* Bytes are abstracted to JSON values: insignificant whitespace, the      *)
(* escapes of a string and the braces around a body are left out, the      *)
(* digits of a number are not.  A digit pattern is a sequence of digit     *)
(* classes, of which more says that any digits may follow.  The body of an *)
(* array is a set of runs: the languages of its first items, and the       *)
(* language repeated after them within bounds.                             *)
(***************************************************************************)
EXTENDS SchemaMeaning

CONSTANTS
    MaxModulus,            \* MAX_MULTIPLE_OF_MODULUS
    MaxRemainderModulus,   \* MAX_ENGINE_REMAINDER_MODULUS
    MaxSuffixEndings       \* MAX_SUFFIX_ENDINGS

Digit == 0 .. 9

NumDigits(n) == Len(DecimalDigits(n))

----------------------------------------------------------------------------
(* Integers within bounds, by digit bands and never by enumeration. *)

AnyDigits(k) == [i \in 1 .. k |-> Digit]

AllDigits(d) == <<1 .. 9>> \o AnyDigits(d - 1)

(* The strings of len digits, leading zeros allowed, from lo to hi. *)
RECURSIVE FlRange(_, _, _)
FlRange(lo, hi, len) ==
    LET p == TenTo(len - 1)
        ld == lo \div p
        hd == hi \div p
        After(class, rest) == {<<class>> \o digits : digits \in rest}
    IN  CASE lo = 0 /\ hi = TenTo(len) - 1 -> {AnyDigits(len)}
          [] len = 1 /\ ~(lo = 0 /\ hi = 9) -> {<<lo .. hi>>}
          [] len > 1 /\ ld = hd /\ ~(lo = 0 /\ hi = TenTo(len) - 1) -> After({ld}, FlRange(lo % p, hi % p, len - 1))
          [] OTHER -> After({ld}, FlRange(lo % p, p - 1, len - 1))
                        \cup (IF hd >= ld + 2 THEN {<<(ld + 1) .. (hd - 1)>> \o AnyDigits(len - 1)} ELSE {})
                        \cup After({hd}, FlRange(0, hi % p, len - 1))

Bounded(patterns) == {[digits |-> digits, more |-> FALSE] : digits \in patterns}

(* The positive integers from a on, and those from a to b. *)
PosGe(a) ==
    LET d == NumDigits(a)
    IN  Bounded(FlRange(a, TenTo(d) - 1, d)) \cup {[digits |-> <<1 .. 9>> \o AnyDigits(d), more |-> TRUE]}

PosRangeGap(a, b) ==
    LET da == NumDigits(a)
        db == NumDigits(b)
    IN  IF da = db
        THEN Bounded(FlRange(a, b, da))
        ELSE Bounded(FlRange(a, TenTo(da) - 1, da) \cup {AllDigits(d) : d \in (da + 1) .. (db - 2)}
                        \cup FlRange(TenTo(db - 1), b, db))

PosRange(a, b) ==
    LET da == NumDigits(a)
        db == NumDigits(b)
    IN  IF da = db
        THEN Bounded(FlRange(a, b, da))
        ELSE Bounded(FlRange(a, TenTo(da) - 1, da) \cup {AllDigits(d) : d \in (da + 1) .. (db - 1)}
                        \cup FlRange(TenTo(db - 1), b, db))

IntegerRegex(lo, hi) ==
    LET neg_hi == IF hi = {} THEN -1 ELSE Min({The(hi), -1})
        pos_lo == IF lo = {} THEN 1 ELSE Max({The(lo), 1})
        Signed(neg, patterns) == {[neg |-> neg, digits |-> p.digits, more |-> p.more] : p \in patterns}
        negative == CASE lo = {} -> PosGe(-neg_hi)
                      [] lo # {} /\ The(lo) <= neg_hi -> PosRange(-neg_hi, -The(lo))
                      [] OTHER -> {}
        zero == IF (\A l \in lo : l <= 0) /\ \A h \in hi : h >= 0 THEN Bounded({<<{0}>>}) ELSE {}
        positive == CASE hi = {} -> PosGe(pos_lo)
                      [] hi # {} /\ pos_lo <= The(hi) -> PosRange(pos_lo, The(hi))
                      [] OTHER -> {}
    IN  [l |-> "Integer", alternatives |-> Signed(TRUE, negative) \cup Signed(FALSE, zero \cup positive)]

----------------------------------------------------------------------------
(* The languages of the nodes. *)

NeverLanguage == [l |-> "Union", of |-> <<>>]

Compiled(language) == [failed |-> Ok, language |-> language]

CompileFails(code) == [failed |-> code, language |-> NeverLanguage]

StructuredBackendRequired == CompileFails("Unsupported")

(* The first failure of a sequence of compilations, or what they make. *)
FirstFailure(parts) == SelectSeq(parts, LAMBDA part : part.failed # Ok)

LanguagesOf(parts) == [i \in DOMAIN parts |-> parts[i].language]

----------------------------------------------------------------------------
(* The multiples of a modulus: the remainder is the state of a small       *)
(* automaton, and a modulus of twos and fives alone is known by the last   *)
(* digits.  short has the multiples with fewer digits than an ending.      *)

RECURSIVE Valuation(_, _)
Valuation(n, p) == IF n % p = 0 THEN 1 + Valuation(n \div p, p) ELSE 0

PowerOfTenFactorSuffix(modulus) ==
    LET twos == Valuation(modulus, 2)
        fives == Valuation(modulus, 5)
        suffix_len == Max({twos, fives})
        ending_count == TenTo(suffix_len) \div modulus
    IN  IF modulus = 2 ^ twos * 5 ^ fives /\ ending_count <= MaxSuffixEndings
        THEN {[len |-> suffix_len, endings |-> {index * modulus : index \in 0 .. (ending_count - 1)}]}
        ELSE {}

DecimalBytes(value, width) ==
    LET natural == IF value = 0 THEN <<0>> ELSE DecimalDigits(value)
    IN  [i \in 1 .. (width - Len(natural)) |-> 0] \o natural

SuffixEngine(suffix) ==
    [l |-> "Multiple", by |-> "suffix",
     padded |-> {DecimalBytes(ending, suffix.len) : ending \in suffix.endings},
     short |-> {DecimalBytes(ending, 0) : ending \in {e \in suffix.endings : e < TenTo(suffix.len - 1)}}]

MultipleOfEngine(modulus) ==
    LET suffix == PowerOfTenFactorSuffix(modulus)
    IN  CASE modulus = 0 -> CompileFails("Malformed")
          [] modulus > MaxModulus -> CompileFails("AutomatonLimit")
          [] modulus = 1 -> Compiled([l |-> "Multiple", by |-> "digits"])
          [] modulus \in 2 .. MaxRemainderModulus -> Compiled([l |-> "Multiple", by |-> "remainder", modulus |-> modulus])
          [] OTHER -> IF suffix = {} THEN CompileFails("AutomatonLimit") ELSE Compiled(SuffixEngine(The(suffix)))

CompileIntegerMultiple(node) ==
    LET multiple == MultipleOfEngine(The(node.divisor))
    IN  IF multiple.failed # Ok
        THEN multiple
        ELSE Compiled([l |-> "All", of |-> <<IntegerRegex(node.lo, node.hi), multiple.language>>])

UsesDirectCompilation(node) ==
    CASE node.k = "Integer" -> node.divisor # {}
      [] node.k \in {"Intersection", "ExactlyOne", "Union"} -> TRUE
      [] node.k = "Enum" -> \A v \in node.values : v.t = "Str"
      [] node.k = "Object" -> node.dependent = <<>> /\ node.dependent_required = {}
      [] node.k = "Array" -> Target(node.items) # {} /\ ~node.unique /\ node.contains = {}
      [] node.k = "Tuple" -> ~node.unique /\ node.contains = {}
      [] OTHER -> FALSE

(* A leaf; everything else that reaches the text of a regex is refused. *)
LowerNode(node) ==
    CASE node.k \in {"Null", "Boolean"} -> Compiled([l |-> node.k])
      [] node.k = "Never" -> Compiled(NeverLanguage)
      [] node.k = "StringConst" -> Compiled([l |-> "Strings", members |-> {node.value}])
      [] node.k = "StringPattern" ->
            LET counted == node.charset \in {"AsciiPrintableNoQuoteBackslash", "Utf8CountedCodepoints"}
            IN  Compiled([l |-> "String", regex |-> node.regex, min |-> IF counted THEN node.min_len ELSE {},
                          max |-> IF counted THEN node.max_len ELSE {}])
      [] node.k = "Integer" -> Compiled(IntegerRegex(node.lo, node.hi))
      [] node.k = "Number" ->
            IF node.integer_only \/ node.minimum # {} \/ node.maximum # {} \/ node.multiple_of # {}
            THEN StructuredBackendRequired
            ELSE Compiled([l |-> "Number"])
      [] node.k = "LexicalNumber" -> Compiled([l |-> "LexicalNumber", digits |-> node.digits])
      [] node.k = "Enum" -> Compiled([l |-> "Enum", members |-> node.values])
      [] OTHER -> StructuredBackendRequired

Run(first, rest) == [first |-> first, rest |-> rest]

Repeated(item, min, max) == {[item |-> item, min |-> min, max |-> max]}

ArrayRuns(item, min_items, max_items) ==
    CASE max_items = {0} -> {Run(<<>>, {})}
      [] max_items # {0} /\ min_items = 0 ->
            {Run(<<>>, {}), Run(<<item>>, Repeated(item, 0, {m - 1 : m \in max_items}))}
      [] OTHER -> {Run(<<item>>, Repeated(item, min_items - 1, {m - 1 : m \in max_items}))}

TupleExact(prefix, tail, count) == [i \in 1 .. count |-> IF i <= Len(prefix) THEN prefix[i] ELSE The(tail)]

TupleRuns(prefix, tail, min_items, max_items) ==
    LET upper == IF max_items = {} THEN Len(prefix) ELSE The(max_items)
        finite_upper == IF tail # {} THEN upper ELSE Min({upper, Len(prefix)})
        base == Max({min_items, Len(prefix)})
    IN  {Run(TupleExact(prefix, tail, count), {}) : count \in min_items .. finite_upper}
            \cup (IF max_items = {} /\ tail # {} THEN {Run(TupleExact(prefix, tail, base), Repeated(The(tail), 0, {}))} ELSE {})

CompileStringEnum(node) == [l |-> "Strings", members |-> {v.s : v \in node.values}]

(* The fields of a closed object in any order, each at most once and the required ones always. *)
CompileObjectNode(node, of) == [l |-> "Shuffle", names |-> FirstOf(node.fields), of |-> of, required |-> node.required]

CompileArrayNode(node, item) == [l |-> "Items", runs |-> ArrayRuns(item, node.min_items, node.max_items)]

CompileTupleNode(node, of) ==
    [l |-> "Items", runs |-> TupleRuns(SubSeq(of, 1, Len(node.prefix)), IF node.tail = {} THEN {} ELSE {Last(of)},
                                       node.min_items, node.max_items)]

RECURSIVE CompileUnwrapped(_, _)
CompileUnwrapped(ir, id) ==
    LET node == ir.nodes[id]
        parts == CASE node.k \in {"Intersection", "ExactlyOne", "Union"} -> node.branches
                   [] node.k = "Object" -> SecondOf(node.fields)
                   [] node.k = "Array" -> SetToSeq(Target(node.items))
                   [] node.k = "Tuple" -> node.prefix \o SetToSeq(node.tail)
                   [] OTHER -> <<>>
        compiled == [i \in DOMAIN parts |-> CompileUnwrapped(ir, parts[i])]
        of == LanguagesOf(compiled)
    IN  CASE ~UsesDirectCompilation(node) -> LowerNode(node)
          [] UsesDirectCompilation(node) /\ FirstFailure(compiled) # <<>> -> FirstFailure(compiled)[1]
          [] node.k = "Integer" /\ UsesDirectCompilation(node) -> CompileIntegerMultiple(node)
          [] OTHER ->
                Compiled(
                    CASE node.k = "Intersection" -> [l |-> "All", of |-> of]
                      [] node.k = "ExactlyOne" -> [l |-> "ExactlyOne", of |-> of]
                      [] node.k = "Union" -> [l |-> "Union", of |-> of]
                      [] node.k = "Enum" -> CompileStringEnum(node)
                      [] node.k = "Object" -> CompileObjectNode(node, of)
                      [] node.k = "Array" -> CompileArrayNode(node, of[1])
                      [] OTHER -> CompileTupleNode(node, of))

(* How much a language asks of the automaton construction. *)
RECURSIVE Extent(_)
Extent(language) ==
    LET Total(languages) == FoldLeft(LAMBDA n, part : n + Extent(part), 1, languages)
    IN  CASE language.l \in {"Union", "All", "ExactlyOne", "Shuffle"} -> Total(language.of)
          [] language.l = "Items" ->
                FoldSet(LAMBDA run, n : n + Total(run.first) + Total([i \in 1 .. Cardinality(run.rest) |-> The(run.rest).item]),
                        1, language.runs)
          [] OTHER -> 1

(* A product, a union, a shuffle or a repetition past the engine's limit fails the compilation. *)
WithinEngine(made, max_engine) ==
    IF made.failed = Ok /\ Extent(made.language) > max_engine THEN CompileFails("AutomatonLimit") ELSE made

CompileNode(ir, id, max_engine) ==
    WithinEngine(CompileUnwrapped(ir, id), max_engine)

----------------------------------------------------------------------------
(* Whether a JSON value is in a language. *)

(* The digits of an integer, consumed by the remainder automaton or read off by their ending. *)
Remainder(digits, modulus) == FoldLeft(LAMBDA r, d : (r * 10 + d) % modulus, 0, digits)

InMultiple(language, digits) ==
    CASE language.by = "remainder" -> Remainder(digits, language.modulus) = 0
      [] language.by = "suffix" ->
            \/ digits \in language.short
            \/ \E ending \in language.padded :
                    Len(ending) <= Len(digits) /\ SubSeq(digits, Len(digits) - Len(ending) + 1, Len(digits)) = ending
      [] OTHER -> TRUE

InInteger(language, token) ==
    \E p \in language.alternatives :
        /\ p.neg = token.neg
        /\ IF p.more THEN Len(token.int) >= Len(p.digits) ELSE Len(token.int) = Len(p.digits)
        /\ \A i \in DOMAIN p.digits : token.int[i] \in p.digits[i]

PlainInteger(value) == value.t = "Num" /\ value.frac = <<>> /\ value.exp = <<>>

RECURSIVE InLanguage(_, _)
InLanguage(language, value) ==
    LET passing == {i \in DOMAIN language.of : InLanguage(language.of[i], value)}
        Field(name) == CHOOSE i \in DOMAIN language.names : language.names[i] = name
        InRun(run) ==
            LET items == value.items
                n == Len(run.first)
            IN  /\ Len(items) >= n
                /\ \A i \in 1 .. n : InLanguage(run.first[i], items[i])
                /\ IF run.rest = {}
                   THEN Len(items) = n
                   ELSE LET rest == The(run.rest)
                        IN  /\ Len(items) - n >= rest.min /\ \A m \in rest.max : Len(items) - n <= m
                            /\ \A i \in (n + 1) .. Len(items) : InLanguage(rest.item, items[i])
    IN  CASE language.l = "Null" -> value.t = "Null"
          [] language.l = "Boolean" -> value.t = "Bool"
          [] language.l = "Number" -> value.t = "Num"
          [] language.l = "LexicalNumber" -> value.t = "Num" /\ DigitsWithin(language.digits, value)
          [] language.l = "Integer" -> PlainInteger(value) /\ InInteger(language, value)
          [] language.l = "Multiple" -> PlainInteger(value) /\ InMultiple(language, value.int)
          [] language.l = "String" ->
                /\ value.t = "Str" /\ Within(Length[value.s], language.min, language.max)
                /\ language.regex \notin {AnyBody, CodePoint} => <<language.regex, value.s>> \in Matches
          [] language.l = "Strings" -> value.t = "Str" /\ value.s \in language.members
          [] language.l = "Enum" -> \E member \in language.members : SameValue(member, value)
          [] language.l = "Union" -> passing # {}
          [] language.l = "All" -> passing = DOMAIN language.of
          [] language.l = "ExactlyOne" -> Cardinality(passing) = 1
          [] language.l = "Shuffle" ->
                /\ value.t = "Obj" /\ NamesDistinct(value.fields)
                /\ \A i \in DOMAIN value.fields :
                        /\ value.fields[i][1] \in ToSet(language.names)
                        /\ InLanguage(language.of[Field(value.fields[i][1])], value.fields[i][2])
                /\ \A i \in language.required : language.names[i] \in NameSet(value)
          [] OTHER -> value.t = "Arr" /\ \E run \in language.runs : InRun(run)

=============================================================================
