----------------------------- MODULE JsonLexer -----------------------------
(***************************************************************************)
(* The lexical layer of the structured runtime: the incremental decoder of *)
(* string bodies (structured/lexer.rs) and the transitions of literals and *)
(* numbers (structured/validator.rs).                                      *)
(*                                                                         *)
(* Bytes are one-character strings and a decoded scalar is one too: an     *)
(* escape is a backslash and one selector byte.  \uXXXX and UTF-8          *)
(* sequences, which only make a scalar take more bytes, are left out.      *)
(***************************************************************************)
EXTENDS Naturals, SequencesExt

CONSTANTS
    WS,             \* the whitespace bytes
    Escapes         \* escape selector byte -> the scalar it stands for

NonZero == {"1", "2", "3", "4", "5", "6", "7", "8", "9"}

Digits == {"0"} \cup NonZero

DigitOf ==
    [d \in Digits |-> CHOOSE n \in 0 .. 9 : <<"0", "1", "2", "3", "4", "5", "6", "7", "8", "9">>[n + 1] = d]

(* JsonStringDecoder::push: the next decoder state and the scalar emitted. *)
Decode(decoder, byte) ==
    CASE decoder = "Started" ->
            IF byte \in DOMAIN Escapes THEN [decoder |-> "None", scalar |-> <<Escapes[byte]>>, ok |-> TRUE]
                                       ELSE [decoder |-> "None", scalar |-> <<>>, ok |-> FALSE]
      [] decoder = "None" /\ byte = "\\" -> [decoder |-> "Started", scalar |-> <<>>, ok |-> TRUE]
      [] decoder = "None" /\ byte # "\\" -> [decoder |-> "None", scalar |-> <<byte>>, ok |-> byte # "\""]

(* step_scalar's Continue rows; a literal is the phases and bytes in turn. *)
Literals == {<<"BeforeValue", "n", "n", "u", "nu", "l", "nul", "l", "LiteralDone">>,
             <<"BeforeValue", "t", "t", "r", "tr", "u", "tru", "e", "LiteralDone">>,
             <<"BeforeValue", "f", "f", "a", "fa", "l", "fal", "s", "fals", "e", "LiteralDone">>}

LiteralRows == UNION {{SubSeq(w, i, i + 2) : i \in {j \in 1 .. Len(w) - 2 : j % 2 = 1}} : w \in Literals}

NumberRows ==
    {<<"BeforeValue", "-", "IntFirst">>}
        \cup {<<p, "0", "IntZero">> : p \in {"BeforeValue", "IntFirst"}}
        \cup {<<p, x, "IntRest">> : p \in {"BeforeValue", "IntFirst"}, x \in NonZero}
        \cup {<<"IntRest", x, "IntRest">> : x \in Digits}
        \cup {<<p, ".", "FracFirst">> : p \in {"IntZero", "IntRest"}}
        \cup {<<p, x, "ExpSign">> : p \in {"IntZero", "IntRest", "FracRest"}, x \in {"e", "E"}}
        \cup {<<p, x, "FracRest">> : p \in {"FracFirst", "FracRest"}, x \in Digits}
        \cup {<<"ExpSign", x, "ExpFirst">> : x \in {"+", "-"}}
        \cup {<<p, x, "ExpRest">> : p \in {"ExpSign", "ExpFirst", "ExpRest"}, x \in Digits}

Continue == LiteralRows \cup NumberRows

RowFunction(rows) ==
    [key \in {<<row[1], row[2]>> : row \in rows} |-> (CHOOSE row \in rows : <<row[1], row[2]>> = key)[3]]

ContinueFrom == RowFunction(Continue)

NumberPhases == {"IntFirst", "IntZero", "IntRest", "FracFirst", "FracRest", "ExpSign", "ExpFirst", "ExpRest"}

ScalarIsComplete(phase) == phase \in {"LiteralDone", "IntZero", "IntRest", "FracRest", "ExpRest"}

(* step_scalar on a scalar phase: the next phase, or what else the byte does. *)
StepRow(rows, phase, byte) ==
    CASE <<phase, byte>> \in DOMAIN rows -> rows[<<phase, byte>>]
      [] <<phase, byte>> \notin DOMAIN rows /\ ScalarIsComplete(phase) -> "Done"
      [] <<phase, byte>> \notin DOMAIN rows /\ ~ScalarIsComplete(phase) ->
            CASE phase = "BeforeValue" /\ byte = "\"" -> "StartString"
              [] phase = "BeforeValue" /\ byte = "[" -> "StartArray"
              [] phase = "BeforeValue" /\ byte = "{" -> "StartObject"
              [] phase # "BeforeValue" \/ byte \notin {"\"", "[", "{"} -> "Invalid"

StepScalar(phase, byte) == StepRow(ContinueFrom, phase, byte)

(* number_syntax_engine (compile.rs): whitespace, a JSON number, whitespace;
   "None" is the dead state. *)
NumberSyntaxNext(q, byte, next) ==
    CASE q = "Leading" /\ byte \in WS -> "Leading"
      [] q = "Trailing" -> IF byte \in WS THEN "Trailing" ELSE "None"
      [] q # "Trailing" /\ ~(q = "Leading" /\ byte \in WS) ->
            IF next \in NumberPhases THEN next
            ELSE IF ScalarIsComplete(q) /\ byte \in WS THEN "Trailing" ELSE "None"

NumberSyntax(q, byte) ==
    LET phase == IF q = "Leading" THEN "BeforeValue" ELSE q IN
    NumberSyntaxNext(q, byte, StepScalar(phase, byte))

NumberSyntaxAccepts(q) == q = "Trailing" \/ ScalarIsComplete(q)
=============================================================================
