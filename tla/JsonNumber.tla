---------------------------- MODULE JsonNumber -----------------------------
(***************************************************************************)
(* Number constraints of the structured runtime (structured/state.rs): the *)
(* accumulator a number is folded into byte by byte, and what it answers   *)
(* to integer, multipleOf, minimum and maximum.                            *)
(*                                                                         *)
(* A decimal constant of the schema is a pair coef * 10^(-scale).  The     *)
(* saturation of counters at the width of their type is out of reach of    *)
(* max_number_bytes and is left out; the cap of the exponent is kept.      *)
(***************************************************************************)
EXTENDS JsonLexer, Integers

CONSTANTS
    LeadingDigits,  \* significant digits an accumulator keeps (20 in the code)
    ExponentCap     \* where an exponent saturates (10^9 in the code)

ASSUME NumberAssumption == LeadingDigits \in Nat \ {0} /\ ExponentCap \in Nat

NewAccumulator ==
    [negative |-> FALSE, fraction |-> FALSE, exponent |-> FALSE, exponent_negative |-> FALSE,
     exponent_value |-> 0, fraction_digits |-> 0, core_digits |-> 0, leading |-> <<>>,
     pending_zeros |-> 0, core_mod |-> 0, bytes |-> 0, started |-> FALSE, finished |-> FALSE]

Power(base, n) ==
    LET power[k \in 0 .. n] == IF k = 0 THEN 1 ELSE base * power[k - 1]
    IN power[n]

PowerOfTen(n) == Power(10, n)

(* modular_power_of_ten: a turn of its loop uses one bit of the exponent; there
   are no more turns than the exponent. *)
ModularTurn(t, modulus) ==
    IF t.exponent = 0 THEN t
    ELSE [exponent |-> t.exponent \div 2,
          base |-> (t.base * t.base) % modulus,
          result |-> IF t.exponent % 2 = 1 THEN (t.result * t.base) % modulus ELSE t.result]

ModularPowerOfTen(n, modulus) ==
    LET after[k \in 0 .. n] == IF k = 0 THEN [exponent |-> n, base |-> 10 % modulus, result |-> 1 % modulus]
                               ELSE ModularTurn(after[k - 1], modulus)
    IN after[n].result

(* Zeros between two non-zero digits count once the second one arrives. *)
FlushPendingZeros(a, modulus) ==
    [a EXCEPT !.leading = @ \o [i \in 1 .. Min({LeadingDigits - Len(@), a.pending_zeros}) |-> 0],
              !.core_digits = @ + a.pending_zeros,
              !.core_mod = IF modulus > 1 THEN (@ * ModularPowerOfTen(a.pending_zeros, modulus)) % modulus ELSE @,
              !.pending_zeros = 0]

PushCoreDigit(a, digit, modulus) ==
    [a EXCEPT !.leading = IF Len(@) < LeadingDigits THEN Append(@, digit) ELSE @,
              !.core_digits = @ + 1,
              !.core_mod = IF modulus > 1 THEN (@ * 10 + digit) % modulus ELSE @]

PushDigit(a, digit, modulus) ==
    LET counted == [a EXCEPT !.fraction_digits = IF a.fraction THEN @ + 1 ELSE @]
    IN CASE a.exponent -> [a EXCEPT !.exponent_value = Min({@ * 10 + digit, ExponentCap})]
         [] ~a.exponent /\ digit = 0 ->
               [counted EXCEPT !.pending_zeros = IF a.core_digits > 0 THEN @ + 1 ELSE @]
         [] ~a.exponent /\ digit # 0 -> PushCoreDigit(FlushPendingZeros(counted, modulus), digit, modulus)

PushNumberByte(a, byte, modulus) ==
    LET b == [a EXCEPT !.started = TRUE, !.bytes = @ + 1]
    IN CASE byte \in WS -> [a EXCEPT !.finished = @ \/ a.started]
         [] byte \notin WS /\ a.finished -> b
         [] byte \notin WS /\ ~a.finished ->
               CASE byte = "-" /\ ~a.exponent /\ a.core_digits = 0 /\ ~a.fraction -> [b EXCEPT !.negative = TRUE]
                 [] byte = "-" /\ a.exponent -> [b EXCEPT !.exponent_negative = TRUE]
                 [] byte = "." -> [b EXCEPT !.fraction = TRUE]
                 [] byte \in {"e", "E"} -> [b EXCEPT !.exponent = TRUE]
                 [] byte \in Digits -> PushDigit(b, DigitOf[byte], modulus)
                 [] OTHER -> b

(* The power of ten of the last core digit. *)
ValueShift(a) ==
    (IF a.exponent_negative THEN -a.exponent_value ELSE a.exponent_value) - a.fraction_digits + a.pending_zeros

NumberIsInteger(a) == a.core_digits = 0 \/ ValueShift(a) >= 0

NumberIsMultipleShift(a, multiple, shift) ==
    \/ a.core_digits = 0
    \/ /\ shift >= 0
       /\ multiple.coef > 1 => (a.core_mod * ModularPowerOfTen(shift, multiple.coef)) % multiple.coef = 0

NumberIsMultiple(a, multiple) ==
    NumberIsMultipleShift(a, multiple, ValueShift(a) + multiple.scale)

DecimalDigits[n \in Nat] == IF n = 0 THEN <<>> ELSE Append(DecimalDigits[n \div 10], n % 10)

Sign(n) == IF n < 0 THEN -1 ELSE IF n = 0 THEN 0 ELSE 1

DigitAt(seq, i) == IF i <= Len(seq) THEN seq[i] ELSE 0

(* -1, 0 or 1: the accumulated magnitude against bound * 10^(-scale), by the
   exponent of the first digit, then digit by digit. *)
CompareMagnitudeDiffering(a, bound, digits, exponents, compare_len, differing) ==
    CASE bound = 0 -> 1
      [] bound # 0 /\ exponents # 0 -> Sign(exponents)
      [] bound # 0 /\ exponents = 0 ->
            IF differing # {} THEN Sign(DigitAt(a.leading, Min(differing)) - DigitAt(digits, Min(differing)))
            ELSE IF a.core_digits > compare_len THEN 1 ELSE 0

CompareMagnitudeExponents(a, bound, digits, exponents) ==
    LET compare_len == Max({Len(a.leading), Len(digits)}) IN
    CompareMagnitudeDiffering(a, bound, digits, exponents, compare_len,
        {i \in 1 .. compare_len : DigitAt(a.leading, i) # DigitAt(digits, i)})

CompareMagnitudeDigits(a, bound, scale, zeros, digits) ==
    CompareMagnitudeExponents(a, bound, digits,
        (a.core_digits + ValueShift(a) - 1) - (Len(digits) - (scale - zeros) - 1))

CompareMagnitudeZeros(a, bound, scale, zeros) ==
    CompareMagnitudeDigits(a, bound, scale, zeros, DecimalDigits[bound \div PowerOfTen(zeros)])

CompareMagnitude(a, bound, scale) ==
    CompareMagnitudeZeros(a, bound, scale, Max({k \in 0 .. scale : bound % PowerOfTen(k) = 0}))

CompareToBound(a, bound) ==
    CASE a.core_digits = 0 -> -Sign(bound.coef)
      [] a.core_digits # 0 /\ a.negative # (bound.coef < 0) -> IF a.negative THEN -1 ELSE 1
      [] a.core_digits # 0 /\ a.negative = (bound.coef < 0) ->
            IF a.negative THEN -CompareMagnitude(a, -bound.coef, bound.scale)
                          ELSE CompareMagnitude(a, bound.coef, bound.scale)

(* minimum, maximum and multiple_of are sets of at most one constant. *)
NumberAccepts(a, plan) ==
    /\ plan.integer_only => NumberIsInteger(a)
    /\ \A multiple \in plan.multiple_of : NumberIsMultiple(a, multiple)
    /\ \A bound \in plan.minimum : CompareToBound(a, bound) >= (IF bound.exclusive THEN 1 ELSE 0)
    /\ \A bound \in plan.maximum : CompareToBound(a, bound) <= (IF bound.exclusive THEN -1 ELSE 0)

Modulus(plan) == IF plan.multiple_of = {} THEN 1 ELSE (CHOOSE m \in plan.multiple_of : TRUE).coef

NumberPrefixSignViable(a, plan) ==
    IF a.negative
    THEN \A bound \in plan.minimum : bound.coef < 0 \/ (bound.coef = 0 /\ ~bound.exclusive)
    ELSE \A bound \in plan.maximum : bound.coef >= 0
=============================================================================
