----------------------------- MODULE ValueSynth -----------------------------
(***************************************************************************)
(* The leaf synthesizers of OpenApiExampleBuilder                          *)
(* (perf-dms-document-alias-only/data/generate_document_alias_data.py):    *)
(* _sample_string with _apply_length_constraints, and _sample_integer.     *)
(*                                                                         *)
(* A string is abstracted to what the constraints act on: the length of    *)
(* the value a format produces, how much of it is kept, and how many "x"   *)
(* filler characters follow.  A schema keyword that is missing is None.    *)
(* One step samples one leaf for one (schema, doc_index, path) request.    *)
(* A float of _sample_number is an integer count of ten-thousandths: the   *)
(* schema's numbers are given in tenths, the fraction in thousandths.      *)
(***************************************************************************)
EXTENDS Integers

CONSTANTS
    None,           \* a keyword absent from the schema (schema.get -> None)
    StrRequests,    \* [fmt, enum, minLength, maxLength, keyLen] records
    IntRequests,    \* [minimum, maximum, exMin, exMax, multipleOf, doc, pathLen]
    NumRequests     \* the same with fmt; every number in tenths

VARIABLES
    req,            \* the schema and context of the call
    out             \* None before the call, then the returned value

vars == <<req, out>>

MinOf(a, b) == IF a < b THEN a ELSE b
MaxOf(a, b) == IF a > b THEN a ELSE b

\* Python truthiness of an optional integer keyword.
Truthy(x) == x # None /\ x # 0

(* ---- strings: [kept |-> k, pad |-> p] is value[:k] + "x" * p ---- *)
StrLen(s) == s.kept + s.pad
Whole(n) == [kept |-> n, pad |-> 0]

\* s[:n] for n >= 0.
Truncate(s, n) ==
    IF n <= s.kept THEN Whole(n) ELSE [s EXCEPT !.pad = MinOf(@, n - s.kept)]

\* Mutant: one filler character too few.
ApplyLengthConstraintsShortPad(s, minL, maxL) ==
    LET s1 == IF maxL # None /\ StrLen(s) > maxL THEN Truncate(s, maxL) ELSE s
        padded == [s1 EXCEPT !.pad = @ + (minL - StrLen(s1)) - 1]
    IN  IF Truthy(minL) /\ StrLen(s1) < minL
        THEN IF Truthy(maxL) THEN Truncate(padded, maxL) ELSE padded
        ELSE s1

\* Mutant: the filler is counted from the length before the truncation.
ApplyLengthConstraintsStaleLength(s, minL, maxL) ==
    LET s1 == IF maxL # None /\ StrLen(s) > maxL THEN Truncate(s, maxL) ELSE s
        padded == [s1 EXCEPT !.pad = @ + (minL - StrLen(s))]
    IN  IF Truthy(minL) /\ StrLen(s1) < minL
        THEN IF Truthy(maxL) THEN Truncate(padded, maxL) ELSE padded
        ELSE s1

\* Lines 246-259: truncate to maxLength, then pad to minLength and cut the
\* padded value to maxLength again (unless maxLength is falsy).
ApplyLengthConstraints(s, minL, maxL) ==
    LET s1 == IF maxL # None /\ StrLen(s) > maxL THEN Truncate(s, maxL) ELSE s
        padded == [s1 EXCEPT !.pad = @ + (minL - StrLen(s1))]
    IN  IF Truthy(minL) /\ StrLen(s1) < minL
        THEN IF Truthy(maxL) THEN Truncate(padded, maxL) ELSE padded
        ELSE s1

\* Length of the value each branch of _sample_string formats: a uuid5,
\* "https://example.org/<key>/<12 hex>", base64 of a sha1 digest, and
\* _hash_string's "<key>_<20 hex>" (key = path[-1]).
FormatLength(r) ==
    CASE r.fmt = "uuid"           -> 36
      [] r.fmt \in {"uri", "url"} -> 33 + r.keyLen
      [] r.fmt = "byte"           -> 28
      [] OTHER                    -> r.keyLen + 21

\* Lines 261-304: enum[0] (r.enum is its length) and the date and
\* date-time isoformat strings return before any length constraint.
SampleString(r) ==
    CASE r.enum # None        -> Whole(r.enum)
      [] r.fmt = "date"       -> Whole(10)
      [] r.fmt = "date-time"  -> Whole(20)
      [] OTHER -> ApplyLengthConstraints(Whole(FormatLength(r)),
                                         r.minLength, r.maxLength)

(* ---- integers ---- *)
\* An exclusive bound is [k |-> "none"], [k |-> "bool", b |-> TRUE/FALSE]
\* or [k |-> "num", n |-> n].  isinstance(False, int) holds in Python, so a
\* boolean reaches the numeric branch as 0 or 1.
ExclNumber(e) == IF e.k = "num" THEN e.n ELSE IF e.b THEN 1 ELSE 0
ExclTrue(e) == e.k = "bool" /\ e.b

\* Lines 312-320: the lower bound after exclusiveMinimum.
MinValue(r) ==
    LET min0 == IF r.minimum = None THEN 0 ELSE r.minimum
    IN  CASE ExclTrue(r.exMin)   -> min0 + 1
          [] r.exMin.k # "none"  -> ExclNumber(r.exMin) + 1
          [] OTHER               -> min0

\* Lines 313-328: the upper bound after exclusiveMaximum, raised to the
\* lower bound when below it.
MaxValue(r) ==
    LET min0 == IF r.minimum = None THEN 0 ELSE r.minimum
        max0 == IF r.maximum = None THEN min0 + 1000 ELSE r.maximum
        max1 == CASE ExclTrue(r.exMax)  -> max0 - 1
                  [] r.exMax.k # "none" -> ExclNumber(r.exMax) - 1
                  [] OTHER              -> max0
    IN  MaxOf(max1, MinValue(r))

\* Lines 330-335: a deterministic offset into [min_value, max_value].
SpanValue(r) ==
    LET span == MaxValue(r) - MinValue(r)
    IN  IF span <= 0 THEN MinValue(r)
        ELSE MinValue(r) + ((r.doc * 37 + r.pathLen * 13) % (span + 1))

\* Mutant: the multiple is not floored at min_value.
RoundToMultipleNoFloor(r, v) ==
    IF Truthy(r.multipleOf) /\ r.multipleOf > 0
    THEN (v \div r.multipleOf) * r.multipleOf ELSE v

\* Lines 337-341: round down to multipleOf, floored at min_value.
RoundToMultiple(r, v) ==
    IF Truthy(r.multipleOf) /\ r.multipleOf > 0
    THEN MaxOf(MinValue(r), (v \div r.multipleOf) * r.multipleOf) ELSE v

SampleInteger(r) == RoundToMultiple(r, SpanValue(r))

(* ---- numbers: bounds in tenths, values in ten-thousandths ---- *)
\* A bound as a float: v tenths plus e ulps (math.nextafter moves it by one).
Bound(v, e) == [v |-> v, e |-> e]
LessBound(a, b) == a.v < b.v \/ (a.v = b.v /\ a.e < b.e)
MinimumOr0(r) == IF r.minimum = None THEN 0 ELSE r.minimum

\* Mutant: the numeric exclusive minimum moved 0.1 below the bound.
NumMinOffsetBelow(r) ==
    CASE ExclTrue(r.exMin)  -> Bound(MinimumOr0(r), 1)
      [] r.exMin.k # "none" -> Bound(ExclNumber(r.exMin) - 1, 0)
      [] OTHER              -> Bound(MinimumOr0(r), 0)

\* Lines 353-359: min_value after exclusiveMinimum (nextafter, or + 0.1).
NumMin(r) ==
    CASE ExclTrue(r.exMin)  -> Bound(MinimumOr0(r), 1)
      [] r.exMin.k # "none" -> Bound(ExclNumber(r.exMin) + 1, 0)
      [] OTHER              -> Bound(MinimumOr0(r), 0)

\* Lines 354-367: max_value after exclusiveMaximum, raised to min_value.
NumMax(r) ==
    LET max0 == IF r.maximum = None THEN MinimumOr0(r) + 10000 ELSE r.maximum
        max1 == CASE ExclTrue(r.exMax)  -> Bound(max0, -1)
                  [] r.exMax.k # "none" -> Bound(ExclNumber(r.exMax) - 1, 0)
                  [] OTHER              -> Bound(max0, 0)
    IN  IF LessBound(max1, NumMin(r)) THEN NumMin(r) ELSE max1

\* Lines 369-371: min_value + span * base_fraction.  An ulp is far below
\* every rounding step of line 374, so only the tenths remain.
RawNumber(r) ==
    NumMin(r).v * 1000
        + (NumMax(r).v - NumMin(r).v) * ((r.doc * 17 + r.pathLen * 5) % 1000)

\* Line 373: 5 decimal places for format double (no rounding of a
\* ten-thousandth), 3 otherwise.
Quantum(r) == IF r.fmt = "double" THEN 1 ELSE 10

\* round(x, places): the nearest multiple of q; at a decimal tie the binary
\* value of the float decides, either way.
RoundFloat(x, q) ==
    LET lo == (x \div q) * q
    IN  CASE 2 * (x - lo) < q -> {lo}
          [] 2 * (x - lo) > q -> {lo + q}
          [] OTHER            -> {lo, lo + q}

\* math.floor(x / step): when x is a multiple of step the float quotient
\* is exact for whole numbers, and may fall just below it otherwise.
FloorQuotient(x, step) ==
    IF x % step = 0 /\ ~(x % 10000 = 0 /\ step % 10000 = 0)
    THEN {x \div step, x \div step - 1}
    ELSE {x \div step}

\* Lines 376-380: round down to multipleOf, not floored at min_value.
ToMultiple(r, x) ==
    IF Truthy(r.multipleOf) /\ r.multipleOf > 0
    THEN UNION {RoundFloat(k * r.multipleOf * 1000, Quantum(r)) :
                    k \in FloorQuotient(x, r.multipleOf * 1000)}
    ELSE {x}

\* Lines 345-382: the values _sample_number can return.
SampleNumber(r) ==
    UNION {ToMultiple(r, x) : x \in RoundFloat(RawNumber(r), Quantum(r))}

(* ---- one call per behaviour ---- *)
Init ==
    /\ req \in StrRequests \cup IntRequests \cup NumRequests
    /\ out = None

SampleStringCall ==
    /\ out = None /\ req \in StrRequests
    /\ out' = SampleString(req)
    /\ UNCHANGED req

SampleIntegerCall ==
    /\ out = None /\ req \in IntRequests
    /\ out' = SampleInteger(req)
    /\ UNCHANGED req

SampleNumberCall ==
    /\ out = None /\ req \in NumRequests
    /\ out' \in SampleNumber(req)
    /\ UNCHANGED req

Next == SampleStringCall \/ SampleIntegerCall \/ SampleNumberCall

Spec == Init /\ [][Next]_vars /\ WF_vars(Next)

-----------------------------------------------------------------------------
TypeOK ==
    \/ out = None
    \/ req \in StrRequests /\ out \in [kept : Nat, pad : Nat]
    \/ req \in IntRequests \cup NumRequests /\ out \in Int

Consistent(r) ==
    r.minLength = None \/ r.maxLength = None \/ r.minLength <= r.maxLength

\* Spec 4.1: every string output that is not an enum value is clamped to
\* [minLength, maxLength] (when the two agree), by cutting the formatted
\* value or by padding it with filler, never both: _apply_length_constraints
\* and the branches of _sample_string that bypass it.
StringWithinLengthConstraints ==
    (req \in StrRequests /\ out # None /\ req.enum = None /\ Consistent(req)) =>
        /\ req.minLength # None => StrLen(out) >= req.minLength
        /\ req.maxLength # None => StrLen(out) <= req.maxLength
        /\ out.pad > 0 => out.kept = FormatLength(req)

\* The integer range of spec 4.1: [minimum ?? 0, maximum ?? minimum + 1000],
\* exclusiveMinimum = true adds one, a numeric exclusive bound replaces it
\* by floor(bound) + 1 (symmetrically for the maximum), and any other value
\* of the keyword leaves it alone.
SpecMin(r) ==
    LET base == IF r.minimum = None THEN 0 ELSE r.minimum
    IN  CASE ExclTrue(r.exMin)   -> base + 1
          [] r.exMin.k = "num"   -> r.exMin.n + 1
          [] OTHER               -> base
SpecMax(r) ==
    LET base == IF r.maximum = None
                THEN (IF r.minimum = None THEN 0 ELSE r.minimum) + 1000
                ELSE r.maximum
    IN  CASE ExclTrue(r.exMax)   -> base - 1
          [] r.exMax.k = "num"   -> r.exMax.n - 1
          [] OTHER               -> base

\* _sample_integer returns a value of the spec's range (clamped to its
\* minimum when empty) that is a multiple of multipleOf unless rounding
\* down reached below that minimum, whatever the schema's bound keywords.
IntegerInSpecRange ==
    (req \in IntRequests /\ out # None) =>
        /\ out \in SpecMin(req)..MaxOf(SpecMax(req), SpecMin(req))
        /\ Truthy(req.multipleOf) /\ req.multipleOf > 0 =>
               out % req.multipleOf = 0 \/ out = SpecMin(req)
\* The schema's own range for a number (in ten-thousandths): a numeric
\* exclusive bound is strict and replaces minimum/maximum, as in 4.1;
\* exclusiveMinimum/exclusiveMaximum true keep the bound closed, since the
\* spec's nextafter is followed by its rounding to 3 or 5 places.
LowEnd(r) ==
    IF r.exMin.k = "num" THEN r.exMin.n * 1000 ELSE MinimumOr0(r) * 1000
HighEnd(r) ==
    CASE r.exMax.k = "num"   -> r.exMax.n * 1000
      [] r.maximum = None    -> (MinimumOr0(r) + 10000) * 1000
      [] OTHER               -> r.maximum * 1000
AboveLow(r, x) == IF r.exMin.k = "num" THEN x > LowEnd(r) ELSE x >= LowEnd(r)
BelowHigh(r, x) == IF r.exMax.k = "num" THEN x < HighEnd(r) ELSE x <= HighEnd(r)
NonEmptyRange(r) ==
    \/ LowEnd(r) < HighEnd(r)
    \/ LowEnd(r) = HighEnd(r) /\ r.exMin.k # "num" /\ r.exMax.k # "num"

\* _sample_number returns a value of the schema's range whenever that
\* range is not empty, through the interpolation, the rounding to 3 or 5
\* places (ties either way) and the float clamps; with multipleOf, a
\* multiple of it that the floor may take at most one step below the
\* lower bound (spec 4.1: floor-to-step after rounding), never above the
\* upper one.
NumberInSpecRange ==
    (req \in NumRequests /\ out # None /\ NonEmptyRange(req)) =>
        IF Truthy(req.multipleOf) /\ req.multipleOf > 0
        THEN /\ out % (req.multipleOf * 1000) = 0
             /\ BelowHigh(req, out)
             /\ AboveLow(req, out + req.multipleOf * 1000)
        ELSE AboveLow(req, out) /\ BelowHigh(req, out)
=============================================================================
